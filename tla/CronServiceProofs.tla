--------------------------- MODULE CronServiceProofs ---------------------------
(***************************************************************************)
(* Proofs about CronService, for every set of jobs, timers and callers,    *)
(* every interval and every bound on time, calls and cancellations.        *)
(***************************************************************************)
EXTENDS CronService, TLAPS, SequenceTheorems, FiniteSetTheorems, WellFoundedInduction, NaturalsInduction

USE DEF service, history

-----------------------------------------------------------------------------
(* Numbers *)

\* The next run of a job is the first to come: there is a first one.
LEMMA MinOfTimes ==
    ASSUME NEW S \in SUBSET Nat, S # {}
    PROVE  Min(S) \in S /\ \A y \in S : Min(S) <= y
<1>1. PICK x \in S : \A y \in S : ~(<<y, x>> \in OpToRel(<, Nat))
  BY WFMin, NatLessThanWellFounded, Zenon
<1>2. ASSUME NEW y \in S PROVE x <= y
  <2>1. y < x => <<y, x>> \in OpToRel(<, Nat)
    BY DEF OpToRel
  <2>2. ~(y < x)
    BY <1>1, <2>1, Zenon
  <2> QED BY <2>2
<1> QED BY <1>2 DEF Min

LEMMA MaxOfTwo ==
    ASSUME NEW a \in Nat, NEW b \in Nat
    PROVE  Max({a, b}) \in {a, b} /\ Max({a, b}) = IF a >= b THEN a ELSE b
<1>1. \E x \in {a, b} : \A y \in {a, b} : x >= y
  BY DEF Max
<1>2. Max({a, b}) \in {a, b} /\ \A y \in {a, b} : Max({a, b}) >= y
  BY <1>1 DEF Max
<1> QED BY <1>2

\* Multiples of the interval stay multiples when one adds another.
LEMMA QuotientTyped ==
    ASSUME NEW a \in Nat, NEW n \in Nat \ {0}
    PROVE  a \div n \in Nat /\ a = n * (a \div n) + (a % n) /\ a % n \in 0..(n - 1)
OBVIOUS

LEMMA MultipleAdded ==
    ASSUME NEW a \in Nat, NEW k \in Nat, NEW n \in Nat \ {0}, a % n = 0
    PROVE  (a + n * k) % n = 0
<1> DEFINE m == a + n * k
           d == (a \div n) + k - (m \div n)
<1>1. n * k \in Nat /\ m \in Nat
  OBVIOUS
<1>2. a \div n \in Nat /\ a = n * (a \div n)
  BY QuotientTyped
<1>3. m \div n \in Nat /\ m = n * (m \div n) + (m % n) /\ m % n \in 0..(n - 1)
  BY <1>1, QuotientTyped
<1>4. m = n * ((a \div n) + k)
  BY <1>2
<1>5. d \in Int
  BY <1>2, <1>3
<1>6. m % n = n * d
  BY <1>2, <1>3, <1>4
<1> HIDE DEF m, d
<1>7. d = 0
  <2>1. CASE d >= 1
    <3>1. n * d >= n
      BY <1>5, <2>1
    <3> QED BY <1>3, <1>6, <3>1
  <2>2. CASE d <= -1
    <3>1. n * d <= -n
      BY <1>5, <2>2
    <3> QED BY <1>3, <1>6, <3>1
  <2> QED BY <1>5, <2>1, <2>2
<1> QED BY <1>6, <1>7 DEF m

-----------------------------------------------------------------------------
(* Arming the timer *)

JobRecords == [here : BOOLEAN, used : BOOLEAN, enabled : BOOLEAN, next : Nat]
TimerRecords == [pc : {"absent", "armed", "job", "unwinding"} \cup Finished, wake : Nat,
                 due : Seq(Job), start : Nat, cancel : BOOLEAN, cancelling : BOOLEAN]

\* A timer is kept; the one that is replaced is cancelled.
Kept(tms, cur, x) ==
    /\ timers'[x].pc = tms[x].pc /\ timers'[x].due = tms[x].due /\ timers'[x].wake = tms[x].wake
    /\ timers'[x].cancel = (tms[x].cancel \/ (x = timer /\ x # cur /\ tms[x].pc \notin Finished))

\* The new one sleeps no longer than until the next run of any job.
Replaced(js, tms, cur, t) ==
    /\ timer' = t /\ tms[t].pc \in {"absent"} \cup Finished
    /\ timers'[t].pc = "armed" /\ ~timers'[t].cancel
    /\ \A j \in Wanted(js) : timers'[t].wake <= Max({now, js[j].next})
    /\ \A x \in Timer \ {t} : Kept(tms, cur, x)

Armed(run, js, tms, cur) ==
    \/ /\ timer' = timer /\ (~run \/ Wanted(js) = {})
       /\ \A x \in Timer : Kept(tms, cur, x)
    \/ /\ run /\ Wanted(js) # {}
       /\ \E t \in Timer : Replaced(js, tms, cur, t)

LEMMA CancelledKeeps ==
    ASSUME NEW tms \in [Timer -> TimerRecords], NEW t \in Timer \cup {None}
    PROVE  /\ Cancelled(tms, t) \in [Timer -> TimerRecords]
           /\ \A x \in Timer : /\ Cancelled(tms, t)[x].pc = tms[x].pc /\ Cancelled(tms, t)[x].due = tms[x].due
                               /\ Cancelled(tms, t)[x].wake = tms[x].wake
                               /\ Cancelled(tms, t)[x].cancel = (tms[x].cancel \/ (x = t /\ tms[x].pc \notin Finished))
<1>0. \A x \in Timer : tms[x] \in TimerRecords /\ tms[x].cancel \in BOOLEAN
  BY DEF TimerRecords
<1>1. CASE t = None \/ tms[t].pc \in Finished
  <2>1. Cancelled(tms, t) = tms
    BY <1>1 DEF Cancelled
  <2>2. ASSUME NEW x \in Timer PROVE ~(x = t /\ tms[x].pc \notin Finished)
    BY <1>1, ConstantsAssumption
  <2> QED BY <1>0, <2>1, <2>2
<1>2. CASE ~(t = None \/ tms[t].pc \in Finished)
  <2> DEFINE r == [tms[t] EXCEPT !.cancel = TRUE, !.cancelling = TRUE]
  <2>1. t \in Timer /\ tms[t] \in TimerRecords
    BY <1>2
  <2>2. Cancelled(tms, t) = [tms EXCEPT ![t] = r]
    BY <1>2, <2>1 DEF Cancelled
  <2>3. r \in TimerRecords /\ r.pc = tms[t].pc /\ r.due = tms[t].due /\ r.wake = tms[t].wake /\ r.cancel = TRUE
    BY <2>1 DEF TimerRecords
  <2> HIDE DEF r
  <2>4. Cancelled(tms, t) \in [Timer -> TimerRecords] /\ Cancelled(tms, t)[t] = r
        /\ \A x \in Timer \ {t} : Cancelled(tms, t)[x] = tms[x]
    BY <2>1, <2>2, <2>3
  <2>5. ASSUME NEW x \in Timer
        PROVE  /\ Cancelled(tms, t)[x].pc = tms[x].pc /\ Cancelled(tms, t)[x].due = tms[x].due
               /\ Cancelled(tms, t)[x].wake = tms[x].wake
               /\ Cancelled(tms, t)[x].cancel = (tms[x].cancel \/ (x = t /\ tms[x].pc \notin Finished))
    <3>1. CASE x = t
      BY <1>2, <2>3, <2>4, <3>1
    <3>2. CASE x # t
      BY <1>0, <2>4, <3>2
    <3> QED BY <3>1, <3>2
  <2> QED BY <2>4, <2>5
<1> QED BY <1>1, <1>2

LEMMA ArmArms ==
    ASSUME NEW run, NEW js \in [Job -> JobRecords], NEW tms \in [Timer -> TimerRecords], NEW cur,
           now \in Nat, timer \in Timer \cup {None}, Arm(run, js, tms, cur)
    PROVE  /\ timers' \in [Timer -> TimerRecords] /\ timer' \in Timer \cup {None}
           /\ Armed(run, js, tms, cur)
<1> DEFINE kept == IF timer = cur THEN tms ELSE Cancelled(tms, timer)
           times == {js[j].next : j \in Wanted(js)}
<1>1. kept \in [Timer -> TimerRecords]
  BY CancelledKeeps
<1>2. \A x \in Timer : /\ kept[x].pc = tms[x].pc /\ kept[x].due = tms[x].due /\ kept[x].wake = tms[x].wake
                       /\ kept[x].cancel = (tms[x].cancel \/ (x = timer /\ x # cur /\ tms[x].pc \notin Finished))
  <2>1. \A x \in Timer : tms[x].cancel \in BOOLEAN
    BY DEF TimerRecords
  <2> QED BY <2>1, CancelledKeeps
<1>3. times \in SUBSET Nat /\ \A j \in Wanted(js) : js[j].next \in times
  BY DEF Wanted, JobRecords
<1>4. (times = {}) = (Wanted(js) = {})
  BY ZenonT(60)
<1>5. CASE run /\ times # {}
  <2> DEFINE wake == Max({now, Min(times)})
             new == [NoTimer EXCEPT !.pc = "armed", !.wake = wake]
  <2>1. PICK t \in Timer : /\ Reusable(kept, t) /\ t # cur
                           /\ timers' = [kept EXCEPT ![t] = new] /\ timer' = t
    BY <1>5 DEF Arm
  <2>2. Min(times) \in times /\ \A y \in times : Min(times) <= y
    BY <1>3, <1>5, MinOfTimes
  <2>3. Min(times) \in Nat
    BY <1>3, <2>2
  <2>4. wake \in Nat /\ \A j \in Wanted(js) : wake <= Max({now, js[j].next})
    <3>1. wake = IF now >= Min(times) THEN now ELSE Min(times)
      BY <2>3, MaxOfTwo
    <3>2. ASSUME NEW j \in Wanted(js) PROVE wake <= Max({now, js[j].next})
      <4>1. js[j].next \in times /\ js[j].next \in Nat
        BY <1>3
      <4>2. Max({now, js[j].next}) = IF now >= js[j].next THEN now ELSE js[j].next
        BY <4>1, MaxOfTwo
      <4>3. Min(times) <= js[j].next
        BY <2>2, <4>1
      <4> HIDE DEF times, wake
      <4> QED BY <2>3, <3>1, <4>1, <4>2, <4>3
    <3> QED BY <2>3, <3>1, <3>2
  <2> HIDE DEF wake
  <2>5. new \in TimerRecords /\ new.pc = "armed" /\ ~new.cancel /\ new.wake = wake
    BY <2>4, EmptySeq DEF TimerRecords, NoTimer
  <2> HIDE DEF new, kept, times
  <2>6. kept[t].pc \in {"absent"} \cup Finished
    BY <2>1 DEF Reusable
  <2>7. timers' \in [Timer -> TimerRecords] /\ timers'[t] = new /\ \A x \in Timer \ {t} : timers'[x] = kept[x]
    BY <1>1, <2>1, <2>5
  <2>8. Replaced(js, tms, cur, t)
    BY <1>2, <2>1, <2>4, <2>5, <2>6, <2>7 DEF Replaced, Kept
  <2> QED BY <1>4, <1>5, <2>1, <2>7, <2>8 DEF Armed
<1>6. CASE ~(run /\ times # {})
  <2>1. timers' = kept /\ timer' = timer
    BY <1>6 DEF Arm
  <2> HIDE DEF kept, times
  <2> QED BY <1>1, <1>2, <1>4, <1>6, <2>1 DEF Armed, Kept
<1> QED BY <1>5, <1>6

-----------------------------------------------------------------------------
(* The inductive invariant *)

\* A timer in the callback of a job has that job at the head of its list, a
\* run_job knows its job.
Listed ==
    /\ \A t \in Timer : timers[t].pc \in {"job", "unwinding"} => timers[t].due # <<>>
    /\ \A c \in Caller : callers[c].pc = "manual" => callers[c].job \in Job

\* The drain that may be joined is one of the current timer; the service is
\* down as long as there is one.
Drained ==
    /\ closer # None =>
           /\ ~running /\ drains[closer].pc # "none"
           /\ timer = IF drains[closer].pc = "done" THEN None ELSE closer
    /\ \A t \in Timer : drains[t].pc \in {"created", "waiting"} => closer = t

\* A caller that waits does so for a drain that is there.
Joined ==
    \A c \in Caller :
        /\ Awaiting(c) <=> callers[c].drain # None
        /\ Awaiting(c) => drains[callers[c].drain].pc # "none" /\ callers[c].gen <= generation

\* Once its drain is no longer the one to join, a caller that no stop has
\* overtaken finds the service down, or started by another caller.
Overtaken ==
    \A c \in Caller :
        Awaiting(c) /\ callers[c].drain # closer /\ callers[c].gen = generation =>
            closer = None /\ (timer = None \/ (running /\ timers[timer].pc = "armed"))

\* As long as no job was changed under a job that executes, only the current
\* timer is at work.
OneTimer ==
    ~overlapped => \A t \in Timer :
        timers[t].pc \in {"job", "unwinding"} \/ (timers[t].pc = "armed" /\ ~timers[t].cancel) => t = timer

Down == closed => ~running /\ timer = None

\* A repeating job that is enabled has a next run, in one of its slots.
InSlot(next, from) == next # 0 /\ next > from /\ (next - from) % Interval = 0
Slots == \A j \in Job \ OneTime : jobs[j].here /\ jobs[j].enabled => InSlot(jobs[j].next, base[j])

Inv == Types /\ Listed /\ Drained /\ Joined /\ Overtaken /\ OneTimer /\ Down /\ Covered /\ Slots

-----------------------------------------------------------------------------
(* Types *)

LEMMA NextRunTyped ==
    ASSUME NEW j \in Job, NEW t \in Nat
    PROVE  NextRun(j, t) \in Nat /\ (j \notin OneTime => NextRun(j, t) = t + Interval)
BY ConstantsAssumption DEF NextRun

\* A slot is a whole number of intervals after its anchor.
LEMMA NextSlotTyped ==
    ASSUME NEW a \in Nat, NEW t \in Nat
    PROVE  \E k \in Nat \ {0} : NextSlot(a, t) = a + Interval * k
<1>1. CASE a > t
  BY <1>1, ConstantsAssumption DEF NextSlot
<1>2. CASE ~(a > t)
  <2>1. t - a \in Nat
    BY <1>2
  <2>2. (t - a) \div Interval \in Nat
    BY <2>1, ConstantsAssumption, QuotientTyped
  <2>3. (t - a) \div Interval + 1 \in Nat \ {0}
    BY <2>2
  <2> QED BY <1>2, <2>3 DEF NextSlot
<1> QED BY <1>1, <1>2

LEMMA SlotNat ==
    ASSUME NEW a \in Nat, NEW t \in Nat
    PROVE  NextSlot(a, t) \in Nat /\ NextSlot(a, t) # 0
<1>1. PICK k \in Nat \ {0} : NextSlot(a, t) = a + Interval * k
  BY NextSlotTyped
<1>2. Interval * k \in Nat /\ Interval * k >= 1
  BY ConstantsAssumption
<1> QED BY <1>1, <1>2

\* A slot lies in the future, also at the boundary.
LEMMA SlotAhead ==
    ASSUME NEW a \in Nat, NEW t \in Nat
    PROVE  NextSlot(a, t) > t
<1>1. Interval \in Nat \ {0}
  BY ConstantsAssumption
<1>2. CASE a > t
  BY <1>1, <1>2 DEF NextSlot
<1>3. CASE ~(a > t)
  <2> DEFINE d == t - a
             q == d \div Interval
  <2>1. d \in Nat /\ t = a + d
    BY <1>3
  <2> HIDE DEF d
  <2>2. q \in Nat /\ d = Interval * q + (d % Interval) /\ d % Interval \in 0..(Interval - 1)
    BY <1>1, <2>1, QuotientTyped
  <2>3. NextSlot(a, t) = a + Interval * (q + 1)
    BY <1>3 DEF NextSlot, d
  <2> HIDE DEF q
  <2>4. Interval * (q + 1) = Interval * q + Interval
    BY <1>1, <2>2
  <2> DEFINE p == Interval * q
  <2>5. p \in Nat
    BY <1>1, <2>2
  <2>6. d = p + (d % Interval) /\ NextSlot(a, t) = a + (p + Interval)
    BY <2>2, <2>3, <2>4
  <2> HIDE DEF p
  <2>7. d < p + Interval
    BY <1>1, <2>1, <2>2, <2>5, <2>6
  <2> QED BY <1>1, <2>1, <2>5, <2>6, <2>7
<1> QED BY <1>2, <1>3

\* A run touches its own job only, and moves a repeating one to a slot.
LEMMA AfterRunTyped ==
    ASSUME NEW js \in [Job -> JobRecords], NEW j \in Job, NEW start \in Nat, now \in Nat
    PROVE  /\ AfterRun(js, j, start) \in [Job -> JobRecords]
           /\ \A x \in Job \ {j} : AfterRun(js, j, start)[x] = js[x]
           /\ j \notin OneTime =>
                  LET next == NextSlot(IF js[j].next = 0 THEN start ELSE js[j].next, now)
                  IN  /\ AfterRun(js, j, start)[j].next = next
                      /\ AfterRun(js, j, start)[j].here = js[j].here
                      /\ AfterRun(js, j, start)[j].enabled = js[j].enabled
<1> DEFINE next == NextSlot(IF js[j].next = 0 THEN start ELSE js[j].next, now)
           r1 == [js[j] EXCEPT !.here = FALSE]
           r2 == [js[j] EXCEPT !.enabled = FALSE, !.next = 0]
           r3 == [js[j] EXCEPT !.next = next]
<1>1. js[j] \in JobRecords
  OBVIOUS
<1>2. next \in Nat
  BY <1>1, SlotNat DEF JobRecords
<1>3. AfterRun(js, j, start) = IF j \in Delete THEN [js EXCEPT ![j] = r1]
                               ELSE IF j \in OneTime \ Delete THEN [js EXCEPT ![j] = r2]
                               ELSE [js EXCEPT ![j] = r3]
  BY <1>1 DEF AfterRun
<1> HIDE DEF next
<1>4. r1 \in JobRecords /\ r2 \in JobRecords /\ r3 \in JobRecords /\ r3.next = next
      /\ r3.here = js[j].here /\ r3.enabled = js[j].enabled
  BY <1>1, <1>2 DEF JobRecords
<1> HIDE DEF r1, r2, r3
<1>5. AfterRun(js, j, start) \in [Job -> JobRecords] /\ \A x \in Job \ {j} : AfterRun(js, j, start)[x] = js[x]
  BY <1>3, <1>4
<1>6. j \notin OneTime => AfterRun(js, j, start)[j] = r3
  BY <1>3, ConstantsAssumption
<1> QED BY <1>4, <1>5, <1>6 DEF next

\* The order of the due jobs names every one of them.
LEMMA DueOrdered ==
    ASSUME NEW order, Due(jobs) # {}, order \in SetToSeqs(Due(jobs))
    PROVE  order \in Seq(Job) /\ order # <<>>
<1>1. Due(jobs) \subseteq Job
  BY DEF Due, Wanted
<1>2. IsFiniteSet(Due(jobs))
  BY <1>1, FS_Subset, ConstantsAssumption
<1>3. Cardinality(Due(jobs)) \in Nat /\ Cardinality(Due(jobs)) # 0
  BY <1>2, FS_CardinalityType, FS_EmptySet
<1>4. order \in [1..Cardinality(Due(jobs)) -> Due(jobs)]
  BY DEF SetToSeqs
<1>5. order \in Seq(Due(jobs)) /\ Len(order) = Cardinality(Due(jobs))
  BY <1>3, <1>4
<1>6. order \in Seq(Job)
  BY <1>1, <1>5
<1> QED BY <1>3, <1>5, <1>6

DrainRecords == [pc : {"none", "created", "waiting", "done"}, expected : BOOLEAN, error : BOOLEAN]
CallRecords == [pc : {"idle", "start", "aclose", "manual"}, drain : Timer \cup {None}, gen : Nat,
                job : Job \cup {None}, start : Nat, cancel : BOOLEAN, absorbed : BOOLEAN,
                result : SUBSET {"own", "timer"}]

LEMMA TypesMean ==
    Types <=> /\ now \in 1..MaxTime
              /\ jobs \in [Job -> JobRecords]
              /\ running \in BOOLEAN /\ generation \in Nat
              /\ timer \in Timer \cup {None} /\ requested \in Timer \cup {None}
              /\ closer \in Timer \cup {None}
              /\ timers \in [Timer -> TimerRecords]
              /\ drains \in [Timer -> DrainRecords]
              /\ callers \in [Caller -> CallRecords]
              /\ calls \in 0..MaxCalls /\ cancels \in 0..MaxCancels
              /\ base \in [Job -> Nat]
              /\ closed \in BOOLEAN /\ overlapped \in BOOLEAN
BY DEF Types, JobRecords, TimerRecords, DrainRecords, CallRecords

LEMMA TypesMeanNext ==
    Types' <=> /\ now' \in 1..MaxTime
               /\ jobs' \in [Job -> JobRecords]
               /\ running' \in BOOLEAN /\ generation' \in Nat
               /\ timer' \in Timer \cup {None} /\ requested' \in Timer \cup {None}
               /\ closer' \in Timer \cup {None}
               /\ timers' \in [Timer -> TimerRecords]
               /\ drains' \in [Timer -> DrainRecords]
               /\ callers' \in [Caller -> CallRecords]
               /\ calls' \in 0..MaxCalls /\ cancels' \in 0..MaxCancels
               /\ base' \in [Job -> Nat]
               /\ closed' \in BOOLEAN /\ overlapped' \in BOOLEAN
BY DEF Types, JobRecords, TimerRecords, DrainRecords, CallRecords

\* Lists of due jobs change in the timer's own steps only.
DuesKept(tms) ==
    \A x \in Timer : timers'[x].pc \in {"job", "unwinding"} => /\ tms[x].pc = timers'[x].pc
                                                             /\ timers'[x].due = tms[x].due

LEMMA ArmedKeepsDues ==
    ASSUME NEW run, NEW js, NEW tms, NEW cur, Armed(run, js, tms, cur)
    PROVE  DuesKept(tms)
BY DEF Armed, Replaced, Kept, DuesKept

\* A cancellation that is asked for changes nothing else of a timer.
Asked(t) ==
    \A x \in Timer : /\ timers'[x].pc = timers[x].pc /\ timers'[x].due = timers[x].due
                     /\ timers'[x].wake = timers[x].wake
                     /\ timers[x].cancel => timers'[x].cancel
                     /\ x # t => timers'[x].cancel = timers[x].cancel

LEMMA RequestAsks ==
    ASSUME Types, NEW t \in Timer \cup {None}, RequestCancel(t)
    PROVE  /\ timers' \in [Timer -> TimerRecords] /\ requested' \in Timer \cup {None}
           /\ Asked(t) /\ DuesKept(timers)
<1>1. timers \in [Timer -> TimerRecords] /\ requested \in Timer \cup {None}
      /\ \A x \in Timer : timers[x].cancel \in BOOLEAN
  BY TypesMean DEF TimerRecords
<1>2. CASE UNCHANGED <<timers, requested>>
  BY <1>1, <1>2 DEF Asked, DuesKept
<1>3. CASE timers' = Cancelled(timers, t) /\ requested' = t
  BY <1>1, <1>3, CancelledKeeps DEF Asked, DuesKept
<1> QED BY <1>2, <1>3 DEF RequestCancel

\* A start computes the next run of every job that is there and enabled.
LEMMA StartedJobs ==
    ASSUME Types, StartBody
    PROVE  /\ jobs' \in [Job -> JobRecords] /\ base' \in [Job -> Nat] /\ running' = TRUE /\ closed' = FALSE
           /\ timers' \in [Timer -> TimerRecords] /\ timer' \in Timer \cup {None}
           /\ Armed(TRUE, jobs', timers, None) /\ DuesKept(timers)
           /\ \A j \in Job : IF jobs[j].here /\ jobs[j].enabled
                             THEN jobs'[j].next = NextRun(j, now) /\ base'[j] = now
                             ELSE jobs'[j] = jobs[j] /\ base'[j] = base[j]
<1> DEFINE js == [j \in Job |-> IF jobs[j].here /\ jobs[j].enabled
                                THEN [jobs[j] EXCEPT !.next = NextRun(j, now)] ELSE jobs[j]]
<1>1. now \in Nat /\ jobs \in [Job -> JobRecords] /\ timers \in [Timer -> TimerRecords]
      /\ timer \in Timer \cup {None} /\ base \in [Job -> Nat]
  BY TypesMean, ConstantsAssumption
<1>2. ASSUME NEW j \in Job
      PROVE  [jobs[j] EXCEPT !.next = NextRun(j, now)] \in JobRecords
             /\ [jobs[j] EXCEPT !.next = NextRun(j, now)].next = NextRun(j, now)
  BY <1>1, NextRunTyped DEF JobRecords
<1>3. js \in [Job -> JobRecords]
  BY <1>1, <1>2
<1>4. /\ running' = TRUE /\ closed' = FALSE /\ jobs' = js /\ Arm(TRUE, js, timers, None)
      /\ base' = [j \in Job |-> IF jobs[j].here /\ jobs[j].enabled THEN now ELSE base[j]]
  BY DEF StartBody
<1>5. \A j \in Job : IF jobs[j].here /\ jobs[j].enabled
                     THEN js[j].next = NextRun(j, now) ELSE js[j] = jobs[j]
  BY <1>2
<1>6. base' \in [Job -> Nat] /\ \A j \in Job : base'[j] = IF jobs[j].here /\ jobs[j].enabled THEN now ELSE base[j]
  BY <1>1, <1>4
<1> HIDE DEF js
<1>7. /\ timers' \in [Timer -> TimerRecords] /\ timer' \in Timer \cup {None}
      /\ Armed(TRUE, js, timers, None)
  BY <1>1, <1>3, <1>4, ArmArms
<1>8. Armed(TRUE, jobs', timers, None) /\ DuesKept(timers)
  BY <1>4, <1>7, ArmedKeepsDues
<1> QED BY <1>3, <1>4, <1>5, <1>6, <1>7, <1>8

\* What a timer does when its sleep or a job is over: the next job, or its
\* end, and then the timer is armed again if the service is running.
OthersSame(tms, t) == \A x \in Timer \ {t} : tms[x] = timers[x]

Goes(t) ==
    /\ timer' = timer /\ OthersSame(timers', t)
    /\ timers'[t].pc = "job" /\ ~timers'[t].cancel /\ timers'[t].due # <<>>

Quits(t) == timer' = timer /\ ~running /\ OthersSame(timers', t) /\ timers'[t].pc = "done"

Rearms(t) ==
    \E tms \in [Timer -> TimerRecords] :
        /\ OthersSame(tms, t) /\ tms[t].pc = "done"
        /\ Armed(running, jobs', tms, t)

Works(t) == Goes(t) \/ Quits(t) \/ Rearms(t)

WorkStep(t) ==
    /\ timers[t].pc \in {"armed", "job", "unwinding"} /\ ~timers[t].cancel
    /\ timers' \in [Timer -> TimerRecords] /\ timer' \in Timer \cup {None}
    /\ Works(t)
    /\ UNCHANGED <<now, running, generation, requested, closer, drains, callers, history>>

LEMMA FiresWorks ==
    ASSUME Types, NEW t \in Timer, TimerFires(t)
    PROVE  WorkStep(t) /\ jobs' = jobs
<1>1. now \in Nat /\ jobs \in [Job -> JobRecords] /\ timers \in [Timer -> TimerRecords]
      /\ timer \in Timer \cup {None} /\ timers[t] \in TimerRecords
  BY TypesMean, ConstantsAssumption
<1>2. timers[t].pc = "armed" /\ ~timers[t].cancel /\ jobs' = jobs
      /\ UNCHANGED <<now, running, generation, requested, closer, drains, callers, history>>
  BY DEF TimerFires
<1> DEFINE tms == [timers EXCEPT ![t].pc = "done"]
<1>3. tms \in [Timer -> TimerRecords] /\ OthersSame(tms, t) /\ tms[t].pc = "done"
  <2> DEFINE r == [timers[t] EXCEPT !.pc = "done"]
  <2>1. r \in TimerRecords /\ r.pc = "done" /\ tms = [timers EXCEPT ![t] = r]
    BY <1>1 DEF TimerRecords, Finished
  <2> HIDE DEF r
  <2>2. tms[t] = r /\ tms \in [Timer -> TimerRecords] /\ \A x \in Timer \ {t} : tms[x] = timers[x]
    BY <1>1, <2>1
  <2> QED BY <2>1, <2>2 DEF OthersSame
<1>4. CASE ~running
  <2>1. timers' = tms /\ timer' = timer
    BY <1>4 DEF TimerFires
  <2> HIDE DEF tms
  <2>2. Quits(t)
    BY <1>3, <1>4, <2>1 DEF Quits, OthersSame
  <2> QED BY <1>1, <1>2, <1>3, <2>1, <2>2 DEF WorkStep, Works
<1>5. CASE running /\ Due(jobs) = {}
  <2>1. Arm(running, jobs, tms, t)
    BY <1>5 DEF TimerFires
  <2> HIDE DEF tms
  <2>2. timers' \in [Timer -> TimerRecords] /\ timer' \in Timer \cup {None} /\ Armed(running, jobs, tms, t)
    BY <1>1, <1>3, <2>1, ArmArms
  <2>3. Rearms(t)
    BY <1>2, <1>3, <2>2 DEF Rearms
  <2> QED BY <1>2, <2>2, <2>3 DEF WorkStep, Works
<1>6. CASE running /\ Due(jobs) # {}
  <2>1. timer' = timer /\ \E order \in SetToSeqs(Due(jobs)) :
           timers' = [timers EXCEPT ![t].pc = "job", ![t].due = order, ![t].start = now]
    BY <1>6 DEF TimerFires
  <2>2. PICK order : /\ order \in SetToSeqs(Due(jobs))
                     /\ timers' = [timers EXCEPT ![t].pc = "job", ![t].due = order, ![t].start = now]
    BY <2>1
  <2>3. order \in Seq(Job) /\ order # <<>>
    BY <1>6, <2>2, DueOrdered
  <2> DEFINE r == [timers[t] EXCEPT !.pc = "job", !.due = order, !.start = now]
  <2>4. r \in TimerRecords /\ r.pc = "job" /\ r.due = order /\ r.cancel = timers[t].cancel
        /\ timers' = [timers EXCEPT ![t] = r]
    BY <1>1, <2>2, <2>3 DEF TimerRecords, Finished
  <2> HIDE DEF r
  <2>5. timers' \in [Timer -> TimerRecords] /\ timers'[t] = r /\ \A x \in Timer \ {t} : timers'[x] = timers[x]
    BY <1>1, <2>4
  <2>6. Goes(t)
    BY <1>2, <2>1, <2>3, <2>4, <2>5 DEF Goes, OthersSame
  <2> QED BY <1>1, <1>2, <2>1, <2>5, <2>6 DEF WorkStep, Works
<1> QED BY <1>4, <1>5, <1>6, TypesMean

\* The end of a job, of a timer or of run_job.
Ended(j, start) == jobs' = IF jobs[j].here THEN AfterRun(jobs, j, start) ELSE jobs

LEMMA JobEndsWorks ==
    ASSUME Types, Listed, NEW t \in Timer, JobEnds(t)
    PROVE  /\ WorkStep(t) /\ jobs' \in [Job -> JobRecords]
           /\ \E j \in Job, start \in Nat : Ended(j, start)
<1> DEFINE j == Head(timers[t].due)
           js == IF jobs[j].here THEN AfterRun(jobs, j, timers[t].start) ELSE jobs
           rest == Tail(timers[t].due)
<1>1. now \in Nat /\ jobs \in [Job -> JobRecords] /\ timers \in [Timer -> TimerRecords]
      /\ timer \in Timer \cup {None} /\ timers[t] \in TimerRecords
  BY TypesMean, ConstantsAssumption
<1>2. timers[t].pc \in {"job", "unwinding"} /\ ~timers[t].cancel /\ jobs' = js /\ NextDue(t, js)
      /\ UNCHANGED <<now, running, generation, requested, closer, drains, callers, history>>
  BY DEF JobEnds
<1>3. timers[t].due \in Seq(Job) /\ timers[t].due # <<>> /\ timers[t].start \in Nat
  BY <1>1, <1>2 DEF TimerRecords, Listed
<1>4. j \in Job /\ rest \in Seq(Job)
  BY <1>3, HeadTailProperties
<1>5. Ended(j, timers[t].start)
  BY <1>2 DEF Ended
<1> HIDE DEF j
<1>6. js \in [Job -> JobRecords]
  BY <1>1, <1>3, <1>4, AfterRunTyped
<1> HIDE DEF js, rest
<1>7. CASE rest # <<>>
  <2> DEFINE r == [timers[t] EXCEPT !.pc = "job", !.due = rest, !.start = now]
  <2>1. timer' = timer /\ timers' = [timers EXCEPT ![t].pc = "job", ![t].due = rest, ![t].start = now]
    BY <1>2, <1>7 DEF NextDue, rest
  <2>2. r \in TimerRecords /\ r.pc = "job" /\ r.due = rest /\ r.cancel = timers[t].cancel
        /\ timers' = [timers EXCEPT ![t] = r]
    BY <1>1, <1>2, <1>4, <2>1 DEF TimerRecords
  <2> HIDE DEF r
  <2>3. timers' \in [Timer -> TimerRecords] /\ timers'[t] = r /\ \A x \in Timer \ {t} : timers'[x] = timers[x]
    BY <1>1, <2>2
  <2>4. Goes(t)
    BY <1>2, <1>7, <2>1, <2>2, <2>3 DEF Goes, OthersSame
  <2>5. WorkStep(t)
    BY <1>1, <1>2, <2>1, <2>3, <2>4 DEF WorkStep, Works
  <2> QED BY <1>2, <1>3, <1>4, <1>5, <1>6, <2>5
<1>8. CASE rest = <<>>
  <2> DEFINE tms == [timers EXCEPT ![t].pc = "done", ![t].due = <<>>]
             r == [timers[t] EXCEPT !.pc = "done", !.due = <<>>]
  <2>1. Arm(running, js, tms, t)
    BY <1>2, <1>8 DEF NextDue, rest
  <2>2. r \in TimerRecords /\ r.pc = "done" /\ tms = [timers EXCEPT ![t] = r]
    BY <1>1, EmptySeq DEF TimerRecords, Finished
  <2> HIDE DEF r
  <2>3. tms \in [Timer -> TimerRecords] /\ tms[t].pc = "done" /\ OthersSame(tms, t)
    BY <1>1, <2>2 DEF OthersSame
  <2> HIDE DEF tms
  <2>4. timers' \in [Timer -> TimerRecords] /\ timer' \in Timer \cup {None} /\ Armed(running, js, tms, t)
    BY <1>1, <1>6, <2>1, <2>3, ArmArms
  <2>5. Rearms(t)
    BY <1>2, <2>3, <2>4 DEF Rearms
  <2>6. WorkStep(t)
    BY <1>2, <2>4, <2>5 DEF WorkStep, Works
  <2> QED BY <1>2, <1>3, <1>4, <1>5, <1>6, <2>6
<1> QED BY <1>7, <1>8

\* A cancellation reaches a timer, or its cleaning up is over.
Lapses(t) ==
    /\ timers[t].pc = "unwinding" \/ (timers[t].pc \in {"armed", "job"} /\ timers[t].cancel)
    /\ timers' \in [Timer -> TimerRecords] /\ OthersSame(timers', t)
    /\ \/ timers'[t].pc = "cancelled"
       \/ timers'[t].pc = "unwinding" /\ timers[t].pc \in {"job", "unwinding"} /\ timers'[t].due = timers[t].due
    /\ UNCHANGED <<now, jobs, running, generation, timer, requested, closer, drains, callers, history>>

LEMMA CancelledLapses ==
    ASSUME Types, NEW t \in Timer, TimerCancelled(t) \/ TimerUnwound(t)
    PROVE  Lapses(t)
<1>1. timers \in [Timer -> TimerRecords] /\ timers[t] \in TimerRecords
  BY TypesMean
<1>2. CASE TimerCancelled(t)
  <2> DEFINE r == [timers[t] EXCEPT !.pc = IF @ = "armed" THEN "cancelled" ELSE "unwinding", !.cancel = FALSE]
  <2>1. /\ timers[t].pc \in {"armed", "job", "unwinding"} /\ timers[t].cancel
        /\ timers' = [timers EXCEPT ![t].pc = IF @ = "armed" THEN "cancelled" ELSE "unwinding",
                                    ![t].cancel = FALSE]
        /\ UNCHANGED <<now, jobs, running, generation, timer, requested, closer, drains, callers, history>>
    BY <1>2 DEF TimerCancelled
  <2>2. r \in TimerRecords /\ timers' = [timers EXCEPT ![t] = r]
        /\ r.pc = (IF timers[t].pc = "armed" THEN "cancelled" ELSE "unwinding") /\ r.due = timers[t].due
    BY <1>1, <2>1 DEF TimerRecords, Finished
  <2> HIDE DEF r
  <2>3. timers' \in [Timer -> TimerRecords] /\ timers'[t] = r /\ OthersSame(timers', t)
    BY <1>1, <2>2 DEF OthersSame
  <2> QED BY <2>1, <2>2, <2>3 DEF Lapses
<1>3. CASE TimerUnwound(t)
  <2> DEFINE r == [timers[t] EXCEPT !.pc = "cancelled", !.due = <<>>]
  <2>1. /\ timers[t].pc = "unwinding" /\ timers' = [timers EXCEPT ![t].pc = "cancelled", ![t].due = <<>>]
        /\ UNCHANGED <<now, jobs, running, generation, timer, requested, closer, drains, callers, history>>
    BY <1>3 DEF TimerUnwound
  <2>2. r \in TimerRecords /\ timers' = [timers EXCEPT ![t] = r] /\ r.pc = "cancelled"
    BY <1>1, <2>1, EmptySeq DEF TimerRecords, Finished
  <2> HIDE DEF r
  <2>3. timers' \in [Timer -> TimerRecords] /\ timers'[t] = r /\ OthersSame(timers', t)
    BY <1>1, <2>2 DEF OthersSame
  <2> QED BY <2>1, <2>2, <2>3 DEF Lapses
<1> QED BY <1>2, <1>3

\* A job gets its next run computed, or keeps it.
Recomputed(j) == jobs'[j].next = NextRun(j, now) /\ base'[j] = now
Unmoved(j) == /\ base'[j] = base[j] /\ jobs'[j].next = jobs[j].next
              /\ jobs'[j].enabled = jobs[j].enabled /\ (jobs'[j].here => jobs[j].here)
JobsMove == \A j \in Job : Recomputed(j) \/ Unmoved(j) \/ ~jobs'[j].enabled

\* What every call that changes the jobs does.
ChangeStep(cur) ==
    /\ cur # None => timers[cur].pc = "job" /\ ~timers[cur].cancel
    /\ overlapped' = (overlapped \/ Executing # {})
    /\ calls' \in 0..MaxCalls
    /\ jobs' \in [Job -> JobRecords] /\ base' \in [Job -> Nat] /\ JobsMove
    /\ timers' \in [Timer -> TimerRecords] /\ timer' \in Timer \cup {None}
    /\ Armed(running, jobs', timers, cur) /\ DuesKept(timers)
    /\ UNCHANGED <<now, running, generation, requested, closer, drains, callers, cancels, closed>>

LEMMA ChangeChanges ==
    ASSUME Types, NEW cur, NEW js \in [Job -> JobRecords], Change(js, cur),
           base' \in [Job -> Nat], jobs' = js => JobsMove
    PROVE  ChangeStep(cur)
<1>1. now \in Nat /\ timers \in [Timer -> TimerRecords] /\ timer \in Timer \cup {None} /\ calls \in 0..MaxCalls
  BY TypesMean, ConstantsAssumption
<1>2. jobs' = js /\ Arm(running, js, timers, cur)
      /\ UNCHANGED <<now, running, generation, requested, closer, drains, callers, cancels, closed>>
  BY DEF Change
<1>3. calls' \in 0..MaxCalls /\ overlapped' = (overlapped \/ Executing # {})
      /\ (cur # None => timers[cur].pc = "job" /\ ~timers[cur].cancel)
  BY <1>1, ConstantsAssumption DEF Change, From
<1>4. timers' \in [Timer -> TimerRecords] /\ timer' \in Timer \cup {None} /\ Armed(running, jobs', timers, cur)
  BY <1>1, <1>2, ArmArms
<1>5. DuesKept(timers)
  BY <1>4, ArmedKeepsDues
<1> QED BY <1>2, <1>3, <1>4, <1>5 DEF ChangeStep

LEMMA ChangesChange ==
    ASSUME Types, Changes
    PROVE  \E cur \in Timer \cup {None} : ChangeStep(cur)
<1>1. now \in Nat /\ jobs \in [Job -> JobRecords] /\ base \in [Job -> Nat]
  BY TypesMean, ConstantsAssumption
<1>2. PICK cur \in Timer \cup {None}, j \in Job :
          AddJob(cur, j) \/ RemoveJob(cur, j) \/ \E enabled \in BOOLEAN : EnableJob(cur, j, enabled)
  BY DEF Changes
<1>3. NextRun(j, now) \in Nat /\ jobs[j] \in JobRecords
  BY <1>1, NextRunTyped
<1>4. ASSUME NEW r \in JobRecords, Change([jobs EXCEPT ![j] = r], cur), base' \in [Job -> Nat],
             \A x \in Job \ {j} : base'[x] = base[x],
             \/ r.next = NextRun(j, now) /\ base'[j] = now
             \/ base'[j] = base[j] /\ r.next = jobs[j].next /\ r.enabled = jobs[j].enabled /\ ~r.here
             \/ ~r.enabled
      PROVE  ChangeStep(cur)
  <2> DEFINE js == [jobs EXCEPT ![j] = r]
  <2>1. js \in [Job -> JobRecords] /\ js[j] = r /\ \A x \in Job \ {j} : js[x] = jobs[x]
    BY <1>1, <1>4
  <2>2. Change(js, cur)
    BY <1>4
  <2> HIDE DEF js
  <2>3. jobs' = js => JobsMove
    BY <1>4, <2>1 DEF JobsMove, Recomputed, Unmoved
  <2> QED BY <1>4, <2>1, <2>2, <2>3, ChangeChanges
<1>5. CASE AddJob(cur, j)
  <2> DEFINE r == [here |-> TRUE, used |-> TRUE, enabled |-> TRUE, next |-> NextRun(j, now)]
  <2>1. r \in JobRecords /\ r.next = NextRun(j, now)
    BY <1>3 DEF JobRecords
  <2>2. Change([jobs EXCEPT ![j] = r], cur) /\ base' = [base EXCEPT ![j] = now]
    BY <1>5 DEF AddJob
  <2> HIDE DEF r
  <2>3. base' \in [Job -> Nat] /\ base'[j] = now /\ \A x \in Job \ {j} : base'[x] = base[x]
    BY <1>1, <2>2
  <2> QED BY <1>4, <2>1, <2>2, <2>3
<1>6. CASE RemoveJob(cur, j)
  <2> DEFINE r == [jobs[j] EXCEPT !.here = FALSE]
  <2>1. r \in JobRecords /\ r.next = jobs[j].next /\ r.enabled = jobs[j].enabled /\ ~r.here
    BY <1>3 DEF JobRecords
  <2>2. Change([jobs EXCEPT ![j].here = FALSE], cur) /\ base' = base
    BY <1>6 DEF RemoveJob
  <2>3. [jobs EXCEPT ![j].here = FALSE] = [jobs EXCEPT ![j] = r]
    BY <1>1
  <2> HIDE DEF r
  <2> QED BY <1>1, <1>4, <2>1, <2>2, <2>3
<1>7. ASSUME NEW enabled \in BOOLEAN, EnableJob(cur, j, enabled)
      PROVE  ChangeStep(cur)
  <2> DEFINE r == [jobs[j] EXCEPT !.enabled = enabled, !.next = IF enabled THEN NextRun(j, now) ELSE 0]
  <2>1. r \in JobRecords /\ (r.next = NextRun(j, now) \/ ~r.enabled)
    BY <1>3 DEF JobRecords
  <2>2. /\ Change([jobs EXCEPT ![j].enabled = enabled,
                               ![j].next = IF enabled THEN NextRun(j, now) ELSE 0], cur)
        /\ base' = [base EXCEPT ![j] = now]
    BY <1>7 DEF EnableJob
  <2>3. [jobs EXCEPT ![j].enabled = enabled, ![j].next = IF enabled THEN NextRun(j, now) ELSE 0]
        = [jobs EXCEPT ![j] = r]
    BY <1>1
  <2> HIDE DEF r
  <2>4. base' \in [Job -> Nat] /\ base'[j] = now /\ \A x \in Job \ {j} : base'[x] = base[x]
    BY <1>1, <2>2
  <2> QED BY <1>4, <2>1, <2>2, <2>3, <2>4
<1> QED BY <1>2, <1>5, <1>6, <1>7

\* Calls: the other callers stay where they are.
CallersSame(c) == \A x \in Caller \ {c} : callers'[x] = callers[x]

LEMMA CallTyped ==
    ASSUME Types, NEW c \in Caller, NEW frame \in CallRecords, Call(c, frame)
    PROVE  callers' \in [Caller -> CallRecords] /\ callers'[c] = frame /\ CallersSame(c)
<1>1. callers \in [Caller -> CallRecords]
  BY TypesMean
<1>2. callers' = [callers EXCEPT ![c] = frame]
  BY DEF Call
<1> QED BY <1>1, <1>2 DEF CallersSame

\* Whoever joins a drain waits for the one that may be joined, a new one if need be.
Joins(c, pc, gen) ==
    /\ callers' \in [Caller -> CallRecords] /\ CallersSame(c)
    /\ callers'[c].pc = pc /\ callers'[c].gen = gen /\ callers'[c].drain = closer'
    /\ closer' \in Timer /\ drains' \in [Timer -> DrainRecords]
    /\ \/ closer # None /\ UNCHANGED <<closer, drains>>
       \/ /\ closer = None /\ closer' = timer /\ drains'[timer].pc = "created"
          /\ \A x \in Timer \ {timer} : drains'[x] = drains[x]

LEMMA JoinJoins ==
    ASSUME Types, NEW c \in Caller, NEW frame \in CallRecords, JoinDrain(c, frame),
           ~(closer = None /\ timer = None)
    PROVE  Joins(c, frame.pc, frame.gen)
<1>1. closer \in Timer \cup {None} /\ timer \in Timer \cup {None} /\ drains \in [Timer -> DrainRecords]
  BY TypesMean
<1>2. ASSUME NEW d \in Timer, Call(c, [frame EXCEPT !.drain = d])
      PROVE  /\ callers' \in [Caller -> CallRecords] /\ CallersSame(c)
             /\ callers'[c].pc = frame.pc /\ callers'[c].gen = frame.gen /\ callers'[c].drain = d
  <2> DEFINE r == [frame EXCEPT !.drain = d]
  <2>1. r \in CallRecords /\ r.pc = frame.pc /\ r.gen = frame.gen /\ r.drain = d
    BY DEF CallRecords
  <2>2. Call(c, r)
    BY <1>2
  <2> HIDE DEF r
  <2> QED BY <2>1, <2>2, CallTyped
<1>3. CASE closer # None
  <2>1. Call(c, [frame EXCEPT !.drain = closer]) /\ UNCHANGED <<closer, drains>>
    BY <1>3 DEF JoinDrain
  <2> QED BY <1>1, <1>2, <1>3, <2>1 DEF Joins
<1>4. CASE closer = None
  <2> DEFINE d == [NoDrain EXCEPT !.pc = "created"]
  <2>1. timer \in Timer /\ Call(c, [frame EXCEPT !.drain = timer]) /\ closer' = timer
        /\ drains' = [drains EXCEPT ![timer] = d]
    BY <1>1, <1>4 DEF JoinDrain
  <2>2. d \in DrainRecords /\ d.pc = "created"
    BY DEF NoDrain, DrainRecords
  <2> HIDE DEF d
  <2>3. drains' \in [Timer -> DrainRecords] /\ drains'[timer] = d /\ \A x \in Timer \ {timer} : drains'[x] = drains[x]
    BY <1>1, <2>1, <2>2
  <2> QED BY <1>2, <1>4, <2>1, <2>2, <2>3 DEF Joins
<1> QED BY <1>3, <1>4

LEMMA IdleTyped ==
    /\ NoCall \in CallRecords /\ NoCall.pc = "idle" /\ NoCall.drain = None
    /\ \A pc \in {"start", "aclose"}, gen \in Nat :
          [NoCall EXCEPT !.pc = pc, !.gen = gen] \in CallRecords
          /\ [NoCall EXCEPT !.pc = pc, !.gen = gen].pc = pc
          /\ [NoCall EXCEPT !.pc = pc, !.gen = gen].gen = gen
BY DEF NoCall, CallRecords

\* A job that was run by hand is over, or its caller is.
LEMMA RunJobTyped ==
    ASSUME Types, NEW c \in Caller, NEW j \in Job, RunJob(c, j)
    PROVE  /\ callers[c].pc = "idle" /\ callers'[c].pc = "manual" /\ callers'[c].drain = None
           /\ callers'[c].job = j
           /\ callers' \in [Caller -> CallRecords] /\ CallersSame(c)
           /\ calls' \in 0..MaxCalls /\ overlapped' = (overlapped \/ Executing # {})
           /\ UNCHANGED <<now, jobs, service, cancels, base, closed>>
<1> DEFINE r == [NoCall EXCEPT !.pc = "manual", !.job = j, !.start = now]
<1>1. now \in Nat /\ calls \in 0..MaxCalls
  BY TypesMean, ConstantsAssumption
<1>2. callers[c].pc = "idle" /\ From(None) /\ Call(c, r) /\ UNCHANGED <<now, jobs, service, cancels, base, closed>>
  BY DEF RunJob
<1>3. r \in CallRecords /\ r.pc = "manual" /\ r.drain = None /\ r.job = j
  BY <1>1 DEF NoCall, CallRecords
<1>4. calls' \in 0..MaxCalls /\ overlapped' = (overlapped \/ Executing # {})
  BY <1>1, <1>2, ConstantsAssumption DEF From
<1> HIDE DEF r
<1> QED BY <1>2, <1>3, <1>4, CallTyped

LEMMA RunJobEndsTyped ==
    ASSUME Types, NEW c \in Caller, RunJobEnds(c), callers[c].job \in Job
    PROVE  /\ callers[c].pc = "manual" /\ callers'[c].pc = "idle" /\ callers'[c].drain = None
           /\ callers' \in [Caller -> CallRecords] /\ CallersSame(c)
           /\ overlapped' = (overlapped \/ Executing # {c})
           /\ \E j \in Job, start \in Nat : Ended(j, start)
           /\ jobs' \in [Job -> JobRecords]
           /\ timers' \in [Timer -> TimerRecords] /\ timer' \in Timer \cup {None}
           /\ Armed(running, jobs', timers, None) /\ DuesKept(timers)
           /\ UNCHANGED <<now, running, generation, requested, closer, drains, calls, cancels, base, closed>>
<1> DEFINE j == callers[c].job
           start == callers[c].start
           js == IF jobs[j].here THEN AfterRun(jobs, j, start) ELSE jobs
<1>1. now \in Nat /\ jobs \in [Job -> JobRecords] /\ callers[c] \in CallRecords
      /\ timers \in [Timer -> TimerRecords] /\ timer \in Timer \cup {None}
  BY TypesMean, ConstantsAssumption
<1>2. /\ callers[c].pc = "manual" /\ jobs' = js /\ Arm(running, js, timers, None)
      /\ overlapped' = (overlapped \/ Executing # {c}) /\ Call(c, NoCall)
      /\ UNCHANGED <<now, running, generation, requested, closer, drains, calls, cancels, base, closed>>
  BY DEF RunJobEnds
<1>3. start \in Nat /\ Ended(j, start)
  BY <1>1, <1>2 DEF CallRecords, Ended
<1>4. js \in [Job -> JobRecords]
  BY <1>1, <1>3, AfterRunTyped
<1> HIDE DEF js
<1>5. /\ timers' \in [Timer -> TimerRecords] /\ timer' \in Timer \cup {None}
      /\ Armed(running, jobs', timers, None)
  BY <1>1, <1>2, <1>4, ArmArms
<1>6. DuesKept(timers)
  BY <1>5, ArmedKeepsDues
<1>7. callers' \in [Caller -> CallRecords] /\ CallersSame(c) /\ callers'[c] = NoCall
  BY <1>2, CallTyped, IdleTyped
<1> HIDE DEF j, start
<1> QED BY <1>2, <1>3, <1>4, <1>5, <1>6, <1>7, IdleTyped DEF j

\* A caller is cancelled, or goes on waiting after it was.
Flagged(c) ==
    /\ callers' \in [Caller -> CallRecords] /\ CallersSame(c)
    /\ callers'[c].pc = callers[c].pc /\ callers'[c].drain = callers[c].drain
    /\ callers'[c].gen = callers[c].gen /\ callers'[c].job = callers[c].job
    /\ cancels' \in 0..MaxCancels
    /\ UNCHANGED <<now, jobs, service, calls, base, closed, overlapped>>

LEMMA CancelFlags ==
    ASSUME Types, NEW c \in Caller, CallerAbsorbs(c) \/ CancelCaller(c)
    PROVE  Flagged(c)
<1>1. callers \in [Caller -> CallRecords] /\ callers[c] \in CallRecords /\ cancels \in 0..MaxCancels
  BY TypesMean
<1>2. ASSUME NEW r \in CallRecords, callers' = [callers EXCEPT ![c] = r], r.pc = callers[c].pc,
             r.drain = callers[c].drain, r.gen = callers[c].gen, r.job = callers[c].job,
             cancels' \in 0..MaxCancels, UNCHANGED <<now, jobs, service, calls, base, closed, overlapped>>
      PROVE  Flagged(c)
  <2>1. callers' \in [Caller -> CallRecords] /\ callers'[c] = r /\ CallersSame(c)
    BY <1>1, <1>2 DEF CallersSame
  <2> QED BY <1>2, <2>1 DEF Flagged
<1>3. CASE CallerAbsorbs(c)
  <2> DEFINE r == [callers[c] EXCEPT !.cancel = FALSE, !.absorbed = TRUE]
  <2>1. callers' = [callers EXCEPT ![c].cancel = FALSE, ![c].absorbed = TRUE]
        /\ UNCHANGED <<now, jobs, service, history>>
    BY <1>3 DEF CallerAbsorbs
  <2>2. callers' = [callers EXCEPT ![c] = r]
    BY <1>1, <2>1
  <2>3. r \in CallRecords /\ r.pc = callers[c].pc /\ r.drain = callers[c].drain
        /\ r.gen = callers[c].gen /\ r.job = callers[c].job
    BY <1>1 DEF CallRecords
  <2> HIDE DEF r
  <2> QED BY <1>1, <1>2, <2>1, <2>2, <2>3
<1>4. CASE CancelCaller(c)
  <2> DEFINE r == [callers[c] EXCEPT !.cancel = TRUE]
  <2>1. callers' = [callers EXCEPT ![c].cancel = TRUE] /\ cancels < MaxCancels /\ cancels' = cancels + 1
        /\ UNCHANGED <<now, jobs, service, calls, base, closed, overlapped>>
    BY <1>4 DEF CancelCaller
  <2>2. callers' = [callers EXCEPT ![c] = r] /\ cancels' \in 0..MaxCancels
    BY <1>1, <2>1, ConstantsAssumption
  <2>3. r \in CallRecords /\ r.pc = callers[c].pc /\ r.drain = callers[c].drain
        /\ r.gen = callers[c].gen /\ r.job = callers[c].job
    BY <1>1 DEF CallRecords
  <2> HIDE DEF r
  <2> QED BY <1>1, <1>2, <2>1, <2>2, <2>3
<1> QED BY <1>3, <1>4

LEMMA RunJobCancelledTyped ==
    ASSUME Types, NEW c \in Caller, RunJobCancelled(c)
    PROVE  /\ callers[c].pc = "manual" /\ callers'[c].pc = "idle" /\ callers'[c].drain = None
           /\ callers' \in [Caller -> CallRecords] /\ CallersSame(c)
           /\ UNCHANGED <<now, jobs, service, history>>
<1> DEFINE r == [NoCall EXCEPT !.result = {"own"}]
<1>1. callers[c].pc = "manual" /\ Call(c, r) /\ UNCHANGED <<now, jobs, service, history>>
  BY DEF RunJobCancelled
<1>2. r \in CallRecords /\ r.pc = "idle" /\ r.drain = None
  BY DEF NoCall, CallRecords
<1> HIDE DEF r
<1> QED BY <1>1, <1>2, CallTyped

\* The two steps of a drain.
DrainsSame(t) == \A x \in Timer \ {t} : drains'[x] = drains[x]

LEMMA DrainStartTyped ==
    ASSUME Types, NEW t \in Timer, DrainStart(t)
    PROVE  /\ drains[t].pc = "created" /\ drains'[t].pc = "waiting" /\ DrainsSame(t)
           /\ drains' \in [Timer -> DrainRecords]
           /\ timers' \in [Timer -> TimerRecords] /\ requested' \in Timer \cup {None}
           /\ Asked(t) /\ DuesKept(timers)
           /\ UNCHANGED <<now, jobs, running, generation, timer, closer, callers, history>>
<1> DEFINE r == [drains[t] EXCEPT !.pc = "waiting", !.expected = (requested' = t)]
<1>1. drains \in [Timer -> DrainRecords] /\ drains[t] \in DrainRecords
  BY TypesMean
<1>2. /\ drains[t].pc = "created" /\ RequestCancel(t)
      /\ drains' = [drains EXCEPT ![t].pc = "waiting", ![t].expected = (requested' = t)]
      /\ UNCHANGED <<now, jobs, running, generation, timer, closer, callers, history>>
  BY DEF DrainStart
<1>3. r \in DrainRecords /\ r.pc = "waiting" /\ drains' = [drains EXCEPT ![t] = r]
  BY <1>1, <1>2 DEF DrainRecords
<1> HIDE DEF r
<1>4. drains' \in [Timer -> DrainRecords] /\ drains'[t] = r /\ DrainsSame(t)
  BY <1>1, <1>3 DEF DrainsSame
<1> QED BY <1>2, <1>3, <1>4, RequestAsks

LEMMA DrainEndsTyped ==
    ASSUME Types, NEW t \in Timer, DrainEnds(t)
    PROVE  /\ drains[t].pc = "waiting" /\ drains'[t].pc = "done" /\ DrainsSame(t)
           /\ timers[t].pc \in Finished
           /\ drains' \in [Timer -> DrainRecords]
           /\ timer' = (IF timer = t THEN None ELSE timer) /\ requested' \in Timer \cup {None}
           /\ UNCHANGED <<now, jobs, running, generation, timers, closer, callers, history>>
<1> DEFINE r == [drains[t] EXCEPT !.pc = "done",
                                  !.error = (timers[t].pc = "cancelled" /\ ~drains[t].expected)]
<1>1. drains \in [Timer -> DrainRecords] /\ drains[t] \in DrainRecords /\ requested \in Timer \cup {None}
  BY TypesMean
<1>2. /\ drains[t].pc = "waiting" /\ timers[t].pc \in Finished
      /\ drains' = [drains EXCEPT ![t].pc = "done",
                                  ![t].error = (timers[t].pc = "cancelled" /\ ~drains[t].expected)]
      /\ timer' = (IF timer = t THEN None ELSE timer)
      /\ requested' = (IF requested = t THEN None ELSE requested)
      /\ UNCHANGED <<now, jobs, running, generation, timers, closer, callers, history>>
  BY DEF DrainEnds
<1>3. r \in DrainRecords /\ r.pc = "done" /\ drains' = [drains EXCEPT ![t] = r]
  BY <1>1, <1>2 DEF DrainRecords
<1> HIDE DEF r
<1>4. drains' \in [Timer -> DrainRecords] /\ drains'[t] = r /\ DrainsSame(t)
  BY <1>1, <1>3 DEF DrainsSame
<1> QED BY <1>1, <1>2, <1>3, <1>4

\* A waiting caller is resumed: it forgets the drain, and nobody else knows it.
Begins ==
    /\ jobs' \in [Job -> JobRecords] /\ base' \in [Job -> Nat] /\ JobsMove
    /\ running' = TRUE /\ closed' = FALSE
    /\ timers' \in [Timer -> TimerRecords] /\ timer' \in Timer \cup {None}
    /\ Armed(TRUE, jobs', timers, None) /\ DuesKept(timers)

LEMMA StartBegins ==
    ASSUME Types, StartBody
    PROVE  Begins
<1>1. JobsMove
  BY StartedJobs DEF JobsMove, Recomputed, Unmoved
<1> QED BY <1>1, StartedJobs DEF Begins

Resumes(c) ==
    /\ Awaiting(c) /\ Over(c)
    /\ closer' = IF closer = callers[c].drain THEN None ELSE closer
    /\ drains' \in [Timer -> DrainRecords] /\ DrainsSame(callers[c].drain)
    /\ (\E x \in Caller \ {c} : callers[x].drain = callers[c].drain) => drains' = drains
    /\ drains'[callers[c].drain].pc \in {"none", "done"}
    /\ callers' \in [Caller -> CallRecords] /\ CallersSame(c)
    /\ callers'[c].pc = "idle" /\ callers'[c].drain = None
    /\ \/ callers[c].gen = generation /\ ~AlreadyRunning /\ Begins
       \/ /\ closed' = (closed \/ (callers[c].pc = "aclose" /\ generation = callers[c].gen /\ ~running))
          /\ UNCHANGED <<running, jobs, base, timer, timers>>
    /\ UNCHANGED <<now, generation, requested, calls, cancels, overlapped>>

LEMMA ResumesResumes ==
    ASSUME Types, Joined, NEW c \in Caller, CallerResumes(c)
    PROVE  Resumes(c)
<1> DEFINE d == callers[c].drain
           r == [NoCall EXCEPT !.result = Raised(c)]
           goesOn == callers[c].pc = "start" /\ Raised(c) = {} /\ generation = callers[c].gen /\ ~AlreadyRunning
<1>1. /\ Awaiting(c) /\ Over(c) /\ Forget(d)
      /\ drains' = IF \E x \in Caller \ {c} : callers[x].drain = d
                   THEN drains ELSE [drains EXCEPT ![d] = NoDrain]
      /\ Call(c, r)
      /\ IF goesOn THEN StartBody
         ELSE /\ closed' = (closed \/ (callers[c].pc = "aclose" /\ generation = callers[c].gen /\ ~running))
              /\ UNCHANGED <<running, jobs, base, timer, timers>>
      /\ UNCHANGED <<now, generation, requested, calls, cancels, overlapped>>
  BY DEF CallerResumes
<1>2. drains \in [Timer -> DrainRecords] /\ callers \in [Caller -> CallRecords] /\ d \in Timer
  BY <1>1, TypesMean DEF Joined, CallRecords
<1>3. r \in CallRecords /\ r.pc = "idle" /\ r.drain = None
  BY DEF NoCall, CallRecords, Raised
<1> HIDE DEF r
<1>4. /\ callers' \in [Caller -> CallRecords] /\ CallersSame(c)
      /\ callers'[c].pc = "idle" /\ callers'[c].drain = None
  BY <1>1, <1>3, CallTyped
<1>5. NoDrain \in DrainRecords /\ NoDrain.pc = "none" /\ drains[d].pc = "done"
  BY <1>1 DEF NoDrain, DrainRecords, Over
<1>6. /\ drains' \in [Timer -> DrainRecords] /\ DrainsSame(d)
      /\ (\E x \in Caller \ {c} : callers[x].drain = d) => drains' = drains
      /\ drains'[d].pc \in {"none", "done"}
  BY <1>1, <1>2, <1>5 DEF DrainsSame
<1>7. closer' = IF closer = d THEN None ELSE closer
  BY <1>1 DEF Forget
<1>8. \/ callers[c].gen = generation /\ ~AlreadyRunning /\ Begins
      \/ /\ closed' = (closed \/ (callers[c].pc = "aclose" /\ generation = callers[c].gen /\ ~running))
         /\ UNCHANGED <<running, jobs, base, timer, timers>>
  BY <1>1, StartBegins
<1> HIDE DEF d, goesOn
<1> QED BY <1>1, <1>4, <1>6, <1>7, <1>8 DEF Resumes, d

\* start, aclose and stop.
Idles(c) ==
    /\ callers' \in [Caller -> CallRecords] /\ CallersSame(c)
    /\ callers'[c].pc = "idle" /\ callers'[c].drain = None
    /\ UNCHANGED <<closer, drains>>

Starts(c) ==
    /\ callers[c].pc = "idle" /\ ~AlreadyRunning /\ calls' \in 0..MaxCalls
    /\ \/ closer = None /\ timer = None /\ Begins /\ Idles(c)
       \/ /\ ~(closer = None /\ timer = None)
          /\ Joins(c, "start", generation)
          /\ running' = (running /\ closer # None)
          /\ UNCHANGED <<jobs, timer, timers, base, closed>>
    /\ UNCHANGED <<now, generation, requested, cancels, overlapped>>

\* The service goes down: its timer is asked to end.
Falls ==
    /\ generation' = generation + 1 /\ running' = FALSE
    /\ timers' \in [Timer -> TimerRecords] /\ requested' \in Timer \cup {None}
    /\ Asked(timer) /\ DuesKept(timers)
    /\ calls' \in 0..MaxCalls
    /\ UNCHANGED <<now, jobs, timer, cancels, base, overlapped>>

Closes(c) ==
    /\ callers[c].pc = "idle" /\ Falls
    /\ \/ closer = None /\ timer = None /\ closed' = TRUE /\ Idles(c)
       \/ /\ ~(closer = None /\ timer = None)
          /\ Joins(c, "aclose", generation + 1) /\ UNCHANGED closed

LEMMA CallCounted ==
    ASSUME Types, calls < MaxCalls, calls' = calls + 1
    PROVE  calls' \in 0..MaxCalls
<1>1. calls \in 0..MaxCalls /\ MaxCalls \in Nat
  BY TypesMean, ConstantsAssumption
<1> QED BY <1>1

LEMMA NoCallIdles ==
    ASSUME Types, NEW c \in Caller, Call(c, NoCall), UNCHANGED <<closer, drains>>
    PROVE  Idles(c)
BY CallTyped, IdleTyped, ZenonT(60) DEF Idles

LEMMA StartStarts ==
    ASSUME Types, NEW c \in Caller, Start(c)
    PROVE  Starts(c)
<1> DEFINE frame == [NoCall EXCEPT !.pc = "start", !.gen = generation]
<1>1. /\ callers[c].pc = "idle" /\ calls < MaxCalls /\ calls' = calls + 1 /\ ~AlreadyRunning
      /\ IF closer = None /\ timer = None
         THEN /\ StartBody
              /\ Call(c, NoCall)
              /\ UNCHANGED <<closer, drains>>
         ELSE /\ JoinDrain(c, frame)
              /\ running' = (running /\ closer # None)
              /\ UNCHANGED <<jobs, timer, timers, base, closed>>
      /\ UNCHANGED <<now, generation, requested, cancels, overlapped>>
  BY DEF Start, CallStarts
<1>2. calls' \in 0..MaxCalls
  BY <1>1, CallCounted
<1>3. generation \in Nat
  BY TypesMean
<1>4. frame \in CallRecords /\ frame.pc = "start" /\ frame.gen = generation
  BY <1>3, IdleTyped
<1> HIDE DEF frame
<1>5. CASE closer = None /\ timer = None
  BY <1>1, <1>2, <1>5, StartBegins, NoCallIdles DEF Starts
<1>6. CASE ~(closer = None /\ timer = None)
  <2>1. JoinDrain(c, frame) /\ running' = (running /\ closer # None)
        /\ UNCHANGED <<jobs, timer, timers, base, closed>>
    BY <1>1, <1>6
  <2>2. Joins(c, "start", generation)
    BY <1>4, <1>6, <2>1, JoinJoins
  <2> QED BY <1>1, <1>2, <1>6, <2>1, <2>2 DEF Starts
<1> QED BY <1>5, <1>6

LEMMA CloseFalls ==
    ASSUME Types, calls < MaxCalls, calls' = calls + 1, generation' = generation + 1, running' = FALSE,
           RequestCancel(timer), UNCHANGED <<now, jobs, timer, cancels, base, overlapped>>
    PROVE  Falls
<1>1. timer \in Timer \cup {None}
  BY TypesMean
<1>2. /\ timers' \in [Timer -> TimerRecords] /\ requested' \in Timer \cup {None}
      /\ Asked(timer) /\ DuesKept(timers)
  BY <1>1, RequestAsks
<1> QED BY <1>2, CallCounted DEF Falls

LEMMA StopFalls ==
    ASSUME Types, Stop
    PROVE  Falls /\ UNCHANGED <<closer, drains, callers, closed>>
BY CloseFalls DEF Stop

LEMMA ACloseCloses ==
    ASSUME Types, NEW c \in Caller, AClose(c)
    PROVE  Closes(c)
<1> DEFINE frame == [NoCall EXCEPT !.pc = "aclose", !.gen = generation + 1]
<1>1. /\ callers[c].pc = "idle" /\ calls < MaxCalls /\ calls' = calls + 1
      /\ generation' = generation + 1 /\ running' = FALSE /\ RequestCancel(timer)
      /\ IF closer = None /\ timer = None
         THEN /\ closed' = TRUE
              /\ Call(c, NoCall)
              /\ UNCHANGED <<closer, drains>>
         ELSE /\ JoinDrain(c, frame)
              /\ UNCHANGED closed
      /\ UNCHANGED <<now, jobs, timer, cancels, base, overlapped>>
  BY DEF AClose, CallStarts
<1>2. Falls
  BY <1>1, CloseFalls
<1>3. generation + 1 \in Nat
  BY TypesMean
<1>4. frame \in CallRecords /\ frame.pc = "aclose" /\ frame.gen = generation + 1
  BY <1>3, IdleTyped
<1> HIDE DEF frame
<1>5. CASE closer = None /\ timer = None
  BY <1>1, <1>2, <1>5, NoCallIdles DEF Closes
<1>6. CASE ~(closer = None /\ timer = None)
  <2>1. JoinDrain(c, frame) /\ UNCHANGED closed
    BY <1>1, <1>6
  <2>2. Joins(c, "aclose", generation + 1)
    BY <1>4, <1>6, <2>1, JoinJoins
  <2> QED BY <1>1, <1>2, <1>6, <2>1, <2>2 DEF Closes
<1> QED BY <1>5, <1>6

\* What the steps of a timer have in common.
LEMMA TimerSteps ==
    ASSUME Types, Listed, NEW t \in Timer, TimerNext(t)
    PROVE  /\ t = timer => Woken = {}
           /\ \/ /\ WorkStep(t) /\ jobs' \in [Job -> JobRecords]
                 /\ jobs' = jobs \/ \E j \in Job, start \in Nat : Ended(j, start)
              \/ Lapses(t)
<1>1. jobs \in [Job -> JobRecords]
  BY TypesMean
<1>2. CASE TimerFires(t)
  BY <1>1, <1>2, FiresWorks DEF TimerNext
<1>3. CASE JobEnds(t)
  BY <1>3, JobEndsWorks DEF TimerNext
<1>4. CASE TimerCancelled(t) \/ TimerUnwound(t)
  BY <1>4, CancelledLapses DEF TimerNext
<1> QED BY <1>2, <1>3, <1>4 DEF TimerNext

Manual == \A c \in Caller : callers[c].pc = "manual" => callers[c].job \in Job

LEMMA ManualKept ==
    ASSUME Listed, NEW c \in Caller, CallersSame(c), callers'[c].pc = "manual" => callers'[c].job \in Job
    PROVE  Manual'
BY DEF Listed, Manual, CallersSame

LEMMA DuesListed ==
    ASSUME Listed, DuesKept(timers)
    PROVE  \A t \in Timer : timers'[t].pc \in {"job", "unwinding"} => timers'[t].due # <<>>
BY DEF Listed, DuesKept

LEMMA TypesStep ==
    ASSUME Types, Listed, Joined, [Next]_vars
    PROVE  Types' /\ Listed'
<1>0. /\ now \in 1..MaxTime
      /\ jobs \in [Job -> JobRecords]
      /\ running \in BOOLEAN /\ generation \in Nat
      /\ timer \in Timer \cup {None} /\ requested \in Timer \cup {None}
      /\ closer \in Timer \cup {None}
      /\ timers \in [Timer -> TimerRecords]
      /\ drains \in [Timer -> DrainRecords]
      /\ callers \in [Caller -> CallRecords]
      /\ calls \in 0..MaxCalls /\ cancels \in 0..MaxCancels
      /\ base \in [Job -> Nat]
      /\ closed \in BOOLEAN /\ overlapped \in BOOLEAN
  BY TypesMean
<1>a. Manual /\ \A t \in Timer : timers[t].pc \in {"job", "unwinding"} => timers[t].due # <<>>
  BY DEF Listed, Manual
<1>L. (Manual' /\ \A t \in Timer : timers'[t].pc \in {"job", "unwinding"} => timers'[t].due # <<>>) => Listed'
  BY DEF Listed, Manual
<1>1. ASSUME NEW t \in Timer, TimerNext(t) PROVE Types' /\ Listed'
  <2>1. callers' = callers
    BY <1>1, TimerSteps DEF WorkStep, Lapses
  <2>2. Manual'
    BY <1>a, <2>1 DEF Manual
  <2>3. CASE Lapses(t)
    <3>1. Types'
      BY <1>0, <2>3, TypesMeanNext DEF Lapses
    <3>2. \A x \in Timer : timers'[x].pc \in {"job", "unwinding"} => timers'[x].due # <<>>
      BY <1>a, <2>3 DEF Lapses, OthersSame
    <3> QED BY <1>L, <2>2, <3>1, <3>2
  <2>4. CASE WorkStep(t) /\ jobs' \in [Job -> JobRecords]
    <3>1. Types'
      BY <1>0, <2>4, TypesMeanNext DEF WorkStep
    <3>2. Works(t)
      BY <2>4 DEF WorkStep
    <3>3. CASE Goes(t) \/ Quits(t)
      <4>1. \A x \in Timer : timers'[x].pc \in {"job", "unwinding"} => timers'[x].due # <<>>
        BY <1>a, <3>3 DEF Goes, Quits, OthersSame
      <4> QED BY <1>L, <2>2, <3>1, <4>1
    <3>4. CASE Rearms(t)
      <4>1. PICK tms \in [Timer -> TimerRecords] :
                OthersSame(tms, t) /\ tms[t].pc = "done" /\ Armed(running, jobs', tms, t)
        BY <3>4 DEF Rearms
      <4>2. DuesKept(tms)
        BY <4>1, ArmedKeepsDues
      <4>3. \A x \in Timer : timers'[x].pc \in {"job", "unwinding"} => timers'[x].due # <<>>
        BY <1>a, <4>1, <4>2 DEF DuesKept, OthersSame
      <4> QED BY <1>L, <2>2, <3>1, <4>3
    <3> QED BY <3>2, <3>3, <3>4 DEF Works
  <2> QED BY <1>1, <2>3, <2>4, TimerSteps
<1>2. ASSUME NEW t \in Timer, DrainStart(t) PROVE Types' /\ Listed'
  <2>1. Types'
    BY <1>0, <1>2, DrainStartTyped, TypesMeanNext
  <2>2. Manual'
    BY <1>a, <1>2, DrainStartTyped DEF Manual
  <2> QED BY <1>L, <1>2, <2>1, <2>2, DrainStartTyped, DuesListed
<1>3. ASSUME NEW t \in Timer, DrainEnds(t) PROVE Types' /\ Listed'
  <2>1. timer' \in Timer \cup {None}
    BY <1>0, <1>3, DrainEndsTyped
  <2>2. Types'
    BY <1>0, <1>3, <2>1, DrainEndsTyped, TypesMeanNext
  <2>3. callers' = callers /\ timers' = timers
    BY <1>3, DrainEndsTyped
  <2> QED BY <1>L, <1>a, <2>2, <2>3 DEF Manual
<1>4. ASSUME NEW c \in Caller, RunJobEnds(c) PROVE Types' /\ Listed'
  <2>1. callers[c].pc = "manual"
    BY <1>4 DEF RunJobEnds
  <2>2. callers[c].job \in Job
    BY <2>1 DEF Listed
  <2>3. overlapped' \in BOOLEAN
    BY <1>0, <1>4, <2>2, RunJobEndsTyped
  <2>4. Types'
    BY <1>0, <1>4, <2>2, <2>3, RunJobEndsTyped, TypesMeanNext
  <2>5. Manual'
    BY <1>4, <2>2, RunJobEndsTyped, ManualKept
  <2> QED BY <1>L, <1>4, <2>2, <2>4, <2>5, RunJobEndsTyped, DuesListed
<1>5. ASSUME NEW c \in Caller, RunJobCancelled(c) PROVE Types' /\ Listed'
  <2>1. Types'
    BY <1>0, <1>5, RunJobCancelledTyped, TypesMeanNext
  <2>2. Manual' /\ timers' = timers
    BY <1>5, RunJobCancelledTyped, ManualKept
  <2> QED BY <1>L, <1>a, <2>1, <2>2
<1>6. ASSUME NEW c \in Caller, CallerAbsorbs(c) \/ CancelCaller(c) PROVE Types' /\ Listed'
  <2>1. Flagged(c)
    BY <1>6, CancelFlags
  <2>2. Types'
    BY <1>0, <2>1, TypesMeanNext DEF Flagged
  <2>3. callers'[c].pc = "manual" => callers'[c].job \in Job
    BY <1>a, <2>1 DEF Flagged, Manual
  <2>4. Manual' /\ timers' = timers
    BY <2>1, <2>3, ManualKept DEF Flagged
  <2> QED BY <1>L, <1>a, <2>2, <2>4
<1>7. ASSUME NEW c \in Caller, CallerResumes(c) PROVE Types' /\ Listed'
  <2>1. Resumes(c)
    BY <1>7, ResumesResumes
  <2>2. Manual'
    BY <2>1, ManualKept DEF Resumes
  <2>3. closer' \in Timer \cup {None}
    BY <1>0, <2>1 DEF Resumes
  <2>T. /\ drains' \in [Timer -> DrainRecords] /\ callers' \in [Caller -> CallRecords]
        /\ UNCHANGED <<now, generation, requested, calls, cancels, overlapped>>
    BY <2>1 DEF Resumes
  <2>4. CASE Begins
    <3>1. Types'
      BY <1>0, <2>3, <2>4, <2>T, TypesMeanNext DEF Begins
    <3> QED BY <1>L, <2>2, <2>4, <3>1, DuesListed DEF Begins
  <2>5. CASE /\ closed' = (closed \/ (callers[c].pc = "aclose" /\ generation = callers[c].gen /\ ~running))
             /\ UNCHANGED <<running, jobs, base, timer, timers>>
    <3>1. closed' \in BOOLEAN
      BY <1>0, <2>5
    <3>2. Types'
      BY <1>0, <2>3, <2>5, <2>T, <3>1, TypesMeanNext
    <3> QED BY <1>L, <1>a, <2>2, <2>5, <3>2
  <2> QED BY <2>1, <2>4, <2>5 DEF Resumes
<1>8. ASSUME NEW c \in Caller, Start(c) PROVE Types' /\ Listed'
  <2>1. Starts(c)
    BY <1>8, StartStarts
  <2>2. CASE Begins /\ Idles(c)
    <3>1. Types'
      BY <1>0, <2>1, <2>2, TypesMeanNext DEF Starts, Begins, Idles
    <3>2. Manual'
      BY <2>2, ManualKept DEF Idles
    <3> QED BY <1>L, <2>2, <3>1, <3>2, DuesListed DEF Begins
  <2>3. CASE /\ Joins(c, "start", generation)
             /\ running' = (running /\ closer # None)
             /\ UNCHANGED <<jobs, timer, timers, base, closed>>
    <3>1. running' \in BOOLEAN
      BY <1>0, <2>3
    <3>2. Types'
      BY <1>0, <2>1, <2>3, <3>1, TypesMeanNext DEF Starts, Joins
    <3>3. Manual'
      BY <2>3, ManualKept DEF Joins
    <3> QED BY <1>L, <1>a, <2>3, <3>2, <3>3
  <2> QED BY <2>1, <2>2, <2>3 DEF Starts
<1>9. ASSUME NEW c \in Caller, AClose(c) PROVE Types' /\ Listed'
  <2>1. Closes(c)
    BY <1>9, ACloseCloses
  <2>F. Falls
    BY <2>1 DEF Closes
  <2>2. DuesKept(timers)
    BY <2>F DEF Falls
  <2>N. generation' \in Nat
    BY <1>0, <2>F DEF Falls
  <2>B. running' \in BOOLEAN
    BY <2>F DEF Falls
  <2>T. /\ timers' \in [Timer -> TimerRecords] /\ requested' \in Timer \cup {None}
        /\ calls' \in 0..MaxCalls
        /\ UNCHANGED <<now, jobs, timer, cancels, base, overlapped>>
    BY <2>F DEF Falls
  <2>3. CASE closed' = TRUE /\ Idles(c)
    <3>1. Types'
      BY <1>0, <2>3, <2>N, <2>B, <2>T, TypesMeanNext DEF Idles
    <3>2. Manual'
      BY <2>3, ManualKept DEF Idles
    <3> QED BY <1>L, <2>2, <3>1, <3>2, DuesListed
  <2>4. CASE Joins(c, "aclose", generation + 1) /\ UNCHANGED closed
    <3>1. Types'
      BY <1>0, <2>4, <2>N, <2>B, <2>T, TypesMeanNext DEF Joins
    <3>2. Manual'
      BY <2>4, ManualKept DEF Joins
    <3> QED BY <1>L, <2>2, <3>1, <3>2, DuesListed
  <2> QED BY <2>1, <2>3, <2>4 DEF Closes
<1>10. ASSUME NEW c \in Caller, NEW j \in Job, RunJob(c, j) PROVE Types' /\ Listed'
  <2>1. overlapped' \in BOOLEAN
    BY <1>0, <1>10, RunJobTyped
  <2>2. Types'
    BY <1>0, <1>10, <2>1, RunJobTyped, TypesMeanNext
  <2>3. Manual' /\ timers' = timers
    BY <1>10, RunJobTyped, ManualKept
  <2> QED BY <1>L, <1>a, <2>2, <2>3
<1>11. ASSUME Changes PROVE Types' /\ Listed'
  <2>1. PICK cur \in Timer \cup {None} : ChangeStep(cur)
    BY <1>11, ChangesChange
  <2>2. overlapped' \in BOOLEAN
    BY <1>0, <2>1 DEF ChangeStep
  <2>3. Types'
    BY <1>0, <2>1, <2>2, TypesMeanNext DEF ChangeStep
  <2>4. Manual'
    BY <1>a, <2>1 DEF ChangeStep, Manual
  <2> QED BY <1>L, <2>1, <2>3, <2>4, DuesListed DEF ChangeStep
<1>12. ASSUME Stop PROVE Types' /\ Listed'
  <2>1. Types'
    BY <1>0, <1>12, StopFalls, TypesMeanNext DEF Falls
  <2>2. Manual'
    BY <1>a, <1>12, StopFalls DEF Manual
  <2> QED BY <1>L, <1>12, <2>1, <2>2, StopFalls, DuesListed DEF Falls
<1>13. ASSUME Tick \/ UNCHANGED vars PROVE Types' /\ Listed'
  <2>1. now' \in 1..MaxTime /\ UNCHANGED <<jobs, service, callers, history>>
    BY <1>0, <1>13, ConstantsAssumption DEF Tick, vars
  <2>2. Types' /\ Manual' /\ timers' = timers
    BY <1>0, <1>a, <2>1, TypesMeanNext DEF Manual
  <2> QED BY <1>L, <1>a, <2>2
<1> QED BY <1>1, <1>2, <1>3, <1>4, <1>5, <1>6, <1>7, <1>8, <1>9, <1>10, <1>11, <1>12, <1>13
        DEF Next, DrainNext, CallerNext

-----------------------------------------------------------------------------
(* Drains and their callers *)

Draining == Drained /\ Joined /\ Overtaken

\* Nobody waits any more for anything but the drain that may be joined.
Caught == \A c \in Caller : Awaiting(c) => callers[c].drain = closer

LEMMA NobodyWoken ==
    ASSUME Types, Drained, Joined, Woken = {}
    PROVE  Caught
<1> SUFFICES ASSUME NEW c \in Caller, Awaiting(c), callers[c].drain # closer
             PROVE  FALSE
  BY DEF Caught
<1> DEFINE d == callers[c].drain
<1>1. drains \in [Timer -> DrainRecords] /\ callers \in [Caller -> CallRecords]
  BY TypesMean
<1>2. d # None /\ drains[d].pc # "none"
  BY DEF Joined
<1>3. d \in Timer
  BY <1>1, <1>2 DEF CallRecords
<1>4. drains[d].pc \notin {"created", "waiting"}
  BY <1>3 DEF Drained
<1>5. drains[d].pc = "done"
  BY <1>1, <1>2, <1>3, <1>4 DEF DrainRecords
<1>6. c \in Woken
  BY <1>5 DEF Woken, Over
<1> QED BY <1>6

\* Calls that wait stay as they are; others do not begin to wait.
CallsKept ==
    \A c \in Caller :
        \/ callers'[c].pc = callers[c].pc /\ callers'[c].drain = callers[c].drain /\ callers'[c].gen = callers[c].gen
        \/ callers'[c].pc \notin {"start", "aclose"} /\ callers'[c].drain = None

\* The current timer stays armed if it was, or a new one is armed.
TimerMoves ==
    \/ timer' = timer /\ (Caught \/ (timer # None /\ timers[timer].pc = "armed" => timers'[timer].pc = "armed"))
    \/ running /\ timer' \in Timer /\ timers'[timer'].pc = "armed"

LEMMA TimerMoved ==
    ASSUME Types, Draining, CallsKept, TimerMoves, UNCHANGED <<closer, drains, generation, running>>
    PROVE  Draining'
<1>1. Drained'
  <2>1. closer # None => timer' = timer
    BY DEF Draining, Drained, TimerMoves
  <2> QED BY <2>1 DEF Draining, Drained
<1>2. Joined'
  <2> SUFFICES ASSUME NEW c \in Caller
               PROVE  /\ Awaiting(c)' <=> callers'[c].drain # None
                      /\ Awaiting(c)' => drains'[callers'[c].drain].pc # "none" /\ callers'[c].gen <= generation'
    BY DEF Joined
  <2> QED BY DEF Draining, Joined, CallsKept, Awaiting
<1>3. Overtaken'
  <2> SUFFICES ASSUME NEW c \in Caller, Awaiting(c)', callers'[c].drain # closer, callers'[c].gen = generation
               PROVE  closer = None /\ (timer' = None \/ (running /\ timers'[timer'].pc = "armed"))
    BY DEF Overtaken
  <2>1. Awaiting(c) /\ callers[c].drain # closer /\ callers[c].gen = generation
    BY DEF CallsKept, Awaiting
  <2>2. ~Caught /\ closer = None /\ (timer = None \/ (running /\ timers[timer].pc = "armed"))
    BY <2>1 DEF Draining, Overtaken, Caught
  <2> QED BY <2>2 DEF TimerMoves
<1> QED BY <1>1, <1>2, <1>3 DEF Draining

LEMMA ArmedMoves ==
    ASSUME NEW tms, NEW js, NEW cur, Armed(running, js, tms, cur), timer \in Timer \cup {None},
           Caught \/ \A x \in Timer : x = timer /\ timers[x].pc = "armed" => tms[x].pc = "armed"
    PROVE  TimerMoves
<1>1. CASE timer' = timer /\ \A x \in Timer : Kept(tms, cur, x)
  BY <1>1 DEF TimerMoves, Kept
<1>2. CASE running /\ \E t \in Timer : Replaced(js, tms, cur, t)
  BY <1>2 DEF TimerMoves, Replaced
<1> QED BY <1>1, <1>2 DEF Armed

LEMMA AskedMoves ==
    ASSUME NEW t, Asked(t), timer' = timer, timer \in Timer \cup {None}
    PROVE  TimerMoves
BY DEF Asked, TimerMoves

\* Beginning, with nothing left to drain.
LEMMA BegunTimer ==
    ASSUME Types, Begins, timer = None
    PROVE  timer' = None \/ (timer' \in Timer /\ timers'[timer'].pc = "armed" /\ ~timers'[timer'].cancel)
BY DEF Begins, Armed, Replaced

LEMMA TimerDraining ==
    ASSUME Types, Listed, Draining, NEW t \in Timer, TimerNext(t)
    PROVE  Draining'
<1>1. timer \in Timer \cup {None}
  BY TypesMean
<1>2. t = timer => Caught
  BY TimerSteps, NobodyWoken DEF Draining
<1>3. CASE Lapses(t)
  <2>1. TimerMoves
    BY <1>1, <1>2, <1>3 DEF TimerMoves, Lapses, OthersSame
  <2>2. CallsKept /\ UNCHANGED <<closer, drains, generation, running>>
    BY <1>3 DEF Lapses, CallsKept
  <2> QED BY <2>1, <2>2, TimerMoved
<1>4. CASE WorkStep(t)
  <2>1. CallsKept /\ UNCHANGED <<closer, drains, generation, running>>
    BY <1>4 DEF WorkStep, CallsKept
  <2>2. CASE Goes(t) \/ Quits(t)
    <3>1. TimerMoves
      BY <1>1, <1>2, <2>2 DEF TimerMoves, Goes, Quits, OthersSame
    <3> QED BY <2>1, <3>1, TimerMoved
  <2>3. CASE Rearms(t)
    <3>1. PICK tms \in [Timer -> TimerRecords] :
              OthersSame(tms, t) /\ tms[t].pc = "done" /\ Armed(running, jobs', tms, t)
      BY <2>3 DEF Rearms
    <3>2. Caught \/ \A x \in Timer : x = timer /\ timers[x].pc = "armed" => tms[x].pc = "armed"
      BY <1>2, <3>1 DEF OthersSame
    <3>3. TimerMoves
      BY <1>1, <3>1, <3>2, ArmedMoves
    <3> QED BY <2>1, <3>3, TimerMoved
  <2> QED BY <1>4, <2>2, <2>3 DEF WorkStep, Works
<1> QED BY <1>3, <1>4, TimerSteps

LEMMA DrainDraining ==
    ASSUME Types, Draining, NEW t \in Timer, DrainNext(t)
    PROVE  Draining'
<1>1. /\ drains[t].pc \in {"created", "waiting"} /\ DrainsSame(t)
      /\ UNCHANGED <<running, generation, closer, callers>>
      /\ \/ drains'[t].pc = "waiting" /\ timer' = timer
         \/ drains'[t].pc = "done" /\ timer' = IF timer = t THEN None ELSE timer
  BY DrainStartTyped, DrainEndsTyped DEF DrainNext
<1>2. closer = t /\ closer # None
  BY <1>1, ConstantsAssumption DEF Draining, Drained
<1>3. timer = t /\ ~running
  BY <1>1, <1>2 DEF Draining, Drained
<1>4. Drained'
  <2>1. ~running' /\ drains'[closer'].pc # "none"
        /\ timer' = IF drains'[closer'].pc = "done" THEN None ELSE closer'
    BY <1>1, <1>2, <1>3
  <2>2. ASSUME NEW x \in Timer, drains'[x].pc \in {"created", "waiting"} PROVE closer' = x
    BY <1>1, <1>2, <2>2 DEF DrainsSame, Draining, Drained
  <2> QED BY <2>1, <2>2 DEF Drained
<1>5. Joined'
  <2> SUFFICES ASSUME NEW c \in Caller
               PROVE  /\ Awaiting(c) <=> callers[c].drain # None
                      /\ Awaiting(c) => drains'[callers[c].drain].pc # "none" /\ callers[c].gen <= generation
    BY <1>1 DEF Joined, Awaiting
  <2>1. callers[c].drain \in Timer \cup {None}
    BY TypesMean DEF CallRecords
  <2>2. (Awaiting(c) <=> callers[c].drain # None)
        /\ (Awaiting(c) => drains[callers[c].drain].pc # "none" /\ callers[c].gen <= generation)
    BY DEF Draining, Joined
  <2> QED BY <1>1, <2>1, <2>2 DEF DrainsSame
<1>6. Overtaken'
  BY <1>1, <1>2 DEF Draining, Overtaken, Awaiting
<1> QED BY <1>4, <1>5, <1>6 DEF Draining

\* A caller that nothing has overtaken is resumed when the service is down or
\* was started by another one.
LEMMA ResumedDown ==
    ASSUME Types, Draining, NEW c \in Caller, Resumes(c), callers[c].gen = generation
    PROVE  closer' = None /\ (timer = None \/ (running /\ ~TimerDone))
<1>1. Awaiting(c) /\ drains[callers[c].drain].pc = "done"
      /\ closer' = IF closer = callers[c].drain THEN None ELSE closer
  BY DEF Resumes, Over
<1>2. CASE closer = callers[c].drain
  <2>1. closer # None
    BY <1>1, <1>2 DEF Draining, Joined
  <2> QED BY <1>1, <1>2, <2>1 DEF Draining, Drained
<1>3. CASE closer # callers[c].drain
  <2>1. closer = None /\ (timer = None \/ (running /\ timers[timer].pc = "armed"))
    BY <1>1, <1>3 DEF Draining, Overtaken
  <2> QED BY <1>1, <1>3, <2>1 DEF TimerDone, Finished
<1> QED BY <1>2, <1>3

LEMMA ResumesDraining ==
    ASSUME Types, Draining, NEW c \in Caller, Resumes(c)
    PROVE  Draining'
<1> DEFINE d == callers[c].drain
<1>1. /\ Awaiting(c) /\ drains[d].pc = "done"
      /\ closer' = IF closer = d THEN None ELSE closer
      /\ DrainsSame(d) /\ CallersSame(c)
      /\ (\E x \in Caller \ {c} : callers[x].drain = d) => drains' = drains
      /\ drains'[d].pc \in {"none", "done"}
      /\ callers'[c].pc = "idle" /\ callers'[c].drain = None
      /\ generation' = generation
  BY DEF Resumes, Over
<1>2. d \in Timer /\ d # None /\ closer \in Timer \cup {None} /\ timer \in Timer \cup {None}
      /\ \A x \in Caller : callers[x].drain \in Timer \cup {None}
  BY <1>1, TypesMean DEF Draining, Joined, CallRecords
<1>3. closer = d => timer = None /\ ~running
  BY <1>1, <1>2 DEF Draining, Drained
<1>4. Joined'
  <2> SUFFICES ASSUME NEW x \in Caller
               PROVE  /\ Awaiting(x)' <=> callers'[x].drain # None
                      /\ Awaiting(x)' => drains'[callers'[x].drain].pc # "none" /\ callers'[x].gen <= generation'
    BY DEF Joined
  <2>1. CASE x = c
    BY <1>1, <2>1 DEF Awaiting
  <2>2. CASE x # c
    <3>1. callers'[x] = callers[x] /\ Awaiting(x)' = Awaiting(x)
      BY <1>1, <2>2 DEF CallersSame, Awaiting
    <3>2. Awaiting(x) => drains'[callers[x].drain].pc # "none"
      BY <1>1, <1>2, <2>2 DEF Draining, Joined, DrainsSame
    <3>3. (Awaiting(x) <=> callers[x].drain # None) /\ (Awaiting(x) => callers[x].gen <= generation)
      BY DEF Draining, Joined
    <3> QED BY <1>1, <3>1, <3>2, <3>3
  <2> QED BY <2>1, <2>2
<1>5. ASSUME NEW t \in Timer, drains'[t].pc \in {"created", "waiting"} PROVE t # d /\ closer = t /\ closer' = t
  <2>1. t # d /\ drains[t].pc \in {"created", "waiting"}
    BY <1>1, <1>5 DEF DrainsSame
  <2> QED BY <1>1, <2>1 DEF Draining, Drained
<1>6. CASE callers[c].gen = generation /\ ~AlreadyRunning /\ Begins
  <2>1. timer = None /\ closer' = None
    BY <1>6, ResumedDown DEF AlreadyRunning
  <2>2. running' /\ (timer' = None \/ timers'[timer'].pc = "armed")
    BY <1>6, <2>1, BegunTimer DEF Begins
  <2>3. Drained'
    BY <1>2, <1>5, <2>1, ConstantsAssumption DEF Drained
  <2>4. Overtaken'
    BY <2>1, <2>2 DEF Overtaken
  <2> QED BY <1>4, <2>3, <2>4 DEF Draining
<1>7. CASE UNCHANGED <<running, jobs, base, timer, timers>>
  <2>1. Drained'
    <3>1. ASSUME closer' # None
          PROVE  ~running' /\ drains'[closer'].pc # "none"
                 /\ timer' = IF drains'[closer'].pc = "done" THEN None ELSE closer'
      <4>1. closer' = closer /\ closer # d /\ closer \in Timer
        BY <1>1, <1>2, <3>1
      <4>2. drains'[closer] = drains[closer]
        BY <1>1, <4>1 DEF DrainsSame
      <4>3. ~running /\ drains[closer].pc # "none"
            /\ timer = IF drains[closer].pc = "done" THEN None ELSE closer
        BY <3>1, <4>1 DEF Draining, Drained
      <4> QED BY <1>7, <4>1, <4>2, <4>3
    <3> QED BY <1>5, <3>1 DEF Drained
  <2>2. Overtaken'
    <3> SUFFICES ASSUME NEW x \in Caller, Awaiting(x)', callers'[x].drain # closer', callers'[x].gen = generation'
                 PROVE  closer' = None /\ (timer' = None \/ (running' /\ timers'[timer'].pc = "armed"))
      BY DEF Overtaken
    <3>1. x # c
      BY <1>1 DEF Awaiting
    <3>2. Awaiting(x) /\ callers[x].drain # closer' /\ callers[x].gen = generation
      BY <1>1, <3>1 DEF CallersSame, Awaiting
    <3>3. CASE callers[x].drain = closer
      <4>1. closer = d /\ closer' = None
        BY <1>1, <3>2, <3>3
      <4> QED BY <1>3, <1>7, <4>1
    <3>4. CASE callers[x].drain # closer
      <4>1. closer = None /\ (timer = None \/ (running /\ timers[timer].pc = "armed"))
        BY <3>2, <3>4 DEF Draining, Overtaken
      <4> QED BY <1>1, <1>7, <4>1
    <3> QED BY <3>3, <3>4
  <2> QED BY <1>4, <2>1, <2>2 DEF Draining
<1> QED BY <1>6, <1>7 DEF Resumes

\* Who joins a drain keeps the drains and the callers in order.
LEMMA JoinsDraining ==
    ASSUME Types, Draining, NEW c \in Caller, NEW pc \in {"start", "aclose"}, NEW gen,
           Joins(c, pc, gen), gen \in Nat, gen <= generation', generation <= generation', generation' \in Nat,
           ~running', timer' = timer, ~(closer = None /\ timer = None)
    PROVE  Drained' /\ Joined'
<1>1. /\ CallersSame(c) /\ callers'[c].pc = pc /\ callers'[c].gen = gen /\ callers'[c].drain = closer'
      /\ closer' \in Timer /\ closer' # None
      /\ \/ closer # None /\ UNCHANGED <<closer, drains>>
         \/ /\ closer = None /\ closer' = timer /\ drains'[timer].pc = "created"
            /\ \A x \in Timer \ {timer} : drains'[x] = drains[x]
  BY ConstantsAssumption DEF Joins
<1>2. /\ \A x \in Caller : callers[x].drain \in Timer \cup {None} /\ callers[x].gen \in Nat
      /\ generation \in Nat
  BY TypesMean DEF CallRecords
<1>3. drains'[closer'].pc # "none"
  BY <1>1 DEF Draining, Drained
<1>4. Drained'
  <2>1. timer' = IF drains'[closer'].pc = "done" THEN None ELSE closer'
    BY <1>1 DEF Draining, Drained
  <2>2. ASSUME NEW t \in Timer, drains'[t].pc \in {"created", "waiting"} PROVE closer' = t
    BY <1>1, <2>2, ConstantsAssumption DEF Draining, Drained
  <2> QED BY <1>3, <2>1, <2>2 DEF Drained
<1>5. Joined'
  <2> SUFFICES ASSUME NEW x \in Caller
               PROVE  /\ Awaiting(x)' <=> callers'[x].drain # None
                      /\ Awaiting(x)' => drains'[callers'[x].drain].pc # "none" /\ callers'[x].gen <= generation'
    BY DEF Joined
  <2>1. CASE x = c
    BY <1>1, <1>3, <2>1 DEF Awaiting
  <2>2. CASE x # c
    <3>1. callers'[x] = callers[x] /\ Awaiting(x)' = Awaiting(x)
      BY <1>1, <2>2 DEF CallersSame, Awaiting
    <3>2. (Awaiting(x) <=> callers[x].drain # None)
          /\ (Awaiting(x) => drains[callers[x].drain].pc # "none" /\ callers[x].gen <= generation)
      BY DEF Draining, Joined
    <3>3. Awaiting(x) => drains'[callers[x].drain].pc # "none"
      BY <1>1, <1>2, <3>2
    <3>4. callers[x].gen <= generation => callers[x].gen <= generation'
      BY <1>2
    <3> QED BY <3>1, <3>2, <3>3, <3>4
  <2> QED BY <2>1, <2>2
<1> QED BY <1>4, <1>5

LEMMA StartDraining ==
    ASSUME Types, Draining, NEW c \in Caller, Starts(c)
    PROVE  Draining'
<1>1. callers[c].pc = "idle" /\ ~AlreadyRunning /\ generation' = generation /\ generation \in Nat
      /\ closer \in Timer \cup {None} /\ timer \in Timer \cup {None}
      /\ \A x \in Caller : callers[x].drain \in Timer \cup {None}
  BY TypesMean DEF Starts, CallRecords
<1>2. CASE closer = None /\ timer = None /\ Begins /\ Idles(c)
  <2>1. running' /\ (timer' = None \/ timers'[timer'].pc = "armed")
    BY <1>2, BegunTimer DEF Begins
  <2>2. CallersSame(c) /\ callers'[c].pc = "idle" /\ callers'[c].drain = None /\ UNCHANGED <<closer, drains>>
    BY <1>2 DEF Idles
  <2>3. Drained'
    BY <1>2, <2>2 DEF Draining, Drained
  <2>4. Joined'
    BY <1>1, <2>2 DEF Draining, Joined, CallersSame, Awaiting
  <2>5. Overtaken'
    BY <1>2, <2>1, <2>2 DEF Overtaken
  <2> QED BY <2>3, <2>4, <2>5 DEF Draining
<1>3. CASE /\ ~(closer = None /\ timer = None)
           /\ Joins(c, "start", generation)
           /\ running' = (running /\ closer # None)
           /\ UNCHANGED <<jobs, timer, timers, base, closed>>
  <2>1. ~running'
    BY <1>3 DEF Draining, Drained
  <2>2. Drained' /\ Joined'
    BY <1>1, <1>3, <2>1, JoinsDraining
  <2>3. Overtaken'
    <3> SUFFICES ASSUME NEW x \in Caller, Awaiting(x)', callers'[x].drain # closer', callers'[x].gen = generation'
                 PROVE  FALSE
      BY DEF Overtaken
    <3>1. x # c /\ callers'[x] = callers[x] /\ Awaiting(x)
      BY <1>3 DEF Joins, CallersSame, Awaiting
    <3>2. callers[x].drain # None /\ callers[x].gen = generation
      BY <1>1, <3>1 DEF Draining, Joined
    <3>3. callers[x].drain # closer
      BY <1>3, <3>1, <3>2 DEF Joins
    <3>4. closer = None /\ (timer = None \/ (running /\ timers[timer].pc = "armed"))
      BY <3>1, <3>2, <3>3 DEF Draining, Overtaken
    <3>5. ~(running /\ timers[timer].pc = "armed")
      BY <1>1 DEF AlreadyRunning, TimerDone, Finished
    <3> QED BY <1>3, <3>4, <3>5
  <2> QED BY <2>2, <2>3 DEF Draining
<1> QED BY <1>2, <1>3 DEF Starts

LEMMA CloseDraining ==
    ASSUME Types, Draining, Falls,
           \/ UNCHANGED <<closer, drains, callers>>
           \/ \E c \in Caller : Closes(c)
    PROVE  Draining'
<1>1. generation' = generation + 1 /\ ~running' /\ timer' = timer /\ generation \in Nat
      /\ \A x \in Caller : callers[x].drain \in Timer \cup {None} /\ callers[x].gen \in Nat
  BY TypesMean DEF Falls, CallRecords
<1>2. CASE UNCHANGED <<closer, drains, callers>>
  <2>1. Drained'
    BY <1>1, <1>2 DEF Draining, Drained
  <2>2. Joined'
    BY <1>1, <1>2 DEF Draining, Joined, Awaiting
  <2>3. Overtaken'
    <3>1. \A x \in Caller : Awaiting(x) => callers[x].gen # generation'
      BY <1>1 DEF Draining, Joined
    <3> QED BY <1>2, <3>1 DEF Overtaken, Awaiting
  <2> QED BY <2>1, <2>2, <2>3 DEF Draining
<1>3. ASSUME NEW c \in Caller, Closes(c) PROVE Draining'
  <2>1. CASE Idles(c)
    <3>1. callers[c].pc = "idle" /\ CallersSame(c) /\ callers'[c].pc = "idle" /\ callers'[c].drain = None
          /\ UNCHANGED <<closer, drains>>
      BY <1>3, <2>1 DEF Idles, Closes
    <3>2. Drained'
      BY <1>1, <3>1 DEF Draining, Drained
    <3>3. ASSUME NEW x \in Caller
          PROVE  /\ Awaiting(x)' <=> callers'[x].drain # None
                 /\ Awaiting(x)' => drains'[callers'[x].drain].pc # "none" /\ callers'[x].gen < generation'
      <4>1. CASE x = c
        BY <3>1, <4>1 DEF Awaiting
      <4>2. CASE x # c
        BY <1>1, <3>1, <4>2 DEF Draining, Joined, CallersSame, Awaiting
      <4> QED BY <4>1, <4>2
    <3>4. \A x \in Caller : Awaiting(x)' => callers'[x].gen \in Nat
      BY <1>1, <3>1 DEF CallersSame, Awaiting
    <3>5. Joined'
      <4>1. \A x \in Caller : Awaiting(x)' => callers'[x].gen <= generation'
        BY <1>1, <3>3, <3>4
      <4> QED BY <3>3, <4>1 DEF Joined
    <3>6. Overtaken'
      BY <1>1, <3>3, <3>4 DEF Overtaken
    <3> QED BY <3>2, <3>5, <3>6 DEF Draining
  <2>2. CASE ~(closer = None /\ timer = None) /\ Joins(c, "aclose", generation + 1)
    <3>1. Drained' /\ Joined'
      BY <1>1, <2>2, JoinsDraining
    <3>2. Overtaken'
      <4> SUFFICES ASSUME NEW x \in Caller, Awaiting(x)', callers'[x].drain # closer', callers'[x].gen = generation'
                   PROVE  FALSE
        BY DEF Overtaken
      <4>1. x # c /\ callers'[x] = callers[x] /\ Awaiting(x)
        BY <2>2 DEF Joins, CallersSame, Awaiting
      <4>2. callers[x].gen <= generation
        BY <4>1 DEF Draining, Joined
      <4> QED BY <1>1, <4>1, <4>2
    <3> QED BY <3>1, <3>2 DEF Draining
  <2> QED BY <1>3, <2>1, <2>2 DEF Closes
<1> QED BY <1>2, <1>3

LEMMA DrainingStep ==
    ASSUME Types, Listed, Draining, [Next]_vars
    PROVE  Draining'
<1>0. timer \in Timer \cup {None} /\ Joined
  BY TypesMean DEF Draining
<1>1. ASSUME NEW t \in Timer, TimerNext(t) \/ DrainNext(t) PROVE Draining'
  BY <1>1, TimerDraining, DrainDraining
<1>2. ASSUME NEW c \in Caller, RunJobEnds(c) PROVE Draining'
  <2>1. callers[c].pc = "manual"
    BY <1>2 DEF RunJobEnds
  <2>2. callers[c].job \in Job
    BY <2>1 DEF Listed
  <2>3. CallsKept /\ UNCHANGED <<closer, drains, generation, running>>
    BY <1>2, <2>2, RunJobEndsTyped DEF CallsKept, CallersSame
  <2>4. Armed(running, jobs', timers, None)
    BY <1>2, <2>2, RunJobEndsTyped
  <2>5. TimerMoves
    BY <1>0, <2>4, ArmedMoves
  <2> QED BY <2>3, <2>5, TimerMoved
<1>3. ASSUME NEW c \in Caller, CallsKept, UNCHANGED service PROVE Draining'
  <2>1. TimerMoves
    BY <1>0, <1>3 DEF TimerMoves
  <2> QED BY <1>3, <2>1, TimerMoved
<1>4. ASSUME NEW c \in Caller, RunJobCancelled(c) PROVE Draining'
  <2>1. CallsKept /\ UNCHANGED service
    BY <1>4, RunJobCancelledTyped DEF CallsKept, CallersSame
  <2> QED BY <1>3, <2>1
<1>5. ASSUME NEW c \in Caller, CallerAbsorbs(c) \/ CancelCaller(c) PROVE Draining'
  <2>1. CallsKept /\ UNCHANGED service
    BY <1>5, CancelFlags DEF Flagged, CallsKept, CallersSame
  <2> QED BY <1>3, <2>1
<1>6. ASSUME NEW c \in Caller, NEW j \in Job, RunJob(c, j) PROVE Draining'
  <2>1. CallsKept /\ UNCHANGED service
    BY <1>6, RunJobTyped DEF CallsKept, CallersSame
  <2> QED BY <1>3, <2>1
<1>7. ASSUME NEW c \in Caller, CallerResumes(c) PROVE Draining'
  BY <1>0, <1>7, ResumesResumes, ResumesDraining
<1>8. ASSUME NEW c \in Caller, Start(c) PROVE Draining'
  BY <1>8, StartStarts, StartDraining
<1>9. ASSUME NEW c \in Caller, AClose(c) PROVE Draining'
  <2>1. Closes(c)
    BY <1>9, ACloseCloses
  <2>2. Falls
    BY <2>1 DEF Closes
  <2> QED BY <2>1, <2>2, CloseDraining
<1>10. ASSUME Changes PROVE Draining'
  <2>1. PICK cur \in Timer \cup {None} : ChangeStep(cur)
    BY <1>10, ChangesChange
  <2>2. CallsKept /\ UNCHANGED <<closer, drains, generation, running>> /\ Armed(running, jobs', timers, cur)
    BY <2>1 DEF ChangeStep, CallsKept
  <2>3. TimerMoves
    BY <1>0, <2>2, ArmedMoves
  <2> QED BY <2>2, <2>3, TimerMoved
<1>11. ASSUME Stop PROVE Draining'
  BY <1>11, StopFalls, CloseDraining
<1>12. ASSUME Tick \/ UNCHANGED vars PROVE Draining'
  <2>1. CallsKept /\ UNCHANGED <<closer, drains, generation, running, timer, timers>>
    BY <1>12 DEF Tick, vars, CallsKept
  <2>2. TimerMoves
    BY <1>0, <2>1 DEF TimerMoves
  <2> QED BY <2>1, <2>2, TimerMoved
<1> QED BY <1>1, <1>2, <1>4, <1>5, <1>6, <1>7, <1>8, <1>9, <1>10, <1>11, <1>12 DEF Next, CallerNext

-----------------------------------------------------------------------------
(* One timer at work, none when closed *)

AtWork(tm) == tm.pc \in {"job", "unwinding"} \/ (tm.pc = "armed" /\ ~tm.cancel)

LEMMA OneTimerMeans ==
    /\ OneTimer <=> (~overlapped => \A t \in Timer : AtWork(timers[t]) => t = timer)
    /\ OneTimer' <=> (~overlapped' => \A t \in Timer : AtWork(timers'[t]) => t = timer')
BY DEF OneTimer, AtWork

\* Arming leaves one timer when nobody executes and the one that sleeps is
\* the current one.
LEMMA ArmedOne ==
    ASSUME NEW run, NEW js, NEW tms, NEW cur, Armed(run, js, tms, cur),
           \A x \in Timer : AtWork(tms[x]) => tms[x].pc = "armed" /\ x = timer /\ x # cur
    PROVE  \A x \in Timer : AtWork(timers'[x]) => x = timer'
<1>1. CASE timer' = timer /\ \A x \in Timer : Kept(tms, cur, x)
  BY <1>1 DEF Kept, AtWork
<1>2. ASSUME NEW t \in Timer, Replaced(js, tms, cur, t)
      PROVE  \A x \in Timer : AtWork(timers'[x]) => x = timer'
  <2> SUFFICES ASSUME NEW x \in Timer, x # t, AtWork(timers'[x]) PROVE FALSE
    BY <1>2 DEF Replaced
  <2>1. Kept(tms, cur, x)
    BY <1>2 DEF Replaced
  <2>2. AtWork(tms[x])
    BY <2>1 DEF Kept, AtWork
  <2>3. tms[x].pc = "armed" /\ x = timer /\ x # cur
    BY <2>2
  <2> QED BY <2>1, <2>3 DEF Kept, AtWork, Finished
<1> QED BY <1>1, <1>2 DEF Armed

LEMMA BegunOne ==
    ASSUME OneTimer, Types, ~overlapped, Begins, timer = None
    PROVE  \A x \in Timer : AtWork(timers'[x]) => x = timer'
<1>1. \A x \in Timer : ~AtWork(timers[x])
  BY OneTimerMeans, ConstantsAssumption
<1> QED BY <1>1, ArmedOne DEF Begins

LEMMA AskedOne ==
    ASSUME OneTimer, ~overlapped, NEW t, Asked(t), timer' = timer
    PROVE  \A x \in Timer : AtWork(timers'[x]) => x = timer'
<1>1. \A x \in Timer : AtWork(timers'[x]) => AtWork(timers[x])
  BY DEF Asked, AtWork
<1> QED BY <1>1, OneTimerMeans

LEMMA OneTimerStep ==
    ASSUME Types, Listed, Draining, OneTimer, [Next]_vars
    PROVE  OneTimer'
<1> SUFFICES ASSUME ~overlapped' PROVE \A x \in Timer : AtWork(timers'[x]) => x = timer'
  BY OneTimerMeans
<1> DEFINE Goal == \A x \in Timer : AtWork(timers'[x]) => x = timer'
<1>a. ~overlapped => \A t \in Timer : AtWork(timers[t]) => t = timer
  BY OneTimerMeans
<1>b. timer \in Timer \cup {None} /\ timers \in [Timer -> TimerRecords] /\ Joined
  BY TypesMean DEF Draining
<1>1. ASSUME NEW t \in Timer, TimerNext(t) PROVE Goal
  <2>1. CASE Lapses(t)
    <3>1. ~overlapped /\ timer' = timer
      BY <2>1 DEF Lapses
    <3>2. \A x \in Timer : AtWork(timers'[x]) => AtWork(timers[x])
      BY <2>1 DEF Lapses, OthersSame, AtWork
    <3> QED BY <1>a, <3>1, <3>2
  <2>2. CASE WorkStep(t)
    <3>1. ~overlapped /\ AtWork(timers[t]) /\ t = timer
      BY <1>a, <2>2 DEF WorkStep, AtWork
    <3>2. CASE Goes(t) \/ Quits(t)
      BY <1>a, <3>1, <3>2 DEF Goes, Quits, OthersSame
    <3>3. CASE Rearms(t)
      <4>1. PICK tms \in [Timer -> TimerRecords] :
                OthersSame(tms, t) /\ tms[t].pc = "done" /\ Armed(running, jobs', tms, t)
        BY <3>3 DEF Rearms
      <4>2. \A x \in Timer : ~AtWork(tms[x])
        BY <1>a, <3>1, <4>1 DEF OthersSame, AtWork
      <4> QED BY <4>1, <4>2, ArmedOne
    <3> QED BY <2>2, <3>2, <3>3 DEF WorkStep, Works
  <2> QED BY <1>1, <2>1, <2>2, TimerSteps
<1>2. ASSUME NEW t \in Timer, DrainStart(t) PROVE Goal
  BY <1>2, DrainStartTyped, AskedOne
<1>3. ASSUME NEW t \in Timer, DrainEnds(t) PROVE Goal
  <2>1. ~overlapped /\ timers' = timers /\ timers[t].pc \in Finished
        /\ timer' = IF timer = t THEN None ELSE timer
    BY <1>3, DrainEndsTyped
  <2>2. ~AtWork(timers[t])
    BY <2>1 DEF AtWork, Finished
  <2> QED BY <1>a, <2>1, <2>2
<1>4. ASSUME NEW c \in Caller, RunJobEnds(c) PROVE Goal
  <2>1. callers[c].pc = "manual"
    BY <1>4 DEF RunJobEnds
  <2>2. callers[c].job \in Job
    BY <2>1 DEF Listed
  <2>3. Armed(running, jobs', timers, None) /\ ~overlapped /\ Executing = {c}
    BY <1>4, <2>2, RunJobEndsTyped
  <2>4. \A x \in Timer : timers[x].pc \notin {"job", "unwinding"}
    BY <2>3, ConstantsAssumption DEF Executing
  <2>5. \A x \in Timer : AtWork(timers[x]) => timers[x].pc = "armed" /\ x = timer /\ x # None
    BY <1>a, <2>3, <2>4, ConstantsAssumption DEF AtWork
  <2> QED BY <2>3, <2>5, ArmedOne
<1>5. ASSUME UNCHANGED <<timer, timers, overlapped>> PROVE Goal
  BY <1>a, <1>5
<1>6. ASSUME NEW c \in Caller, RunJobCancelled(c) \/ CallerAbsorbs(c) \/ CancelCaller(c) PROVE Goal
  BY <1>5, <1>6, RunJobCancelledTyped, CancelFlags DEF Flagged
<1>7. ASSUME NEW c \in Caller, CallerResumes(c) PROVE Goal
  <2>1. Resumes(c)
    BY <1>b, <1>7, ResumesResumes
  <2>2. overlapped' = overlapped
    BY <2>1 DEF Resumes
  <2>3. CASE callers[c].gen = generation /\ ~AlreadyRunning /\ Begins
    <3>1. timer = None
      BY <2>1, <2>3, ResumedDown DEF AlreadyRunning
    <3> QED BY <2>2, <2>3, <3>1, BegunOne
  <2>4. CASE UNCHANGED <<running, jobs, base, timer, timers>>
    BY <1>5, <2>2, <2>4
  <2> QED BY <2>1, <2>3, <2>4 DEF Resumes
<1>8. ASSUME NEW c \in Caller, Start(c) PROVE Goal
  <2>1. Starts(c)
    BY <1>8, StartStarts
  <2>2. overlapped' = overlapped
    BY <2>1 DEF Starts
  <2>3. CASE timer = None /\ Begins
    BY <2>2, <2>3, BegunOne
  <2>4. CASE UNCHANGED <<jobs, timer, timers, base, closed>>
    BY <1>5, <2>2, <2>4
  <2> QED BY <2>1, <2>3, <2>4 DEF Starts
<1>9. ASSUME Falls PROVE Goal
  BY <1>9, AskedOne DEF Falls
<1>10. ASSUME NEW c \in Caller, AClose(c) PROVE Goal
  BY <1>9, <1>10, ACloseCloses DEF Closes
<1>11. ASSUME NEW c \in Caller, NEW j \in Job, RunJob(c, j) PROVE Goal
  BY <1>a, <1>11, RunJobTyped
<1>12. ASSUME Changes PROVE Goal
  <2>1. PICK cur \in Timer \cup {None} : ChangeStep(cur)
    BY <1>12, ChangesChange
  <2>2. ~overlapped /\ Executing = {} /\ Armed(running, jobs', timers, cur)
        /\ (cur # None => timers[cur].pc = "job")
    BY <2>1 DEF ChangeStep
  <2>3. \A x \in Timer : timers[x].pc \notin {"job", "unwinding"}
    BY <2>2 DEF Executing
  <2>4. cur = None
    BY <2>2, <2>3
  <2>5. \A x \in Timer : AtWork(timers[x]) => timers[x].pc = "armed" /\ x = timer /\ x # cur
    BY <1>a, <2>2, <2>3, <2>4, ConstantsAssumption DEF AtWork
  <2> QED BY <2>2, <2>5, ArmedOne
<1>13. ASSUME Stop PROVE Goal
  BY <1>9, <1>13, StopFalls
<1>14. ASSUME Tick \/ UNCHANGED vars PROVE Goal
  BY <1>5, <1>14 DEF Tick, vars
<1> QED BY <1>1, <1>2, <1>3, <1>4, <1>6, <1>7, <1>8, <1>10, <1>11, <1>12, <1>13, <1>14
        DEF Next, DrainNext, CallerNext

LEMMA DownStep ==
    ASSUME Types, Listed, Draining, Down, [Next]_vars
    PROVE  Down'
<1> SUFFICES ASSUME closed' PROVE ~running' /\ timer' = None
  BY DEF Down
<1> DEFINE Goal == ~running' /\ timer' = None
<1>a. Joined
  BY DEF Draining
<1>b. ASSUME NEW js, NEW tms, NEW cur, Armed(running, js, tms, cur), UNCHANGED <<closed, running>> PROVE Goal
  BY <1>b DEF Down, Armed
<1>c. ASSUME UNCHANGED <<closed, running, timer>> PROVE Goal
  BY <1>c DEF Down
<1>1. ASSUME NEW t \in Timer, TimerNext(t) PROVE Goal
  <2>1. CASE Lapses(t)
    BY <1>c, <2>1 DEF Lapses
  <2>2. CASE WorkStep(t)
    <3>1. UNCHANGED <<closed, running>>
      BY <2>2 DEF WorkStep
    <3>2. CASE Rearms(t)
      BY <1>b, <3>1, <3>2 DEF Rearms
    <3>3. CASE Goes(t) \/ Quits(t)
      BY <1>c, <3>1, <3>3 DEF Goes, Quits
    <3> QED BY <2>2, <3>2, <3>3 DEF WorkStep, Works
  <2> QED BY <1>1, <2>1, <2>2, TimerSteps
<1>2. ASSUME NEW t \in Timer, DrainStart(t) PROVE Goal
  BY <1>c, <1>2, DrainStartTyped
<1>3. ASSUME NEW t \in Timer, DrainEnds(t) PROVE Goal
  BY <1>3, DrainEndsTyped DEF Down
<1>4. ASSUME NEW c \in Caller, RunJobEnds(c) PROVE Goal
  <2>1. callers[c].pc = "manual"
    BY <1>4 DEF RunJobEnds
  <2>2. callers[c].job \in Job
    BY <2>1 DEF Listed
  <2>3. Armed(running, jobs', timers, None) /\ UNCHANGED <<closed, running>>
    BY <1>4, <2>2, RunJobEndsTyped
  <2> QED BY <1>b, <2>3
<1>5. ASSUME NEW c \in Caller, RunJobCancelled(c) \/ CallerAbsorbs(c) \/ CancelCaller(c) PROVE Goal
  BY <1>c, <1>5, RunJobCancelledTyped, CancelFlags DEF Flagged
<1>6. ASSUME NEW c \in Caller, CallerResumes(c) PROVE Goal
  <2>1. Resumes(c)
    BY <1>a, <1>6, ResumesResumes
  <2>2. CASE Begins
    BY <2>2 DEF Begins
  <2>3. CASE /\ closed' = (closed \/ (callers[c].pc = "aclose" /\ generation = callers[c].gen /\ ~running))
             /\ UNCHANGED <<running, jobs, base, timer, timers>>
    <3>1. CASE closed
      BY <2>3, <3>1 DEF Down
    <3>2. CASE generation = callers[c].gen /\ ~running
      BY <2>1, <2>3, <3>2, ResumedDown
    <3> QED BY <2>3, <3>1, <3>2
  <2> QED BY <2>1, <2>2, <2>3 DEF Resumes
<1>7. ASSUME NEW c \in Caller, Start(c) PROVE Goal
  <2>1. Starts(c)
    BY <1>7, StartStarts
  <2>2. CASE Begins
    BY <2>2 DEF Begins
  <2>3. CASE running' = (running /\ closer # None) /\ UNCHANGED <<jobs, timer, timers, base, closed>>
    BY <2>3 DEF Down
  <2> QED BY <2>1, <2>2, <2>3 DEF Starts
<1>8. ASSUME NEW c \in Caller, AClose(c) PROVE Goal
  <2>1. Closes(c)
    BY <1>8, ACloseCloses
  <2>2. ~running' /\ timer' = timer
    BY <2>1 DEF Closes, Falls
  <2>3. timer = None
    BY <2>1 DEF Closes, Down
  <2> QED BY <2>2, <2>3
<1>9. ASSUME Stop PROVE Goal
  <2>1. ~running' /\ timer' = timer /\ closed
    BY <1>9, StopFalls DEF Falls
  <2> QED BY <2>1 DEF Down
<1>10. ASSUME NEW c \in Caller, NEW j \in Job, RunJob(c, j) PROVE Goal
  BY <1>c, <1>10, RunJobTyped
<1>11. ASSUME Changes PROVE Goal
  <2>1. PICK cur \in Timer \cup {None} : ChangeStep(cur)
    BY <1>11, ChangesChange
  <2> QED BY <1>b, <2>1 DEF ChangeStep
<1>12. ASSUME Tick \/ UNCHANGED vars PROVE Goal
  BY <1>c, <1>12 DEF Tick, vars
<1> QED BY <1>1, <1>2, <1>3, <1>4, <1>5, <1>6, <1>7, <1>8, <1>9, <1>10, <1>11, <1>12
        DEF Next, DrainNext, CallerNext

-----------------------------------------------------------------------------
(* Every next run is waited for *)

LEMMA ArmedCovers ==
    ASSUME NEW run, run, NEW tms, NEW cur, Armed(run, jobs', tms, cur), now' = now
    PROVE  Covered'
<1> SUFFICES ASSUME NEW j \in Wanted(jobs')
             PROVE  \E t \in Timer : /\ ~timers'[t].cancel
                                     /\ \/ timers'[t].pc = "armed" /\ timers'[t].wake <= Max({now', jobs'[j].next})
                                        \/ timers'[t].pc = "job"
  BY DEF Covered, Wanted
<1>1. PICK t \in Timer : Replaced(jobs', tms, cur, t)
  BY DEF Armed
<1> QED BY <1>1 DEF Replaced

LEMMA CoveredKept ==
    ASSUME Types, Types', Covered, UNCHANGED jobs, now' \in {now, now + 1}, running' => running,
           \A t \in Timer : timers[t].pc \in {"armed", "job"} /\ ~timers[t].cancel =>
               timers'[t].pc = timers[t].pc /\ ~timers'[t].cancel /\ timers'[t].wake = timers[t].wake
    PROVE  Covered'
<1> SUFFICES ASSUME running', NEW j \in Wanted(jobs)
             PROVE  \E t \in Timer : /\ ~timers'[t].cancel
                                     /\ \/ timers'[t].pc = "armed" /\ timers'[t].wake <= Max({now', jobs[j].next})
                                        \/ timers'[t].pc = "job"
  BY DEF Covered, Wanted
<1>1. PICK t \in Timer : /\ ~timers[t].cancel
                         /\ \/ timers[t].pc = "armed" /\ timers[t].wake <= Max({now, jobs[j].next})
                            \/ timers[t].pc = "job"
  BY DEF Covered
<1>2. now \in Nat /\ now' \in Nat /\ jobs[j].next \in Nat /\ timers[t].wake \in Nat
  <2>1. now \in Nat /\ now' \in Nat
    BY TypesMean, ConstantsAssumption
  <2>2. jobs[j] \in JobRecords /\ timers[t] \in TimerRecords
    BY TypesMean DEF Wanted
  <2> QED BY <2>1, <2>2 DEF JobRecords, TimerRecords
<1>3. Max({now, jobs[j].next}) = (IF now >= jobs[j].next THEN now ELSE jobs[j].next)
      /\ Max({now', jobs[j].next}) = (IF now' >= jobs[j].next THEN now' ELSE jobs[j].next)
  BY <1>2, MaxOfTwo
<1>4. timers[t].wake <= Max({now, jobs[j].next}) => timers[t].wake <= Max({now', jobs[j].next})
  BY <1>2, <1>3
<1> QED BY <1>1, <1>4

LEMMA CoveredStep ==
    ASSUME Types, Types', Listed, Draining, Covered, [Next]_vars
    PROVE  Covered'
<1>a. Joined
  BY DEF Draining
<1>b. ASSUME UNCHANGED <<now, jobs, running, timers>> PROVE Covered'
  BY <1>b, CoveredKept
<1>c. ASSUME ~running' PROVE Covered'
  BY <1>c DEF Covered
<1>d. ASSUME NEW t \in Timer, timers'[t].pc = "job", ~timers'[t].cancel PROVE Covered'
  BY <1>d DEF Covered
<1>e. ASSUME NEW tms, NEW cur, Armed(running, jobs', tms, cur), now' = now, running' = running PROVE Covered'
  BY <1>c, <1>e, ArmedCovers
<1>f. ASSUME Begins, now' = now PROVE Covered'
  BY <1>f, ArmedCovers DEF Begins
<1>1. ASSUME NEW t \in Timer, TimerNext(t) PROVE Covered'
  <2>1. CASE Lapses(t)
    <3>1. UNCHANGED <<now, jobs, running>>
      BY <2>1 DEF Lapses
    <3>2. \A x \in Timer : timers[x].pc \in {"armed", "job"} /\ ~timers[x].cancel =>
              timers'[x].pc = timers[x].pc /\ ~timers'[x].cancel /\ timers'[x].wake = timers[x].wake
      BY <2>1 DEF Lapses, OthersSame
    <3> QED BY <3>1, <3>2, CoveredKept
  <2>2. CASE WorkStep(t)
    <3>1. UNCHANGED <<now, running>>
      BY <2>2 DEF WorkStep
    <3>2. CASE Goes(t)
      BY <1>d, <3>2 DEF Goes
    <3>3. CASE Quits(t)
      BY <1>c, <3>1, <3>3 DEF Quits
    <3>4. CASE Rearms(t)
      BY <1>e, <3>1, <3>4 DEF Rearms
    <3> QED BY <2>2, <3>2, <3>3, <3>4 DEF WorkStep, Works
  <2> QED BY <1>1, <2>1, <2>2, TimerSteps
<1>2. ASSUME NEW t \in Timer, DrainStart(t) PROVE Covered'
  <2>1. closer = t /\ closer # None /\ running' = running
    BY <1>2, DrainStartTyped, ConstantsAssumption DEF Draining, Drained
  <2> QED BY <1>c, <2>1 DEF Draining, Drained
<1>3. ASSUME NEW t \in Timer, DrainEnds(t) PROVE Covered'
  BY <1>b, <1>3, DrainEndsTyped
<1>4. ASSUME NEW c \in Caller, RunJobEnds(c) PROVE Covered'
  <2>1. callers[c].pc = "manual"
    BY <1>4 DEF RunJobEnds
  <2>2. callers[c].job \in Job
    BY <2>1 DEF Listed
  <2>3. Armed(running, jobs', timers, None) /\ UNCHANGED <<now, running>>
    BY <1>4, <2>2, RunJobEndsTyped
  <2> QED BY <1>e, <2>3
<1>5. ASSUME NEW c \in Caller, RunJobCancelled(c) \/ CallerAbsorbs(c) \/ CancelCaller(c) PROVE Covered'
  BY <1>b, <1>5, RunJobCancelledTyped, CancelFlags DEF Flagged
<1>6. ASSUME NEW c \in Caller, CallerResumes(c) PROVE Covered'
  <2>1. Resumes(c)
    BY <1>a, <1>6, ResumesResumes
  <2>2. now' = now
    BY <2>1 DEF Resumes
  <2>3. CASE Begins
    BY <1>f, <2>2, <2>3
  <2>4. CASE UNCHANGED <<running, jobs, base, timer, timers>>
    BY <1>b, <2>2, <2>4
  <2> QED BY <2>1, <2>3, <2>4 DEF Resumes
<1>7. ASSUME NEW c \in Caller, Start(c) PROVE Covered'
  <2>1. Starts(c)
    BY <1>7, StartStarts
  <2>2. now' = now
    BY <2>1 DEF Starts
  <2>3. CASE Begins
    BY <1>f, <2>2, <2>3
  <2>4. CASE running' = (running /\ closer # None)
    <3>1. ~running'
      BY <2>4 DEF Draining, Drained
    <3> QED BY <1>c, <3>1
  <2> QED BY <2>1, <2>3, <2>4 DEF Starts
<1>8. ASSUME NEW c \in Caller, AClose(c) PROVE Covered'
  BY <1>c, <1>8, ACloseCloses DEF Closes, Falls
<1>9. ASSUME Stop PROVE Covered'
  BY <1>c, <1>9, StopFalls DEF Falls
<1>10. ASSUME NEW c \in Caller, NEW j \in Job, RunJob(c, j) PROVE Covered'
  BY <1>b, <1>10, RunJobTyped
<1>11. ASSUME Changes PROVE Covered'
  <2>1. PICK cur \in Timer \cup {None} : ChangeStep(cur)
    BY <1>11, ChangesChange
  <2> QED BY <1>e, <2>1 DEF ChangeStep
<1>12. ASSUME Tick PROVE Covered'
  <2>1. UNCHANGED <<jobs, running, timers>> /\ now' = now + 1
    BY <1>12 DEF Tick
  <2> QED BY <2>1, CoveredKept
<1>13. ASSUME UNCHANGED vars PROVE Covered'
  BY <1>b, <1>13 DEF vars
<1> QED BY <1>1, <1>2, <1>3, <1>4, <1>5, <1>6, <1>7, <1>8, <1>9, <1>10, <1>11, <1>12, <1>13
        DEF Next, DrainNext, CallerNext

-----------------------------------------------------------------------------
(* Repeating jobs keep to their slots *)

\* A job that gets another next run gets one in the future.
Later == \A j \in Wanted(jobs') : jobs'[j].next # jobs[j].next => jobs'[j].next > now

\* One interval after the base is a slot; whole intervals after a slot is one.
LEMMA FirstSlot ==
    ASSUME NEW b \in Nat
    PROVE  InSlot(b + Interval, b)
<1>1. Interval \in Nat \ {0} /\ b + Interval > b /\ b + Interval # 0 /\ (b + Interval) - b = Interval
  BY ConstantsAssumption
<1>2. 0 % Interval = 0
  BY <1>1
<1>3. (0 + Interval * 1) % Interval = 0
  BY <1>1, <1>2, MultipleAdded
<1>4. 0 + Interval * 1 = Interval
  BY <1>1
<1> QED BY <1>1, <1>3, <1>4 DEF InSlot

LEMMA LaterSlot ==
    ASSUME NEW b \in Nat, NEW a \in Nat, InSlot(a, b), NEW k \in Nat \ {0}
    PROVE  InSlot(a + Interval * k, b)
<1>1. Interval \in Nat \ {0} /\ a - b \in Nat /\ (a - b) % Interval = 0
  BY ConstantsAssumption DEF InSlot
<1>2. ((a - b) + Interval * k) % Interval = 0
  BY <1>1, MultipleAdded
<1>3. Interval * k \in Nat /\ Interval * k >= 1
  BY <1>1
<1> DEFINE m == Interval * k
<1> HIDE DEF m
<1>4. (a - b) + m = (a + m) - b /\ a + m > b /\ a + m # 0
  BY <1>3 DEF InSlot, m
<1> QED BY <1>2, <1>4 DEF InSlot, m

LEMMA MovedSlots ==
    ASSUME Types, Slots, JobsMove
    PROVE  Slots' /\ Later
<1>1. now \in Nat
  BY TypesMean, ConstantsAssumption
<1>2. ASSUME NEW j \in Job \ OneTime, jobs'[j].here, jobs'[j].enabled
      PROVE  InSlot(jobs'[j].next, base'[j])
  <2>1. CASE Recomputed(j)
    BY <1>1, <2>1, NextRunTyped, FirstSlot DEF Recomputed
  <2>2. CASE Unmoved(j)
    BY <1>2, <2>2 DEF Unmoved, Slots
  <2> QED BY <1>2, <2>1, <2>2 DEF JobsMove
<1>3. ASSUME NEW j \in Wanted(jobs'), jobs'[j].next # jobs[j].next
      PROVE  jobs'[j].next > now
  BY <1>1, <1>3, ConstantsAssumption DEF JobsMove, Recomputed, Unmoved, NextRun, Wanted
<1> QED BY <1>2, <1>3 DEF Slots, InSlot, Later

LEMMA EndedSlots ==
    ASSUME Types, Slots, NEW j \in Job, NEW start \in Nat, Ended(j, start), base' = base
    PROVE  Slots'
<1> SUFFICES ASSUME NEW x \in Job \ OneTime, jobs'[x].here, jobs'[x].enabled
             PROVE  InSlot(jobs'[x].next, base[x])
  BY DEF Slots, InSlot
<1>1. now \in Nat /\ jobs \in [Job -> JobRecords] /\ base \in [Job -> Nat] /\ jobs[x] \in JobRecords
  BY TypesMean, ConstantsAssumption
<1>2. CASE jobs'[x] = jobs[x]
  BY <1>2 DEF Slots
<1>3. CASE jobs[j].here /\ x = j
  <2>1. jobs' = AfterRun(jobs, j, start)
    BY <1>3 DEF Ended
  <2>2. /\ jobs'[j].next = NextSlot(IF jobs[j].next = 0 THEN start ELSE jobs[j].next, now)
        /\ jobs'[j].here = jobs[j].here /\ jobs'[j].enabled = jobs[j].enabled
    <3>1. j \notin OneTime /\ now \in Nat /\ jobs \in [Job -> JobRecords]
      BY <1>1, <1>3
    <3>2. /\ AfterRun(jobs, j, start)[j].next = NextSlot(IF jobs[j].next = 0 THEN start ELSE jobs[j].next, now)
          /\ AfterRun(jobs, j, start)[j].here = jobs[j].here
          /\ AfterRun(jobs, j, start)[j].enabled = jobs[j].enabled
      BY <3>1, AfterRunTyped, ZenonT(60)
    <3> QED BY <2>1, <3>2
  <2>3. InSlot(jobs[j].next, base[j])
    BY <1>3, <2>2 DEF Slots
  <2>4. jobs'[j].next = NextSlot(jobs[j].next, now)
    BY <2>2, <2>3 DEF InSlot
  <2>5. jobs[j].next \in Nat /\ base[j] \in Nat
    BY <1>1, <1>3 DEF JobRecords
  <2>6. PICK k \in Nat \ {0} : NextSlot(jobs[j].next, now) = jobs[j].next + Interval * k
    BY <1>1, <2>5, NextSlotTyped
  <2>7. InSlot(jobs[j].next + Interval * k, base[j])
    BY <2>3, <2>5, LaterSlot
  <2> QED BY <1>3, <2>4, <2>6, <2>7
<1>4. CASE ~(jobs[j].here /\ x = j)
  <2>1. jobs'[x] = jobs[x]
    BY <1>1, <1>4, AfterRunTyped DEF Ended
  <2> QED BY <1>2, <2>1
<1> QED BY <1>3, <1>4

LEMMA EndedLater ==
    ASSUME Types, NEW j \in Job, NEW start \in Nat, Ended(j, start)
    PROVE  Later
<1> SUFFICES ASSUME NEW x \in Wanted(jobs'), jobs'[x].next # jobs[x].next PROVE jobs'[x].next > now
  BY DEF Later
<1>1. now \in Nat /\ jobs \in [Job -> JobRecords] /\ x \in Job
  BY TypesMean, ConstantsAssumption DEF Wanted
<1>2. jobs[j].here /\ jobs' = AfterRun(jobs, j, start)
  BY <1>1 DEF Ended
<1>3. x = j
  BY <1>1, <1>2, AfterRunTyped
<1>4. j \notin OneTime
  <2>1. CASE j \in Delete
    BY <1>1, <1>2, <1>3, <2>1 DEF AfterRun, Wanted, JobRecords
  <2>2. CASE j \in OneTime \ Delete
    BY <1>1, <1>2, <1>3, <2>2 DEF AfterRun, Wanted, JobRecords
  <2> QED BY <2>1, <2>2
<1> DEFINE anchor == IF jobs[j].next = 0 THEN start ELSE jobs[j].next
<1>5. anchor \in Nat
  BY <1>1 DEF JobRecords
<1>6. jobs'[j].next = NextSlot(anchor, now)
  BY <1>1, <1>2, <1>4, ConstantsAssumption DEF AfterRun, JobRecords
<1> HIDE DEF anchor
<1> QED BY <1>1, <1>3, <1>5, <1>6, SlotAhead

LEMMA SlotsStep ==
    ASSUME Types, Listed, Joined, Slots, [Next]_vars
    PROVE  Slots' /\ Later
<1>a. ASSUME UNCHANGED <<jobs, base>> PROVE Slots' /\ Later
  BY <1>a DEF Slots, InSlot, Later
<1>1. ASSUME NEW t \in Timer, TimerNext(t) PROVE Slots' /\ Later
  <2>1. base' = base /\ (jobs' = jobs \/ \E j \in Job, start \in Nat : Ended(j, start))
    BY <1>1, TimerSteps DEF WorkStep, Lapses
  <2> QED BY <1>a, <2>1, EndedSlots, EndedLater
<1>2. ASSUME NEW t \in Timer, DrainNext(t) PROVE Slots' /\ Later
  BY <1>a, <1>2, DrainStartTyped, DrainEndsTyped DEF DrainNext
<1>3. ASSUME NEW c \in Caller, RunJobEnds(c) PROVE Slots' /\ Later
  <2>1. callers[c].pc = "manual"
    BY <1>3 DEF RunJobEnds
  <2>2. callers[c].job \in Job
    BY <2>1 DEF Listed
  <2>3. base' = base /\ \E j \in Job, start \in Nat : Ended(j, start)
    BY <1>3, <2>2, RunJobEndsTyped
  <2> QED BY <2>3, EndedSlots, EndedLater
<1>4. ASSUME NEW c \in Caller, RunJobCancelled(c) \/ CallerAbsorbs(c) \/ CancelCaller(c) PROVE Slots' /\ Later
  BY <1>a, <1>4, RunJobCancelledTyped, CancelFlags DEF Flagged
<1>5. ASSUME NEW c \in Caller, CallerResumes(c) PROVE Slots' /\ Later
  <2>1. Begins \/ UNCHANGED <<running, jobs, base, timer, timers>>
    BY <1>5, ResumesResumes DEF Resumes
  <2> QED BY <1>a, <2>1, MovedSlots DEF Begins
<1>6. ASSUME NEW c \in Caller, Start(c) PROVE Slots' /\ Later
  <2>1. Begins \/ UNCHANGED <<jobs, timer, timers, base, closed>>
    BY <1>6, StartStarts DEF Starts
  <2> QED BY <1>a, <2>1, MovedSlots DEF Begins
<1>7. ASSUME NEW c \in Caller, AClose(c) PROVE Slots' /\ Later
  BY <1>a, <1>7, ACloseCloses DEF Closes, Falls
<1>8. ASSUME Stop PROVE Slots' /\ Later
  BY <1>a, <1>8, StopFalls DEF Falls
<1>9. ASSUME NEW c \in Caller, NEW j \in Job, RunJob(c, j) PROVE Slots' /\ Later
  BY <1>a, <1>9, RunJobTyped
<1>10. ASSUME Changes PROVE Slots' /\ Later
  BY <1>10, ChangesChange, MovedSlots DEF ChangeStep
<1>11. ASSUME Tick \/ UNCHANGED vars PROVE Slots' /\ Later
  BY <1>a, <1>11 DEF Tick, vars
<1> QED BY <1>1, <1>2, <1>3, <1>4, <1>5, <1>6, <1>7, <1>8, <1>9, <1>10, <1>11 DEF Next, CallerNext

-----------------------------------------------------------------------------
(* Theorems *)

LEMMA InvMeans ==
    /\ Inv <=> Types /\ Listed /\ Draining /\ OneTimer /\ Down /\ Covered /\ Slots
    /\ Inv' <=> Types' /\ Listed' /\ Draining' /\ OneTimer' /\ Down' /\ Covered' /\ Slots'
BY DEF Inv, Draining

LEMMA InvInit ==
    ASSUME Init
    PROVE  Inv
<1>1. now \in 1..MaxTime
  BY ConstantsAssumption DEF Init
<1>2. jobs \in [Job -> JobRecords]
  BY DEF Init, Fresh, JobRecords
<1>3. timers \in [Timer -> TimerRecords]
  BY EmptySeq DEF Init, NoTimer, TimerRecords
<1>4. drains \in [Timer -> DrainRecords]
  BY DEF Init, NoDrain, DrainRecords
<1>5. callers \in [Caller -> CallRecords]
  BY DEF Init, NoCall, CallRecords
<1>6. calls \in 0..MaxCalls /\ cancels \in 0..MaxCancels
  BY ConstantsAssumption DEF Init
<1>7. Types
  BY <1>1, <1>2, <1>3, <1>4, <1>5, <1>6, TypesMean DEF Init
<1>8. Listed
  BY DEF Init, Listed, NoTimer, NoCall
<1>9. Draining
  BY DEF Init, Draining, Drained, Joined, Overtaken, Awaiting, NoDrain, NoCall
<1>10. OneTimer /\ Down
  BY DEF Init, OneTimer, Down, NoTimer
<1>11. Covered /\ Slots
  BY DEF Init, Covered, Slots, Fresh
<1> QED BY <1>7, <1>8, <1>9, <1>10, <1>11, InvMeans

LEMMA InvStep ==
    ASSUME Inv, [Next]_vars
    PROVE  Inv'
<1>1. Types /\ Listed /\ Draining /\ OneTimer /\ Down /\ Covered /\ Slots /\ Joined
  BY InvMeans DEF Draining
<1>2. Types' /\ Listed'
  BY <1>1, TypesStep
<1>3. Draining' /\ OneTimer' /\ Down' /\ Slots'
  BY <1>1, DrainingStep, OneTimerStep, DownStep, SlotsStep
<1>4. Covered'
  BY <1>1, <1>2, CoveredStep
<1> QED BY <1>2, <1>3, <1>4, InvMeans

\* The inductive invariant of the cron service: where the timers, the drain
\* and the callers of start and aclose stand to each other (service.py, _arm_timer,
\* _ensure_close_task, _drain_timer_for_close, start, aclose).
THEOREM InductiveInvariant == Spec => []Inv
<1>1. Init => Inv
  BY InvInit
<1>2. Inv /\ [Next]_vars => Inv'
  BY InvStep
<1> QED BY <1>1, <1>2, PTL DEF Spec

\* Every variable keeps its type, and a drain somebody waits for or may join
\* is there.
THEOREM TypesKept == Spec => []TypeOK
<1>1. Inv => TypeOK
  <2> SUFFICES ASSUME Inv PROVE TypeOK
    OBVIOUS
  <2>1. Types /\ Drained /\ Joined
    BY DEF Inv
  <2> QED BY <2>1 DEF TypeOK, Drained, Joined
<1> QED BY <1>1, InductiveInvariant, PTL

\* When aclose has returned and nobody has started the service since, no
\* timer is at work or will be, unless a job was changed under a job that executed
\* (service.py, aclose: the active timer is cancelled and awaited).
THEOREM ClosedIsQuiet == Spec => []ClosedQuiet
<1>1. Inv => ClosedQuiet
  <2> SUFFICES ASSUME Inv, closed, ~overlapped, NEW t \in Timer, AtWork(timers[t]) PROVE FALSE
    BY DEF ClosedQuiet, AtWork
  <2>1. OneTimer /\ Down
    BY DEF Inv
  <2>2. t = timer /\ timer = None
    BY <2>1, OneTimerMeans DEF Down
  <2> QED BY <2>2, ConstantsAssumption
<1> QED BY <1>1, InductiveInvariant, PTL

\* A running service never sleeps past the next run of a job, whatever calls
\* change the jobs, start, stop or close it, and in whatever order (service.py,
\* _arm_timer, _on_timer).
THEOREM EveryRunIsCovered == Spec => []Covered
<1>1. Inv => Covered
  BY DEF Inv
<1> QED BY <1>1, InductiveInvariant, PTL

\* Whenever a job gets another next run it lies in the future, and that of a
\* repeating job is a whole number of intervals after the time it counts from,
\* however late its runs end and whoever runs it (service.py, _execute_job).
THEOREM SlotsAreKept == Spec => NoDrift
<1>1. Inv /\ [Next]_vars => \A j \in Wanted(jobs') : jobs'[j].next # jobs[j].next =>
           /\ jobs'[j].next > now
           /\ j \notin OneTime => /\ jobs'[j].next > base'[j]
                                 /\ (jobs'[j].next - base'[j]) % Interval = 0
  <2> SUFFICES ASSUME Inv, [Next]_vars PROVE Slots' /\ Later
    BY DEF Slots, InSlot, Later, Wanted
  <2> QED BY SlotsStep, InvMeans DEF Draining
<1> QED BY <1>1, InductiveInvariant, PTL DEF Spec, NoDrift

=============================================================================
