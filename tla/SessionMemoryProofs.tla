------------------------- MODULE SessionMemoryProofs -------------------------
(***************************************************************************)
(* Proofs about SessionMemory: the store is the conversation it promises,  *)
(* no message is summarised twice, what /new took out is archived, no      *)
(* message reaches another session, and a closed agent is quiet.  For      *)
(* every set of keys, workers and tasks, every window and every bound.     *)
(*                                                                         *)
(* Inv says of the messages what holds until the first /new, and of its     *)
(* archives and of MEMORY.md what holds always.  That the store goes on     *)
(* being the conversation however many /new there are is proved of the      *)
(* behaviours in which /new finds the session at rest (ClearsAtRest).       *)
(***************************************************************************)
EXTENDS SessionMemory, SequenceTheorems, TLAPS

-----------------------------------------------------------------------------
(* The inductive invariant *)

Runners == [pc : {"idle", "created", "waiting", "chat", "dead"}, kind : Kinds \cup {None}, key : Key \cup {None},
            obj : Nat, batch : Seq(Message), mem : SUBSET Message]
Turns == [busy : BOOLEAN, key : Key \cup {None}, obj : Nat, n : Nat, edited : BOOLEAN, cancel : BOOLEAN]
Sessions == [key : Key, msgs : Seq(Message), lc : Int]
Files == [msgs : Seq(Message), lc : Int]

StoreTypes == objs \in Seq(Sessions) /\ cache \in [Key -> Nat] /\ file \in [Key -> Files]

TaskTypes ==
    /\ runner \in [Runner -> Runners]
    /\ table \in [Key \X Kinds -> Runner \cup {None}] /\ requested \in SUBSET Runner
    /\ lock = [k \in Key |-> [holder |-> lock[k].holder, queue |-> lock[k].queue]]
    /\ \A k \in Key : lock[k].holder \in Runner \cup {None}

OtherTypes ==
    /\ memory \in SUBSET Message /\ writer \in [Message -> Key \cup {None}]
    /\ turn \in [Worker -> Turns] /\ closing \in BOOLEAN
    /\ turns \in 0..MaxTurns /\ news \in 0..MaxNews /\ restarts \in 0..MaxRestarts
    /\ summaries \in [Message -> Nat]
    /\ partial \in SUBSET Message /\ cleared \in SUBSET Message /\ failed \in SUBSET Message
    /\ unnoted \in SUBSET Message /\ dropped \in SUBSET Message

Types == StoreTypes /\ TaskTypes /\ OtherTypes

\* Who has a session at hand has one that exists, and its own.
References ==
    /\ \A k \in Key : cache[k] # 0 => cache[k] \in 1..Len(objs) /\ objs[cache[k]].key = k
    /\ \A w \in Worker : turn[w].busy =>
          /\ turn[w].key \in Key /\ turn[w].n \in 1..turns
          /\ turn[w].obj \in 1..Len(objs) /\ objs[turn[w].obj].key = turn[w].key
    /\ \A r \in Runner : Live(r) =>
          /\ runner[r].key \in Key /\ runner[r].kind \in Kinds
          /\ runner[r].kind = "window" =>
                runner[r].obj \in 1..Len(objs) /\ objs[runner[r].obj].key = runner[r].key

\* A task at work is in the table under its own key, and there only.
Tabled ==
    \A r \in Runner : Live(r) =>
        \A e \in Key \X Kinds : table[e] = r <=> e = <<runner[r].key, runner[r].kind>>

\* Who awaits the model for a session has its lock.
Locked == \A r \in Runner : runner[r].pc = "chat" => lock[runner[r].key].holder = r

\* The drain knows everyone who is still at work.
Draining ==
    drain # None =>
        /\ closing
        /\ \A r \in Runner : Live(r) => r \in drain.runners
        /\ \A w \in Worker : turn[w].busy => w \in drain.workers

\* A consolidation that awaits the model has read every fact of its own session.
Remembered ==
    \A r \in Runner : runner[r].pc = "chat" =>
        \A m \in memory : writer[m] = runner[r].key => m \in runner[r].mem

\* What nobody will summarise any more, for a reason that is known.
Excused == failed \cup unnoted \cup dropped

\* Archives exist from the first /new on, and what a /new took out is
\* summarised, excused or still with its task.
Archived ==
    /\ news = 0 => cleared = {} /\ \A r \in Runner : Live(r) => runner[r].kind = "window"
    /\ \A m \in cleared :
          \/ summaries[m] > 0 \/ m \in Excused
          \/ \E r \in Runner : Live(r) /\ runner[r].kind = "archive" /\ m \in Elements(runner[r].batch)

\* Before the first /new every object is the cached one of its key, and the
\* file of a key holds what the cached object holds.
Held ==
    news = 0 =>
        /\ \A o \in 1..Len(objs) : cache[objs[o].key] = o
        /\ \A k \in Key : cache[k] # 0 => file[k] = [msgs |-> objs[cache[k]].msgs, lc |-> objs[cache[k]].lc]
        /\ \A k \in Key : file[k].lc \in 0..Len(file[k].msgs)

\* No message is in two places.
Distinct ==
    news = 0 => \A k, l \in Key : \A i \in 1..Len(file[k].msgs), j \in 1..Len(file[l].msgs) :
                    file[k].msgs[i] = file[l].msgs[j] => k = l /\ i = j

\* Every turn has a number of its own.
Numbered ==
    news = 0 =>
        /\ \A k \in Key : \A i \in 1..Len(file[k].msgs) :
              file[k].msgs[i][1] <= turns /\ \A w \in Worker : turn[w].busy => turn[w].n # file[k].msgs[i][1]
        /\ \A v, w \in Worker : turn[v].busy /\ turn[w].busy /\ turn[v].n = turn[w].n => v = w

Conversations == Held /\ Distinct /\ Numbered

\* Behind the position nothing is summarised, but for consolidations that
\* failed half way; a batch is what follows the position.
Counted ==
    news = 0 =>
        /\ SummarisedOnce
        /\ \A m \in Message : summaries[m] > 0 =>
              m[1] <= turns /\ \A w \in Worker : turn[w].busy => turn[w].n # m[1]
        /\ \A k \in Key : \A i \in 1..Len(file[k].msgs) :
              i > file[k].lc => summaries[file[k].msgs[i]] = 0 \/ file[k].msgs[i] \in partial
        /\ \A r \in Runner : runner[r].pc = "chat" =>
              LET f == file[runner[r].key]
                  batch == runner[r].batch
              IN  /\ f.lc + Len(batch) + Keep <= Len(f.msgs)
                  /\ \A i \in 1..Len(batch) : batch[i] = f.msgs[f.lc + i]

Inv == /\ Types /\ References /\ Tabled /\ Locked /\ Draining
       /\ Remembered /\ Archived /\ Conversations /\ Counted

-----------------------------------------------------------------------------
(* Types *)

USE DEF stores, tasks, ghosts

LEMMA Bounds ==
    /\ MaxTurns \in Nat /\ MaxNews \in Nat /\ MaxRestarts \in Nat /\ None \notin Runner /\ None \notin Key
    /\ Keep \in Nat /\ Kinds = {"window", "archive"}
BY ConstantsAssumption DEF Keep, Kinds

LEMMA IntegerDifference == \A i, j \in Nat : i - j \in Int
OBVIOUS

LEMMA NothingTyped ==
    /\ Idle \in Runners /\ Idle.pc = "idle"
    /\ NoTurn \in Turns /\ ~NoTurn.busy
    /\ Empty \in Files /\ Empty.msgs = <<>> /\ Empty.lc = 0
BY EmptySeq DEF Idle, Runners, NoTurn, Turns, Empty, Files

LEMMA PairTyped ==
    ASSUME NEW n \in 1..MaxTurns
    PROVE  /\ Pair(n) \in Seq(Message) /\ Len(Pair(n)) = 2
           /\ Pair(n)[1] = <<n, "user">> /\ Pair(n)[2] = <<n, "assistant">>
           /\ <<n, "user">> \in Message
BY DEF Pair, Message

LEMMA MessageNumber ==
    ASSUME NEW m \in Message
    PROVE  m[1] \in 1..MaxTurns
BY DEF Message

\* A sequence of which one entry is replaced.
LEMMA Replaced ==
    ASSUME NEW S, NEW s \in Seq(S), NEW i \in 1..Len(s), NEW e \in S
    PROVE  /\ [s EXCEPT ![i] = e] \in Seq(S) /\ Len([s EXCEPT ![i] = e]) = Len(s)
           /\ [s EXCEPT ![i] = e][i] = e
           /\ \A j \in 1..Len(s) : j # i => [s EXCEPT ![i] = e][j] = s[j]
<1> DEFINE t == [s EXCEPT ![i] = e]
<1>1. /\ t \in Seq(S) /\ Len(t) = Len(s)
      /\ \A j \in 1..Len(s) : t[j] = IF j = i THEN e ELSE s[j]
  BY ExceptSeq
<1> HIDE DEF t
<1>2. t[i] = e /\ \A j \in 1..Len(s) : j # i => t[j] = s[j]
  BY <1>1
<1> QED BY <1>1, <1>2 DEF t

LEMMA SessionTyped ==
    ASSUME StoreTypes, NEW o \in 1..Len(objs)
    PROVE  /\ objs[o] \in Sessions
           /\ objs[o].key \in Key /\ objs[o].msgs \in Seq(Message) /\ objs[o].lc \in Int
<1>1. objs \in Seq(Sessions)
  BY DEF StoreTypes
<1>2. objs[o] \in Sessions
  BY <1>1, ElementOfSeq
<1> QED BY <1>2 DEF Sessions

LEMMA FileTyped ==
    ASSUME StoreTypes, NEW k \in Key
    PROVE  file[k].msgs \in Seq(Message) /\ file[k].lc \in Int /\ Len(file[k].msgs) \in Nat
           /\ file[k] = [msgs |-> file[k].msgs, lc |-> file[k].lc]
<1>1. file[k] \in Files
  BY DEF StoreTypes
<1>2. file[k].msgs \in Seq(Message) /\ file[k].lc \in Int /\ file[k] = [msgs |-> file[k].msgs, lc |-> file[k].lc]
  BY <1>1 DEF Files
<1> QED BY <1>2, LenProperties

\* A slice with a position that is there and the end before those that are kept.
LEMMA SliceIs ==
    ASSUME NEW s \in Seq(Message), NEW a \in 0..Len(s), Keep > 0, Keep < Len(s),
           NEW b, b = Slice(s, a, -Keep), b # <<>>
    PROVE  a + Len(b) + Keep <= Len(s) /\ \A i \in 1..Len(b) : b[i] = s[a + i]
<1>1. Len(s) \in Nat /\ Keep \in Nat
  BY LenProperties, Bounds
<1>2. Bound(s, a) = a /\ Bound(s, -Keep) = Len(s) - Keep
  BY <1>1 DEF Bound
<1>3. Slice(s, a, -Keep) = SubSeq(s, a + 1, Len(s) - Keep)
  BY <1>2 DEF Slice
<1>4. CASE a + 1 <= Len(s) - Keep
  <2>1. /\ SubSeq(s, a + 1, Len(s) - Keep) \in Seq(Message)
        /\ Len(SubSeq(s, a + 1, Len(s) - Keep)) = Len(s) - Keep - a
        /\ \A i \in 1..(Len(s) - Keep - a) : SubSeq(s, a + 1, Len(s) - Keep)[i] = s[a + i]
    <3>1. \A i \in a + 1..Len(s) - Keep : s[i] \in Message
      <4> SUFFICES ASSUME NEW i \in a + 1..Len(s) - Keep PROVE s[i] \in Message
        OBVIOUS
      <4>1. i \in 1..Len(s)
        BY <1>1
      <4> QED BY <4>1, ElementOfSeq
    <3> DEFINE c == SubSeq(s, a + 1, Len(s) - Keep)
    <3>2. /\ c \in Seq(Message)
          /\ Len(c) = IF a + 1 <= Len(s) - Keep THEN Len(s) - Keep - (a + 1) + 1 ELSE 0
          /\ \A i \in 1..Len(s) - Keep - (a + 1) + 1 : c[i] = s[a + 1 + i - 1]
      BY <1>1, <3>1, SubSeqProperties
    <3> HIDE DEF c
    <3>3. Len(c) = Len(s) - Keep - a
      BY <1>1, <1>4, <3>2
    <3>4. \A i \in 1..(Len(s) - Keep - a) : c[i] = s[a + i]
      <4> SUFFICES ASSUME NEW i \in 1..(Len(s) - Keep - a) PROVE c[i] = s[a + i]
        OBVIOUS
      <4>1. i \in 1..Len(s) - Keep - (a + 1) + 1 /\ a + 1 + i - 1 = a + i
        BY <1>1
      <4> QED BY <3>2, <4>1
    <3> QED BY <3>2, <3>3, <3>4 DEF c
  <2> DEFINE c == SubSeq(s, a + 1, Len(s) - Keep)
  <2>2. c \in Seq(Message) /\ Len(c) = Len(s) - Keep - a /\ \A i \in 1..(Len(s) - Keep - a) : c[i] = s[a + i]
    BY <2>1
  <2> HIDE DEF c
  <2>3. a + Len(c) + Keep <= Len(s) /\ \A i \in 1..Len(c) : c[i] = s[a + i]
    BY <1>1, <2>2
  <2> QED BY <1>3, <2>2, <2>3 DEF c
<1>5. CASE ~(a + 1 <= Len(s) - Keep)
  <2>1. SubSeq(s, a + 1, Len(s) - Keep) = <<>>
    BY <1>1, <1>5, SubSeqEmpty
  <2> QED BY <1>3, <2>1, EmptySeq
<1> QED BY <1>4, <1>5

\* Any slice is a sequence of messages.
LEMMA SliceTyped ==
    ASSUME NEW s \in Seq(Message), NEW a \in Int, NEW b \in Int
    PROVE  Slice(s, a, b) \in Seq(Message)
<1>1. Len(s) \in Nat
  BY LenProperties
<1>2. Bound(s, a) \in 0..Len(s) /\ Bound(s, b) \in 0..Len(s)
  BY <1>1 DEF Bound
<1>3. CASE Bound(s, a) + 1 <= Bound(s, b)
  <2>1. \A i \in Bound(s, a) + 1..Bound(s, b) : s[i] \in Message
    <3> SUFFICES ASSUME NEW i \in Bound(s, a) + 1..Bound(s, b) PROVE s[i] \in Message
      OBVIOUS
    <3>1. i \in 1..Len(s)
      BY <1>1, <1>2
    <3> QED BY <3>1, ElementOfSeq
  <2> QED BY <1>2, <2>1, SubSeqProperties DEF Slice
<1>4. CASE ~(Bound(s, a) + 1 <= Bound(s, b))
  <2>1. SubSeq(s, Bound(s, a) + 1, Bound(s, b)) = <<>>
    BY <1>1, <1>2, <1>4, SubSeqEmpty
  <2> QED BY <2>1, EmptySeq DEF Slice
<1> QED BY <1>3, <1>4

-----------------------------------------------------------------------------
(* What a step does to the consolidation tasks *)

\* No task is at work that was not, and none changes what it is about.
Fewer ==
    \A s \in Runner : Live(s)' =>
        /\ Live(s) /\ runner'[s].key = runner[s].key /\ runner'[s].kind = runner[s].kind
        /\ runner'[s].obj = runner[s].obj
        /\ runner[s].kind = "archive" => runner'[s].batch = runner[s].batch

\* No task begins to await the model.
Quiet == \A s \in Runner : runner'[s].pc = "chat" => runner'[s] = runner[s]

\* No turn begins.
TurnsKept ==
    \A w \in Worker : turn'[w].busy =>
        turn[w].busy /\ turn'[w].key = turn[w].key /\ turn'[w].obj = turn[w].obj /\ turn'[w].n = turn[w].n

\* A task comes to its end: by itself, or cancelled before its first step.
Leaves(r) ==
    /\ \/ runner' = [runner EXCEPT ![r] = Idle]
       \/ runner' = [runner EXCEPT ![r] = [Idle EXCEPT !.pc = "dead"]]
    /\ \/ table' = table
       \/ table' = [e \in Key \X Kinds |-> IF table[e] = r THEN None ELSE table[e]]
    /\ requested' \in SUBSET requested
    /\ lock' = [k \in Key |-> [holder |-> lock'[k].holder, queue |-> lock'[k].queue]]
    /\ \A k \in Key : \/ lock'[k].holder = lock[k].holder
                      \/ lock[k].holder \in {r, None} /\ lock'[k].holder = None

\* A new task takes its place in the table.
Placed(r, f) ==
    /\ ~closing /\ Free(r) /\ ~Live(table[<<f.key, f.kind>>])
    /\ runner' = [runner EXCEPT ![r] = f]
    /\ table' = [table EXCEPT ![<<f.key, f.kind>>] = r]
    /\ requested' = requested \ {r} /\ lock' = lock

\* A task goes on, to wait for the lock or, with the lock, for the model.
Goes(r, f) ==
    /\ runner[r].pc \in {"created", "waiting"} /\ f.pc \in {"waiting", "chat"}
    /\ f.key = runner[r].key /\ f.kind = runner[r].kind /\ f.obj = runner[r].obj
    /\ runner' = [runner EXCEPT ![r] = f]
    /\ UNCHANGED <<table, requested>>
    /\ lock' = [k \in Key |-> [holder |-> lock'[k].holder, queue |-> lock'[k].queue]]
    /\ \A k \in Key : k # f.key \/ f.pc = "waiting" => lock'[k].holder = lock[k].holder
    /\ f.pc = "chat" => lock[f.key].holder = None /\ lock'[f.key].holder = r

LEMMA AtWork ==
    ASSUME NEW r \in Runner
    PROVE  Live(r) <=> runner[r].pc \notin {"idle", "dead"}
BY Bounds DEF Live

LEMMA RunnerTyped ==
    ASSUME TaskTypes, NEW r \in Runner
    PROVE  /\ runner[r] \in Runners /\ runner[r].batch \in Seq(Message) /\ runner[r].mem \in SUBSET Message
           /\ runner[r].obj \in Nat /\ runner[r].key \in Key \cup {None} /\ runner[r].kind \in Kinds \cup {None}
           /\ runner[r].pc \in {"idle", "created", "waiting", "chat", "dead"}
BY DEF TaskTypes, Runners

LEMMA BatchTyped ==
    ASSUME TaskTypes, NEW r \in Runner
    PROVE  Elements(runner[r].batch) \in SUBSET Message /\ GivenUp(r) \in SUBSET Message
<1>1. Elements(runner[r].batch) \in SUBSET Message
  BY RunnerTyped, ElementOfSeq DEF Elements
<1> QED BY <1>1 DEF GivenUp

LEMMA DeadTyped == [Idle EXCEPT !.pc = "dead"] \in Runners /\ [Idle EXCEPT !.pc = "dead"].pc = "dead"
BY NothingTyped DEF Runners

LEMMA Left ==
    ASSUME TaskTypes, Tabled, Locked, References, NEW r \in Runner, Live(r), Leaves(r)
    PROVE  TaskTypes' /\ Tabled' /\ Locked' /\ Fewer /\ Quiet /\ ~Live(r)'
           /\ \A s \in Runner : s # r => runner'[s] = runner[s]
<1>1. runner' \in [Runner -> Runners] /\ runner'[r].pc \in {"idle", "dead"} /\ \A s \in Runner : s # r => runner'[s] = runner[s]
  BY NothingTyped, DeadTyped DEF Leaves, TaskTypes
<1>2. Fewer /\ Quiet /\ ~Live(r)'
  BY <1>1, Bounds DEF Fewer, Quiet, Live
<1>3. /\ table' \in [Key \X Kinds -> Runner \cup {None}]
      /\ \A s \in Runner, e \in Key \X Kinds : s # r => (table'[e] = s <=> table[e] = s)
  BY Bounds DEF Leaves, TaskTypes
<1>4. TaskTypes'
  BY <1>1, <1>3 DEF Leaves, TaskTypes
<1>5. Tabled'
  BY <1>1, <1>2, <1>3 DEF Tabled, Fewer
<1>6. Locked'
  <2> SUFFICES ASSUME NEW s \in Runner, runner'[s].pc = "chat" PROVE lock'[runner'[s].key].holder = s
    BY DEF Locked
  <2>1. s # r /\ runner'[s] = runner[s] /\ Live(s)
    BY <1>1, AtWork
  <2>2. runner[s].key \in Key /\ lock[runner[s].key].holder = s
    BY <2>1 DEF References, Locked
  <2> QED BY <2>1, <2>2, Bounds DEF Leaves
<1> QED BY <1>1, <1>2, <1>4, <1>5, <1>6

LEMMA Entered ==
    ASSUME TaskTypes, Tabled, Locked, References, NEW r \in Runner, NEW f \in Runners,
           f.key \in Key, f.kind \in Kinds, f.pc = "created", Placed(r, f)
    PROVE  /\ TaskTypes' /\ Tabled' /\ Locked' /\ runner'[r] = f /\ Live(r)'
           /\ \A s \in Runner : s # r => runner'[s] = runner[s] /\ (Live(s)' <=> Live(s))
           /\ ~Live(r)
<1>1. runner' \in [Runner -> Runners] /\ runner'[r] = f /\ \A s \in Runner : s # r => runner'[s] = runner[s]
  BY DEF Placed, TaskTypes
<1>2. ~Live(r) /\ Live(r)' /\ \A s \in Runner : s # r => (Live(s)' <=> Live(s))
  BY <1>1, Bounds DEF Placed, Free, Live
<1>3. <<f.key, f.kind>> \in Key \X Kinds
  OBVIOUS
<1>4. /\ table' \in [Key \X Kinds -> Runner \cup {None}] /\ table'[<<f.key, f.kind>>] = r
      /\ \A e \in Key \X Kinds : e # <<f.key, f.kind>> => table'[e] = table[e]
  BY <1>3 DEF Placed, TaskTypes
<1>5. TaskTypes'
  BY <1>1, <1>4 DEF Placed, TaskTypes
<1>6. Tabled'
  <2> SUFFICES ASSUME NEW s \in Runner, Live(s)', NEW e \in Key \X Kinds
               PROVE  table'[e] = s <=> e = <<runner'[s].key, runner'[s].kind>>
    BY DEF Tabled
  <2>1. CASE s = r
    BY <2>1, <1>1, <1>4 DEF Placed, Free
  <2>2. CASE s # r
    <3>1. Live(s) /\ runner'[s] = runner[s] /\ (table[e] = s <=> e = <<runner[s].key, runner[s].kind>>)
      BY <2>2, <1>1, <1>2 DEF Tabled
    <3>2. e = <<f.key, f.kind>> => table[e] # s
      BY <3>1 DEF Placed
    <3> QED BY <2>2, <3>1, <3>2, <1>4
  <2> QED BY <2>1, <2>2
<1>7. Locked'
  BY <1>1 DEF Locked, Placed
<1> QED BY <1>1, <1>2, <1>5, <1>6, <1>7

LEMMA Gone ==
    ASSUME TaskTypes, Tabled, Locked, References, NEW r \in Runner, Live(r), NEW f \in Runners, Goes(r, f)
    PROVE  /\ TaskTypes' /\ Tabled' /\ Locked' /\ runner'[r] = f
           /\ \A s \in Runner : Live(s)' <=> Live(s)
           /\ \A s \in Runner : s # r => runner'[s] = runner[s]
<1>1. runner' \in [Runner -> Runners] /\ runner'[r] = f /\ \A s \in Runner : s # r => runner'[s] = runner[s]
  BY DEF Goes, TaskTypes
<1>2. \A s \in Runner : Live(s)' <=> Live(s)
  BY <1>1, Bounds DEF Goes, Live
<1>3. \A k \in Key : lock'[k].holder \in Runner \cup {None}
  BY DEF Goes, TaskTypes
<1>4. TaskTypes'
  BY <1>1, <1>3 DEF Goes, TaskTypes
<1>5. Tabled'
  <2>1. \A s \in Runner : runner'[s].key = runner[s].key /\ runner'[s].kind = runner[s].kind
    BY <1>1 DEF Goes
  <2> QED BY <2>1, <1>2 DEF Tabled, Goes
<1>6. Locked'
  <2> SUFFICES ASSUME NEW s \in Runner, runner'[s].pc = "chat" PROVE lock'[runner'[s].key].holder = s
    BY DEF Locked
  <2>1. CASE s = r
    BY <2>1, <1>1 DEF Goes
  <2>2. CASE s # r
    <3>1. runner'[s] = runner[s] /\ runner[s].key \in Key /\ lock[runner[s].key].holder = s
      BY <2>2, <1>1, AtWork DEF References, Locked
    <3> QED BY <3>1, Bounds DEF Goes
  <2> QED BY <2>1, <2>2
<1> QED BY <1>1, <1>2, <1>4, <1>5, <1>6

\* What a task that gets the lock has chosen: the messages after the position
\* up to those the window keeps, and what MEMORY.md holds.
Chosen(f) ==
    /\ f.mem = memory
    /\ news = 0 /\ f.kind = "window" =>
          /\ file[f.key].lc + Len(f.batch) + Keep <= Len(file[f.key].msgs)
          /\ \A i \in 1..Len(f.batch) : f.batch[i] = file[f.key].msgs[file[f.key].lc + i]

Advances(r, f) ==
    /\ Goes(r, f)
    /\ f.kind = "archive" => f.batch = runner[r].batch
    /\ f.pc = "chat" => Chosen(f)

Proceeds(r) == \/ Leaves(r) /\ runner[r].kind = "window"
               \/ \E f \in Runners : Advances(r, f)

LEMMA LockSet ==
    ASSUME TaskTypes, NEW k \in Key, NEW h, NEW q,
           \/ lock' = [lock EXCEPT ![k] = [holder |-> h, queue |-> q]]
           \/ lock' = [lock EXCEPT ![k].queue = q] /\ h = lock[k].holder
           \/ lock' = [lock EXCEPT ![k].holder = h]
    PROVE  /\ lock' = [l \in Key |-> [holder |-> lock'[l].holder, queue |-> lock'[l].queue]]
           /\ lock'[k].holder = h
           /\ \A l \in Key : l # k => lock'[l].holder = lock[l].holder
<1>1. lock = [l \in Key |-> [holder |-> lock[l].holder, queue |-> lock[l].queue]]
  BY DEF TaskTypes
<1>2. DOMAIN lock = Key /\ \A l \in Key : lock[l] = [holder |-> lock[l].holder, queue |-> lock[l].queue]
  BY <1>1
<1> DEFINE e == lock'[k]
<1>3. DOMAIN lock' = Key /\ lock' = [l \in Key |-> lock'[l]] /\ \A l \in Key : l # k => lock'[l] = lock[l]
  BY <1>1
<1>4. lock'[k] = [holder |-> lock'[k].holder, queue |-> lock'[k].queue] /\ lock'[k].holder = h
  <2>1. CASE lock' = [lock EXCEPT ![k] = [holder |-> h, queue |-> q]]
    BY <1>2, <2>1
  <2>2. CASE lock' = [lock EXCEPT ![k].queue = q] /\ h = lock[k].holder
    <3>1. lock'[k] = [lock[k] EXCEPT !.queue = q]
      BY <1>2, <2>2
    <3>2. lock'[k] = [holder |-> lock[k].holder, queue |-> q]
      BY <1>2, <3>1
    <3> QED BY <2>2, <3>2
  <2>3. CASE lock' = [lock EXCEPT ![k].holder = h]
    <3>1. lock'[k] = [lock[k] EXCEPT !.holder = h]
      BY <1>2, <2>3
    <3>2. lock'[k] = [holder |-> h, queue |-> lock[k].queue]
      BY <1>2, <3>1
    <3> QED BY <3>2
  <2> QED BY <2>1, <2>2, <2>3
<1>5. \A l \in Key : lock'[l] = [holder |-> lock'[l].holder, queue |-> lock'[l].queue]
  BY <1>2, <1>3, <1>4
<1> QED BY <1>3, <1>4, <1>5

LEMMA BatchChosen ==
    ASSUME StoreTypes, References, Conversations, NEW r \in Runner, Live(r), runner[r].kind = "window",
           news = 0,
           NEW b, b = Slice(objs[runner[r].obj].msgs, objs[runner[r].obj].lc, IF Keep = 0 THEN 0 ELSE -Keep),
           Len(objs[runner[r].obj].msgs) > Keep, b # <<>>
    PROVE  /\ file[runner[r].key].lc + Len(b) + Keep <= Len(file[runner[r].key].msgs)
           /\ \A i \in 1..Len(b) : b[i] = file[runner[r].key].msgs[file[runner[r].key].lc + i]
<1> DEFINE k == runner[r].key
           o == runner[r].obj
<1>1. k \in Key /\ o \in 1..Len(objs) /\ objs[o].key = k
  BY DEF References
<1>2. cache[k] = o /\ o # 0
  BY <1>1 DEF Conversations, Held
<1>3. file[k].msgs = objs[o].msgs /\ file[k].lc = objs[o].lc /\ file[k].lc \in 0..Len(file[k].msgs)
  <2>1. file[k] = [msgs |-> objs[cache[k]].msgs, lc |-> objs[cache[k]].lc] /\ file[k].lc \in 0..Len(file[k].msgs)
    BY <1>1, <1>2 DEF Conversations, Held
  <2> QED BY <1>2, <2>1
<1>4. file[k].msgs \in Seq(Message) /\ Len(file[k].msgs) \in Nat
  BY <1>1, FileTyped
<1> HIDE DEF k, o
<1>5. CASE Keep = 0
  <2>1. b = Slice(file[k].msgs, file[k].lc, 0)
    BY <1>3, <1>5 DEF o
  <2>2. Bound(file[k].msgs, file[k].lc) = file[k].lc /\ Bound(file[k].msgs, 0) = 0
    BY <1>3, <1>4, SMTT(60) DEF Bound
  <2>3. b = SubSeq(file[k].msgs, file[k].lc + 1, 0)
    BY <2>1, <2>2, ZenonT(60) DEF Slice
  <2>4. b = <<>>
    BY <2>3, <1>3, SubSeqEmpty, SMTT(60)
  <2> QED BY <2>4
<1>6. CASE Keep # 0
  <2>1. b = Slice(file[k].msgs, file[k].lc, -Keep)
    BY <1>3, <1>6 DEF o
  <2>2. Keep > 0 /\ Keep < Len(file[k].msgs)
    BY <1>3, <1>4, <1>6, Bounds DEF o
  <2>3. file[k].lc + Len(b) + Keep <= Len(file[k].msgs) /\ \A i \in 1..Len(b) : b[i] = file[k].msgs[file[k].lc + i]
    <3> DEFINE s == file[k].msgs
               a == file[k].lc
    <3>1. s \in Seq(Message) /\ a \in 0..Len(s) /\ Keep \in Nat /\ Keep > 0 /\ Keep < Len(s) /\ b = Slice(s, a, -Keep)
      BY <1>3, <1>4, <2>1, <2>2, Bounds
    <3> HIDE DEF s, a
    <3>2. a + Len(b) + Keep <= Len(s) /\ \A i \in 1..Len(b) : b[i] = s[a + i]
      BY <3>1, SliceIs, SMTT(60)
    <3> QED BY <3>2 DEF s, a
  <2> QED BY <2>3 DEF k
<1> QED BY <1>5, <1>6

LEMMA Begins ==
    ASSUME Types, References, Conversations, NEW r \in Runner, runner[r].pc \in {"created", "waiting"},
           lock[runner[r].key].holder = None, NEW q, Begin(r, q)
    PROVE  Proceeds(r)
<1> DEFINE f == runner[r]
           k == f.key
           msgs == objs[f.obj].msgs
           lc == objs[f.obj].lc
           batch == IF f.kind = "archive" THEN f.batch ELSE Slice(msgs, lc, IF Keep = 0 THEN 0 ELSE -Keep)
           nothing == f.kind = "window" /\ (Len(msgs) <= Keep \/ Len(msgs) - lc <= 0 \/ batch = <<>>)
<1>1. Live(r) /\ k \in Key /\ f.kind \in Kinds /\ f \in Runners
  BY AtWork, RunnerTyped DEF References, Types
<1>2. CASE nothing
  <2>1. Retire(r) /\ lock' = [lock EXCEPT ![k] = [holder |-> None, queue |-> q]]
    BY <1>2 DEF Begin
  <2>2. /\ lock' = [l \in Key |-> [holder |-> lock'[l].holder, queue |-> lock'[l].queue]]
        /\ lock'[k].holder = None /\ \A l \in Key : l # k => lock'[l].holder = lock[l].holder
    BY <1>1, <2>1, LockSet DEF Types
  <2>3. Leaves(r)
    BY <2>1, <2>2 DEF Leaves, Retire
  <2> QED BY <1>2, <2>3 DEF Proceeds
<1>3. CASE ~nothing
  <2>1. /\ runner' = [runner EXCEPT ![r].pc = "chat", ![r].batch = batch, ![r].mem = memory]
        /\ lock' = [lock EXCEPT ![k] = [holder |-> r, queue |-> q]]
        /\ UNCHANGED <<table, requested>>
    BY <1>3 DEF Begin
  <2>2. /\ lock' = [l \in Key |-> [holder |-> lock'[l].holder, queue |-> lock'[l].queue]]
        /\ lock'[k].holder = r /\ \A l \in Key : l # k => lock'[l].holder = lock[l].holder
    BY <1>1, <2>1, LockSet DEF Types
  <2>3. batch \in Seq(Message)
    <3>1. CASE f.kind = "archive"
      BY <3>1, RunnerTyped DEF Types
    <3>2. CASE f.kind # "archive"
      <4>1. f.obj \in 1..Len(objs)
        BY <1>1, <3>2, Bounds DEF References
      <4>2. msgs \in Seq(Message) /\ lc \in Int
        BY <4>1, SessionTyped DEF Types
      <4>3. (IF Keep = 0 THEN 0 ELSE -Keep) \in Int
        BY Bounds
      <4> QED BY <3>2, <4>2, <4>3, SliceTyped
    <3> QED BY <3>1, <3>2
  <2>4. news = 0 /\ f.kind = "window" =>
          /\ file[k].lc + Len(batch) + Keep <= Len(file[k].msgs)
          /\ \A i \in 1..Len(batch) : batch[i] = file[k].msgs[file[k].lc + i]
    <3> SUFFICES ASSUME news = 0, f.kind = "window"
                 PROVE  /\ file[k].lc + Len(batch) + Keep <= Len(file[k].msgs)
                        /\ \A i \in 1..Len(batch) : batch[i] = file[k].msgs[file[k].lc + i]
      OBVIOUS
    <3>1. f.obj \in 1..Len(objs)
      BY <1>1 DEF References
    <3>2. msgs \in Seq(Message) /\ Len(msgs) \in Nat
      BY <3>1, SessionTyped, LenProperties DEF Types
    <3>3. Len(msgs) > Keep /\ batch # <<>>
      BY <1>3, <3>2, Bounds
    <3>4. batch = Slice(msgs, lc, IF Keep = 0 THEN 0 ELSE -Keep)
      OBVIOUS
    <3> QED BY <1>1, <3>3, <3>4, BatchChosen DEF Types
  <2> HIDE DEF batch, nothing
  <2> DEFINE g == [f EXCEPT !.pc = "chat", !.batch = batch, !.mem = memory]
  <2>5. g \in Runners /\ g.pc = "chat" /\ g.key = k /\ g.kind = f.kind /\ g.obj = f.obj /\ g.batch = batch /\ g.mem = memory
    BY <1>1, <2>3 DEF Runners, Types, OtherTypes
  <2>6. runner' = [runner EXCEPT ![r] = g]
    BY <2>1 DEF Types, TaskTypes
  <2> HIDE DEF g
  <2>7. Goes(r, g)
    BY <2>1, <2>2, <2>5, <2>6 DEF Goes
  <2>8. Chosen(g)
    BY <2>4, <2>5 DEF Chosen
  <2>9. f.kind = "archive" => batch = f.batch
    BY DEF batch
  <2> QED BY <2>5, <2>7, <2>8, <2>9 DEF Proceeds, Advances
<1> QED BY <1>2, <1>3

\* The first step of a task and the one at which it gets the lock.
LEMMA Proceeding ==
    ASSUME Types, References, Conversations, NEW r \in Runner, RunnerStart(r) \/ RunnerAcquires(r)
    PROVE  Proceeds(r)
<1> DEFINE k == runner[r].key
           l == lock[k]
<1>1. Live(r) /\ k \in Key /\ runner[r].kind \in Kinds /\ runner[r] \in Runners
  BY AtWork, RunnerTyped DEF References, RunnerStart, RunnerAcquires, Types
<1>2. CASE RunnerAcquires(r)
  <2>1. l.holder = None /\ runner[r].pc = "waiting" /\ Begin(r, Tail(l.queue))
    BY <1>2 DEF RunnerAcquires
  <2> QED BY <2>1, Begins
<1>3. CASE RunnerStart(r)
  <2>1. /\ runner[r].pc = "created"
        /\ \/ runner[r].kind = "window" /\ Retire(r) /\ UNCHANGED lock
           \/ l.holder = None /\ Begin(r, <<>>)
           \/ /\ runner' = [runner EXCEPT ![r].pc = "waiting"]
              /\ lock' = [lock EXCEPT ![k].queue = Append(@, r)]
              /\ UNCHANGED <<table, requested>>
    BY <1>3 DEF RunnerStart
  <2>2. CASE runner[r].kind = "window" /\ Retire(r) /\ UNCHANGED lock
    <3>1. lock' = [m \in Key |-> [holder |-> lock'[m].holder, queue |-> lock'[m].queue]]
      BY <2>2 DEF Types, TaskTypes
    <3> QED BY <2>2, <3>1 DEF Proceeds, Leaves, Retire
  <2>3. CASE l.holder = None /\ Begin(r, <<>>)
    BY <2>1, <2>3, Begins
  <2>4. CASE /\ runner' = [runner EXCEPT ![r].pc = "waiting"]
             /\ lock' = [lock EXCEPT ![k].queue = Append(@, r)]
             /\ UNCHANGED <<table, requested>>
    <3>1. lock' = [lock EXCEPT ![k].queue = Append(lock[k].queue, r)]
      BY <2>4
    <3>2. /\ lock' = [m \in Key |-> [holder |-> lock'[m].holder, queue |-> lock'[m].queue]]
          /\ \A m \in Key : lock'[m].holder = lock[m].holder
      BY <1>1, <3>1, LockSet DEF Types
    <3> DEFINE g == [runner[r] EXCEPT !.pc = "waiting"]
    <3>3. /\ g \in Runners /\ g.pc = "waiting" /\ g.key = k /\ g.kind = runner[r].kind /\ g.obj = runner[r].obj
          /\ g.batch = runner[r].batch
      BY <1>1 DEF Runners
    <3>4. runner' = [runner EXCEPT ![r] = g]
      BY <2>4 DEF Types, TaskTypes
    <3> HIDE DEF g
    <3>5. Goes(r, g)
      BY <2>1, <2>4, <3>2, <3>3, <3>4 DEF Goes
    <3> QED BY <3>3, <3>5 DEF Proceeds, Advances
  <2> QED BY <2>1, <2>2, <2>3, <2>4
<1> QED BY <1>2, <1>3

\* The last step of a task that had the lock.
LEMMA Finishing ==
    ASSUME TaskTypes, References, Locked, NEW r \in Runner, runner[r].pc = "chat",
           Retire(r), lock' = Released(runner[r].key)
    PROVE  Leaves(r)
<1>1. runner[r].key \in Key /\ lock[runner[r].key].holder = r
  BY AtWork DEF References, Locked
<1>2. /\ lock' = [l \in Key |-> [holder |-> lock'[l].holder, queue |-> lock'[l].queue]]
      /\ lock'[runner[r].key].holder = None /\ \A l \in Key : l # runner[r].key => lock'[l].holder = lock[l].holder
  BY <1>1, LockSet DEF Released
<1> QED BY <1>1, <1>2 DEF Leaves, Retire

LEMMA Cancelled ==
    ASSUME TaskTypes, References, Locked, NEW r \in Runner, RunnerCancelled(r)
    PROVE  Leaves(r) /\ Live(r)
<1> DEFINE k == runner[r].key
<1>1. Live(r) /\ k \in Key /\ lock = [l \in Key |-> [holder |-> lock[l].holder, queue |-> lock[l].queue]]
  BY DEF References, RunnerCancelled, TaskTypes
<1>2. CASE runner[r].pc = "created"
  <2>1. /\ runner' = [runner EXCEPT ![r] = [Idle EXCEPT !.pc = "dead"]]
        /\ table' = table /\ requested' = requested /\ lock' = lock
    BY <1>2 DEF RunnerCancelled
  <2>2. lock' = [l \in Key |-> [holder |-> lock'[l].holder, queue |-> lock'[l].queue]]
    BY <1>1, <2>1
  <2> QED BY <1>1, <2>1, <2>2 DEF Leaves
<1>3. CASE runner[r].pc = "chat"
  <2>1. Retire(r) /\ lock' = Released(k)
    BY <1>3 DEF RunnerCancelled
  <2> QED BY <1>1, <1>3, <2>1, Finishing
<1>4. CASE runner[r].pc \notin {"created", "chat"}
  <2>1. /\ Retire(r)
        /\ \/ lock' = [lock EXCEPT ![k].queue = SelectSeq(@, LAMBDA x : x # r)]
           \/ lock' = lock
    BY <1>4 DEF RunnerCancelled
  <2>2. CASE lock' = lock
    <3>1. lock' = [l \in Key |-> [holder |-> lock'[l].holder, queue |-> lock'[l].queue]]
      BY <1>1, <2>2
    <3> QED BY <1>1, <2>1, <2>2, <3>1 DEF Leaves, Retire
  <2>3. CASE lock' = [lock EXCEPT ![k].queue = SelectSeq(@, LAMBDA x : x # r)]
    <3> DEFINE q == SelectSeq(lock[k].queue, LAMBDA x : x # r)
    <3>1. lock' = [lock EXCEPT ![k].queue = q]
      BY <2>3, SMTT(60)
    <3> HIDE DEF q
    <3>2. /\ lock' = [l \in Key |-> [holder |-> lock'[l].holder, queue |-> lock'[l].queue]]
          /\ \A l \in Key : lock'[l].holder = lock[l].holder
      BY <1>1, <3>1, LockSet
    <3> QED BY <1>1, <2>1, <3>2 DEF Leaves, Retire
  <2> QED BY <2>1, <2>2, <2>3
<1> QED BY <1>2, <1>3, <1>4

LEMMA Scheduling ==
    ASSUME TaskTypes, NEW k \in Key, NEW kind \in Kinds, NEW f, f.key = k, f.kind = kind,
           Schedule(k, kind, f), lock' = lock
    PROVE  \/ tasks' = tasks /\ (closing \/ Live(table[<<k, kind>>]))
           \/ \E r \in Runner : Placed(r, f)
BY DEF Schedule, Placed

\* Nothing happens to the tasks.
LEMMA Undisturbed ==
    ASSUME TaskTypes, Tabled, Locked, UNCHANGED tasks
    PROVE  TaskTypes' /\ Tabled' /\ Locked' /\ Fewer /\ Quiet
<1>1. \A s \in Runner : Live(s)' <=> Live(s)
  BY DEF Live
<1>2. TaskTypes'
  BY DEF TaskTypes
<1>3. Tabled'
  BY <1>1 DEF Tabled
<1> QED BY <1>1, <1>2, <1>3 DEF Locked, Fewer, Quiet

-----------------------------------------------------------------------------
(* What the steps that begin no task and no turn keep *)

Grown ==
    /\ \A o \in 1..Len(objs) : o \in 1..Len(objs') /\ objs'[o].key = objs[o].key
    /\ \A k \in Key : cache'[k] # 0 => cache'[k] \in 1..Len(objs') /\ objs'[cache'[k]].key = k

LEMMA ReferencesKept ==
    ASSUME Types, References, Fewer, TurnsKept, Grown, turns' = turns
    PROVE  References'
<1>1. \A w \in Worker : turn'[w].busy =>
          /\ turn'[w].key \in Key /\ turn'[w].n \in 1..turns'
          /\ turn'[w].obj \in 1..Len(objs') /\ objs'[turn'[w].obj].key = turn'[w].key
  BY DEF References, TurnsKept, Grown
<1>2. \A r \in Runner : Live(r)' =>
          /\ runner'[r].key \in Key /\ runner'[r].kind \in Kinds
          /\ runner'[r].kind = "window" =>
                runner'[r].obj \in 1..Len(objs') /\ objs'[runner'[r].obj].key = runner'[r].key
  BY DEF References, Fewer, Grown
<1> QED BY <1>1, <1>2 DEF References, Grown

LEMMA StoresKept ==
    ASSUME Types, References, UNCHANGED stores
    PROVE  Grown
BY DEF References, Grown

LEMMA DrainingKept ==
    ASSUME Draining, Fewer, TurnsKept, drain' = drain, closing => closing'
    PROVE  Draining'
BY DEF Draining, Fewer, TurnsKept

LEMMA ConversationsKept ==
    ASSUME Types, Conversations, TurnsKept, UNCHANGED <<stores, turns, news>>
    PROVE  Conversations'
<1>1. Held' /\ Distinct'
  BY DEF Conversations, Held, Distinct
<1>2. Numbered'
  BY DEF Conversations, Numbered, TurnsKept
<1> QED BY <1>1, <1>2 DEF Conversations

LEMMA CountedKept ==
    ASSUME Types, References, Counted, Quiet, TurnsKept, UNCHANGED <<file, turns, news, summaries, partial>>
    PROVE  Counted'
<1> SUFFICES ASSUME news = 0 PROVE Counted'
  BY DEF Counted
<1>1. SummarisedOnce'
  BY DEF Counted, SummarisedOnce
<1>2. \A m \in Message : summaries'[m] > 0 =>
          m[1] <= turns' /\ \A w \in Worker : turn'[w].busy => turn'[w].n # m[1]
  BY DEF Counted, TurnsKept
<1>3. \A r \in Runner : runner'[r].pc = "chat" => runner'[r] = runner[r]
  BY DEF Quiet
<1> QED BY <1>1, <1>2, <1>3, SMTT(60) DEF Counted

LEMMA RememberedKept ==
    ASSUME Remembered, Quiet, UNCHANGED <<memory, writer>>
    PROVE  Remembered'
BY DEF Remembered, Quiet

\* An archive that is not at work any more is summarised or given up.
LEMMA ArchivedKept ==
    ASSUME Types, Archived, Fewer, UNCHANGED <<news, cleared>>,
           \A m \in Message : (summaries[m] > 0 => summaries'[m] > 0) /\ (m \in Excused => m \in Excused'),
           \A r \in Runner : Live(r) /\ ~Live(r)' /\ runner[r].kind = "archive" =>
               \A m \in Elements(runner[r].batch) : m \in Message => summaries'[m] > 0 \/ m \in Excused'
    PROVE  Archived'
<1>1. news' = 0 => cleared' = {} /\ \A r \in Runner : Live(r)' => runner'[r].kind = "window"
  BY DEF Archived, Fewer
<1>2. ASSUME NEW m \in cleared'
      PROVE  \/ summaries'[m] > 0 \/ m \in Excused'
             \/ \E r \in Runner : Live(r)' /\ runner'[r].kind = "archive" /\ m \in Elements(runner'[r].batch)
  <2>1. m \in cleared /\ m \in Message
    BY DEF Types, OtherTypes
  <2>2. CASE summaries[m] > 0 \/ m \in Excused
    BY <2>1, <2>2
  <2>3. CASE \E r \in Runner : Live(r) /\ runner[r].kind = "archive" /\ m \in Elements(runner[r].batch)
    <3>1. PICK r \in Runner : Live(r) /\ runner[r].kind = "archive" /\ m \in Elements(runner[r].batch)
      BY <2>3
    <3>2. CASE Live(r)'
      BY <3>1, <3>2 DEF Fewer
    <3>3. CASE ~Live(r)'
      BY <2>1, <3>1, <3>3
    <3> QED BY <3>2, <3>3
  <2> QED BY <1>2, <2>1, <2>2, <2>3 DEF Archived
<1> QED BY <1>1, <1>2 DEF Archived

LEMMA InvEdits ==
    ASSUME Inv, NEW w \in Worker, TurnEdits(w)
    PROVE  Inv'
<1> DEFINE m == <<turn[w].n, "user">>
<1>1. turn[w].busy /\ turn[w].n \in 1..turns /\ turns \in 0..MaxTurns /\ turn[w] \in Turns
  BY DEF Inv, References, TurnEdits, Types, OtherTypes
<1>2. m \in Message
  BY <1>1, Bounds DEF Message
<1>3. turn' \in [Worker -> Turns]
  BY <1>1 DEF TurnEdits, Inv, Types, OtherTypes, Turns
<1>4. TurnsKept
  BY <1>1 DEF TurnsKept, TurnEdits, Inv, Types, OtherTypes, Turns
<1>5. TaskTypes' /\ Tabled' /\ Locked' /\ Fewer /\ Quiet
  BY Undisturbed DEF Inv, Types, TurnEdits
<1>6. Types'
  <2>1. memory' \in SUBSET Message /\ writer' \in [Message -> Key \cup {None}]
    BY <1>2 DEF TurnEdits, WriteMemory, Inv, Types, OtherTypes
  <2> QED BY <1>3, <1>5, <2>1 DEF Inv, Types, StoreTypes, OtherTypes, TurnEdits
<1>7. References' /\ Conversations'
  BY <1>4, <1>5, StoresKept, ReferencesKept, ConversationsKept DEF Inv, TurnEdits
<1>8. Draining' /\ Counted'
  BY <1>4, <1>5, DrainingKept, CountedKept DEF Inv, TurnEdits
<1>9. Remembered'
  <2> SUFFICES ASSUME NEW r \in Runner, runner[r].pc = "chat", NEW n \in memory', writer'[n] = runner[r].key
               PROVE  n \in runner[r].mem
    BY DEF TurnEdits, Remembered
  <2>1. runner[r].key # None
    BY AtWork, Bounds DEF Inv, References
  <2>2. n \in memory /\ writer'[n] = writer[n]
    BY <1>2, <2>1 DEF TurnEdits, WriteMemory, Inv, Types, OtherTypes
  <2> QED BY <2>2 DEF Inv, Remembered
<1>10. Archived'
  <2>1. \A r \in Runner : Live(r)' = Live(r)
    BY DEF TurnEdits, Live
  <2> QED BY <1>5, <2>1, ArchivedKept DEF Inv, TurnEdits, Excused
<1> QED BY <1>5, <1>6, <1>7, <1>8, <1>9, <1>10 DEF Inv

LEMMA InvTurnFails ==
    ASSUME Inv, NEW w \in Worker, TurnFails(w)
    PROVE  Inv'
<1>1. turn' \in [Worker -> Turns] /\ TurnsKept
  BY NothingTyped DEF TurnsKept, TurnFails, Inv, Types, OtherTypes
<1>2. TaskTypes' /\ Tabled' /\ Locked' /\ Fewer /\ Quiet
  BY Undisturbed DEF Inv, Types, TurnFails
<1>3. Types'
  BY <1>1, <1>2 DEF Inv, Types, StoreTypes, OtherTypes, TurnFails
<1>4. References' /\ Conversations'
  BY <1>1, <1>2, StoresKept, ReferencesKept, ConversationsKept DEF Inv, TurnFails
<1>5. Draining' /\ Counted' /\ Remembered'
  BY <1>1, <1>2, DrainingKept, CountedKept, RememberedKept DEF Inv, TurnFails
<1>6. Archived'
  <2>1. \A r \in Runner : Live(r)' = Live(r)
    BY DEF TurnFails, Live
  <2> QED BY <1>2, <2>1, ArchivedKept DEF Inv, TurnFails, Excused
<1> QED BY <1>2, <1>3, <1>4, <1>5, <1>6 DEF Inv

\* Stop, AClose and DrainStart do no more to a task than request its end.
LEMMA OnlyRequested ==
    ASSUME TaskTypes, Tabled, Locked, UNCHANGED <<runner, table, lock>>, requested' \in SUBSET Runner
    PROVE  /\ TaskTypes' /\ Tabled' /\ Locked' /\ Fewer /\ Quiet
           /\ \A r \in Runner : Live(r)' = Live(r)
<1>1. \A s \in Runner : Live(s)' = Live(s)
  BY DEF Live
<1>2. TaskTypes'
  BY DEF TaskTypes
<1>3. Tabled'
  BY <1>1 DEF Tabled
<1> QED BY <1>1, <1>2, <1>3 DEF Locked, Fewer, Quiet

LEMMA InvStop ==
    ASSUME Inv, Stop \/ AClose
    PROVE  Inv'
<1>1. requested' \in SUBSET Runner /\ UNCHANGED <<runner, table, lock>>
  BY DEF Stop, AClose, Listed, Inv, Types, TaskTypes
<1>2. TaskTypes' /\ Tabled' /\ Locked' /\ Fewer /\ Quiet /\ \A r \in Runner : Live(r)' = Live(r)
  BY <1>1, OnlyRequested DEF Inv, Types
<1>3. /\ UNCHANGED <<stores, memory, turn, drain, turns, news, restarts, ghosts, cleared, writer>>
      /\ closing' \in BOOLEAN /\ (closing => closing') /\ TurnsKept
  BY DEF Stop, AClose, TurnsKept, Inv, Types, OtherTypes
<1>4. Types'
  BY <1>2, <1>3 DEF Inv, Types, StoreTypes, OtherTypes
<1>5. References' /\ Conversations'
  BY <1>2, <1>3, StoresKept, ReferencesKept, ConversationsKept DEF Inv
<1>6. Draining' /\ Counted' /\ Remembered'
  BY <1>2, <1>3, DrainingKept, CountedKept, RememberedKept DEF Inv
<1>7. Archived'
  BY <1>2, <1>3, ArchivedKept DEF Inv, Excused
<1> QED BY <1>2, <1>4, <1>5, <1>6, <1>7 DEF Inv

LEMMA InvDrainStart ==
    ASSUME Inv, DrainStart
    PROVE  Inv'
<1>1. requested' \in SUBSET Runner /\ UNCHANGED <<runner, table, lock>>
  BY DEF DrainStart, Listed, Inv, Types, TaskTypes
<1>2. TaskTypes' /\ Tabled' /\ Locked' /\ Fewer /\ Quiet /\ \A r \in Runner : Live(r)' = Live(r)
  BY <1>1, OnlyRequested DEF Inv, Types
<1>3. UNCHANGED <<stores, memory, closing, turns, news, restarts, ghosts, cleared, writer>>
  BY DEF DrainStart
<1>4. \A w \in Worker : /\ turn'[w] \in Turns /\ turn'[w].busy = turn[w].busy /\ turn'[w].key = turn[w].key
                        /\ turn'[w].obj = turn[w].obj /\ turn'[w].n = turn[w].n
  <2> SUFFICES ASSUME NEW w \in Worker
               PROVE  /\ turn'[w] \in Turns /\ turn'[w].busy = turn[w].busy /\ turn'[w].key = turn[w].key
                      /\ turn'[w].obj = turn[w].obj /\ turn'[w].n = turn[w].n
    OBVIOUS
  <2>1. turn[w] \in Turns /\ turn'[w] = [turn[w] EXCEPT !.cancel = turn[w].busy]
    BY DEF DrainStart, Inv, Types, OtherTypes
  <2> QED BY <2>1 DEF Turns
<1>5. turn' \in [Worker -> Turns] /\ TurnsKept
  BY <1>4 DEF TurnsKept, DrainStart
<1>6. Types'
  BY <1>2, <1>3, <1>5 DEF Inv, Types, StoreTypes, OtherTypes
<1>7. References' /\ Conversations'
  BY <1>2, <1>3, <1>5, StoresKept, ReferencesKept, ConversationsKept DEF Inv
<1>8. Counted' /\ Remembered'
  BY <1>2, <1>3, <1>5, CountedKept, RememberedKept DEF Inv
<1>9. Archived'
  BY <1>2, <1>3, ArchivedKept DEF Inv, Excused
<1>10. Draining'
  <2>1. /\ closing' /\ drain'.runners = {r \in Listed : Live(r)} /\ drain'.workers = {w \in Worker : turn[w].busy}
    BY <1>3 DEF DrainStart
  <2>2. \A r \in Runner : Live(r)' => r \in drain'.runners
    <3> SUFFICES ASSUME NEW r \in Runner, Live(r)' PROVE r \in Listed /\ Live(r)
      BY <2>1
    <3>1. Live(r) /\ <<runner[r].key, runner[r].kind>> \in Key \X Kinds
      BY <1>2 DEF Inv, References
    <3>2. table[<<runner[r].key, runner[r].kind>>] = r
      BY <3>1 DEF Inv, Tabled
    <3> QED BY <3>1, <3>2 DEF Listed
  <2>3. \A w \in Worker : turn'[w].busy => w \in drain'.workers
    BY <1>4, <2>1
  <2> QED BY <2>1, <2>2, <2>3 DEF Draining
<1> QED BY <1>2, <1>6, <1>7, <1>8, <1>9, <1>10 DEF Inv

LEMMA InvRestart ==
    ASSUME Inv, Restart
    PROVE  Inv'
<1>1. /\ \A r \in Runner : ~Live(r)' /\ runner'[r].pc = "idle"
      /\ \A w \in Worker : ~turn'[w].busy
  BY NothingTyped DEF Restart, Live
<1>2. Fewer /\ Quiet /\ TurnsKept
  BY <1>1 DEF Fewer, Quiet, TurnsKept
<1>3. StoreTypes'
  BY DEF Restart, StoreTypes, Inv, Types
<1>4. TaskTypes'
  <2>1. table' \in [Key \X Kinds -> Runner \cup {None}] /\ runner' \in [Runner -> Runners] /\ requested' \in SUBSET Runner
    BY NothingTyped DEF Restart
  <2>2. /\ lock' = [k \in Key |-> [holder |-> lock'[k].holder, queue |-> lock'[k].queue]]
        /\ \A k \in Key : lock'[k].holder \in Runner \cup {None}
    BY DEF Restart
  <2> QED BY <2>1, <2>2 DEF TaskTypes
<1>5. \A r \in Runner : GivenUp(r) \in SUBSET Message
  BY BatchTyped DEF Inv, Types
<1>6. OtherTypes'
  <2>1. failed' \in SUBSET Message
    BY <1>5 DEF Restart, OtherTypes, Inv, Types
  <2>2. turn' \in [Worker -> Turns] /\ closing' \in BOOLEAN
    BY NothingTyped DEF Restart
  <2>3. restarts' \in 0..MaxRestarts
    BY Bounds DEF Restart, OtherTypes, Inv, Types
  <2> QED BY <2>1, <2>2, <2>3 DEF Restart, OtherTypes, Inv, Types
<1>7. References' /\ Tabled' /\ Locked' /\ Draining'
  BY <1>1 DEF References, Tabled, Locked, Draining, Restart
<1>8. Remembered'
  BY <1>2, RememberedKept DEF Restart, Inv
<1>9. Archived'
  <2>1. \A r \in Runner : runner[r].kind = "archive" => \A m \in Elements(runner[r].batch) : m \in Excused'
    BY DEF Restart, GivenUp, Excused
  <2>2. \A m \in Message : (summaries[m] > 0 => summaries'[m] > 0) /\ (m \in Excused => m \in Excused')
    BY DEF Restart, Excused
  <2> QED BY <1>2, <2>1, <2>2, ArchivedKept DEF Restart, Inv, Excused
<1>10. Counted'
  BY <1>2, CountedKept DEF Restart, Inv
<1>11. Held' /\ Distinct'
  BY EmptySeq DEF Held, Distinct, Restart, Inv, Conversations
<1>12. Numbered'
  BY <1>1 DEF Numbered, Restart, Inv, Conversations
<1> QED BY <1>3, <1>4, <1>6, <1>7, <1>8, <1>9, <1>10, <1>11, <1>12 DEF Inv, Types, Conversations

LEMMA InvProceeds ==
    ASSUME Inv, NEW r \in Runner, RunnerStart(r) \/ RunnerAcquires(r)
    PROVE  Inv'
<1>1. /\ UNCHANGED <<stores, memory, turn, closing, drain, turns, news, restarts, ghosts, cleared, writer>>
      /\ Proceeds(r) /\ Live(r)
  BY Proceeding, AtWork DEF Inv, RunnerStart, RunnerAcquires
<1>2. TurnsKept
  BY <1>1 DEF TurnsKept
<1>3. CASE Leaves(r) /\ runner[r].kind = "window"
  <2>1. TaskTypes' /\ Tabled' /\ Locked' /\ Fewer /\ Quiet /\ \A s \in Runner : s # r => runner'[s] = runner[s]
    BY <1>1, <1>3, Left DEF Inv, Types
  <2>2. Types'
    BY <1>1, <2>1 DEF Inv, Types, StoreTypes, OtherTypes
  <2>3. References' /\ Conversations'
    BY <1>1, <1>2, <2>1, StoresKept, ReferencesKept, ConversationsKept DEF Inv
  <2>4. Draining' /\ Counted' /\ Remembered'
    BY <1>1, <1>2, <2>1, DrainingKept, CountedKept, RememberedKept DEF Inv
  <2>5. \A s \in Runner : Live(s) /\ ~Live(s)' => s = r
    BY <2>1 DEF Live
  <2>6. Archived'
    BY <1>1, <1>3, <2>1, <2>5, ArchivedKept DEF Inv, Excused
  <2> QED BY <2>1, <2>2, <2>3, <2>4, <2>6 DEF Inv
<1>4. CASE \E f \in Runners : Advances(r, f)
  <2>1. PICK f \in Runners : Advances(r, f)
    BY <1>4
  <2>2. /\ TaskTypes' /\ Tabled' /\ Locked' /\ runner'[r] = f
        /\ \A s \in Runner : Live(s)' <=> Live(s)
        /\ \A s \in Runner : s # r => runner'[s] = runner[s]
    BY <1>1, <2>1, Gone DEF Advances, Inv, Types
  <2>3. Fewer
    <3> SUFFICES ASSUME NEW s \in Runner, Live(s)'
                 PROVE  /\ Live(s) /\ runner'[s].key = runner[s].key /\ runner'[s].kind = runner[s].kind
                        /\ runner'[s].obj = runner[s].obj
                        /\ runner[s].kind = "archive" => runner'[s].batch = runner[s].batch
      BY DEF Fewer
    <3>1. CASE s = r
      BY <2>1, <2>2, <3>1 DEF Advances, Goes
    <3>2. CASE s # r
      BY <2>2, <3>2
    <3> QED BY <3>1, <3>2
  <2>4. Types'
    BY <1>1, <2>2 DEF Inv, Types, StoreTypes, OtherTypes
  <2>5. References' /\ Conversations' /\ Draining'
    BY <1>1, <1>2, <2>3, StoresKept, ReferencesKept, ConversationsKept, DrainingKept DEF Inv
  <2>6. Archived'
    BY <1>1, <2>2, <2>3, ArchivedKept DEF Inv, Excused
  <2>7. Remembered'
    <3>1. f.pc = "chat" => f.mem = memory
      BY <2>1 DEF Advances, Chosen
    <3> QED BY <1>1, <2>2, <3>1 DEF Inv, Remembered, Types, OtherTypes
  <2>8. Counted'
    <3> SUFFICES ASSUME news = 0 PROVE Counted'
      BY <1>1 DEF Counted
    <3>1. \A s \in Runner : runner'[s].pc = "chat" =>
            LET g == file'[runner'[s].key]
                batch == runner'[s].batch
            IN  /\ g.lc + Len(batch) + Keep <= Len(g.msgs)
                /\ \A i \in 1..Len(batch) : batch[i] = g.msgs[g.lc + i]
      <4> SUFFICES ASSUME NEW s \in Runner, runner'[s].pc = "chat"
                   PROVE  /\ file[runner'[s].key].lc + Len(runner'[s].batch) + Keep <= Len(file[runner'[s].key].msgs)
                          /\ \A i \in 1..Len(runner'[s].batch) :
                               runner'[s].batch[i] = file[runner'[s].key].msgs[file[runner'[s].key].lc + i]
        BY <1>1
      <4>1. CASE s = r
        <5>1. f.kind = "window" /\ Chosen(f)
          BY <1>1, <2>1, <2>2, <4>1 DEF Inv, Archived, Advances, Goes
        <5> QED BY <2>2, <4>1, <5>1 DEF Chosen
      <4>2. CASE s # r
        BY <2>2, <4>2 DEF Inv, Counted
      <4> QED BY <4>1, <4>2
    <3> QED BY <1>1, <3>1 DEF Inv, Counted, SummarisedOnce
  <2> QED BY <2>2, <2>4, <2>5, <2>6, <2>7, <2>8 DEF Inv
<1> QED BY <1>1, <1>3, <1>4, SMTT(60) DEF Proceeds

\* A task ends without a summary.
LEMMA InvGivesUp ==
    ASSUME Inv, NEW r \in Runner, ChatFails(r) \/ RunnerCancelled(r)
    PROVE  Inv'
<1>1. /\ UNCHANGED <<stores, memory, turn, closing, drain, turns, news, restarts, summaries, partial, unnoted, dropped, cleared,
                   writer>>
      /\ failed' = failed \cup GivenUp(r) /\ Leaves(r) /\ Live(r)
  BY Finishing, Cancelled, AtWork DEF Inv, Types, ChatFails, RunnerCancelled
<1>2. TaskTypes' /\ Tabled' /\ Locked' /\ Fewer /\ Quiet /\ \A s \in Runner : s # r => runner'[s] = runner[s]
  BY <1>1, Left DEF Inv, Types
<1>3. TurnsKept
  BY <1>1 DEF TurnsKept
<1>4. Types'
  BY <1>1, <1>2, BatchTyped DEF Inv, Types, StoreTypes, OtherTypes
<1>5. References' /\ Conversations'
  BY <1>1, <1>2, <1>3, StoresKept, ReferencesKept, ConversationsKept DEF Inv
<1>6. Draining' /\ Counted' /\ Remembered'
  BY <1>1, <1>2, <1>3, DrainingKept, CountedKept, RememberedKept DEF Inv
<1>7. Archived'
  <2>1. \A s \in Runner : Live(s) /\ ~Live(s)' => s = r
    BY <1>2 DEF Live
  <2>2. \A s \in Runner : Live(s) /\ ~Live(s)' /\ runner[s].kind = "archive" =>
               \A m \in Elements(runner[s].batch) : m \in Excused'
    BY <1>1, <2>1 DEF GivenUp, Excused
  <2>3. \A m \in Message : (summaries[m] > 0 => summaries'[m] > 0) /\ (m \in Excused => m \in Excused')
    BY <1>1 DEF Excused
  <2> QED BY <1>1, <1>2, <2>2, <2>3, ArchivedKept DEF Inv, Excused
<1> QED BY <1>2, <1>4, <1>5, <1>6, <1>7 DEF Inv

LEMMA Summarising ==
    ASSUME OtherTypes, NEW b \in Seq(Message), Summarise(b)
    PROVE  /\ summaries' \in [Message -> Nat]
           /\ \A m \in Message : /\ m \in Elements(b) => summaries'[m] = summaries[m] + 1
                                 /\ m \notin Elements(b) => summaries'[m] = summaries[m]
           /\ \A m \in Message : summaries[m] > 0 => summaries'[m] > 0
           /\ \A m \in Message : m \in Elements(b) => summaries'[m] > 0
<1>1. \A m \in Message : summaries'[m] = IF m \in Elements(b) THEN summaries[m] + 1 ELSE summaries[m]
  BY DEF Summarise
<1>2. \A m \in Message : summaries[m] \in Nat
  BY DEF OtherTypes
<1>3. summaries' \in [Message -> Nat]
  BY <1>2 DEF Summarise
<1> QED BY <1>1, <1>2, <1>3

\* An accepted batch is summarised, or its reply has no entry.
LEMMA Noting ==
    ASSUME OtherTypes, NEW b \in Seq(Message), Elements(b) \in SUBSET Message, Noted(b)
    PROVE  /\ summaries' \in [Message -> Nat] /\ unnoted' \in SUBSET Message /\ unnoted \subseteq unnoted'
           /\ \A m \in Message : /\ m \in Elements(b) => summaries'[m] <= summaries[m] + 1
                                 /\ m \notin Elements(b) => summaries'[m] = summaries[m]
           /\ \A m \in Message : summaries[m] > 0 => summaries'[m] > 0
           /\ \A m \in Message : m \in Elements(b) => summaries'[m] > 0 \/ m \in unnoted'
<1>1. CASE Summarise(b) /\ UNCHANGED unnoted
  <2>1. \A m \in Message : summaries[m] \in Nat
    BY DEF OtherTypes
  <2> QED BY <1>1, <2>1, Summarising DEF OtherTypes
<1>2. CASE unnoted' = unnoted \cup Elements(b) /\ UNCHANGED summaries
  <2>1. \A m \in Message : summaries'[m] = summaries[m] /\ summaries[m] \in Nat
    BY <1>2 DEF OtherTypes
  <2> QED BY <1>2, <2>1 DEF OtherTypes
<1> QED BY <1>1, <1>2 DEF Noted

\* The messages of a batch come from the file of its key, after the position.
Source(r) == file[runner[r].key]

LEMMA BatchFrom ==
    ASSUME Types, References, Archived, Held, Counted, news = 0, NEW r \in Runner, runner[r].pc = "chat"
    PROVE  /\ runner[r].key \in Key /\ runner[r].kind = "window" /\ Len(runner[r].batch) \in Nat
           /\ Source(r).lc \in 0..Len(Source(r).msgs) /\ Len(Source(r).msgs) \in Nat
           /\ Source(r).lc + Len(runner[r].batch) + Keep <= Len(Source(r).msgs)
           /\ \A m \in Elements(runner[r].batch) : \E i \in 1..Len(Source(r).msgs) :
                 i > Source(r).lc /\ i <= Source(r).lc + Len(runner[r].batch) /\ m = Source(r).msgs[i]
<1> DEFINE k == runner[r].key
           b == runner[r].batch
           f == file[k]
<1>1. Live(r)
  BY AtWork
<1>2. k \in Key /\ runner[r].kind = "window"
  BY <1>1 DEF References, Archived
<1>3. f.msgs \in Seq(Message) /\ Len(f.msgs) \in Nat /\ f.lc \in 0..Len(f.msgs)
  BY <1>2, FileTyped DEF Types, Held
<1>4. b \in Seq(Message) /\ Len(b) \in Nat
  BY RunnerTyped, LenProperties DEF Types
<1>5. f.lc + Len(b) + Keep <= Len(f.msgs) /\ \A i \in 1..Len(b) : b[i] = f.msgs[f.lc + i]
  BY DEF Counted
<1> HIDE DEF k, b, f
<1>6. \A i \in 1..Len(b) : f.lc + i \in 1..Len(f.msgs)
  <2> SUFFICES ASSUME NEW i \in 1..Len(b) PROVE f.lc + i \in 1..Len(f.msgs)
    OBVIOUS
  <2>1. f.lc \in Nat /\ Keep \in Nat /\ f.lc + Len(b) + Keep <= Len(f.msgs)
    BY <1>3, <1>5, Bounds
  <2> QED BY <1>3, <1>4, <2>1
<1>7. \A m \in Elements(b) : \E i \in 1..Len(f.msgs) : i > f.lc /\ i <= f.lc + Len(b) /\ m = f.msgs[i]
  <2> SUFFICES ASSUME NEW m \in Elements(b)
               PROVE  \E i \in 1..Len(f.msgs) : i > f.lc /\ i <= f.lc + Len(b) /\ m = f.msgs[i]
    OBVIOUS
  <2>1. PICK j \in 1..Len(b) : m = b[j]
    BY DEF Elements
  <2>2. f.lc + j \in 1..Len(f.msgs) /\ f.lc + j > f.lc /\ f.lc + j <= f.lc + Len(b) /\ m = f.msgs[f.lc + j]
    BY <1>3, <1>4, <1>5, <1>6, <2>1
  <2> QED BY <2>2
<1> QED BY <1>2, <1>3, <1>4, <1>5, <1>7 DEF k, b, f, Source

LEMMA InvHalfWritten ==
    ASSUME Inv, NEW r \in Runner, ChatHalfWritten(r)
    PROVE  Inv'
<1> DEFINE k == runner[r].key
           b == runner[r].batch
<1>1. /\ UNCHANGED <<stores, memory, turn, closing, drain, turns, news, restarts, unnoted, dropped, cleared, writer>>
      /\ failed' = failed \cup GivenUp(r) /\ partial' = partial \cup Elements(b) /\ Summarise(b)
      /\ Leaves(r) /\ Live(r) /\ runner[r].pc = "chat"
  BY Finishing, AtWork DEF Inv, Types, ChatHalfWritten
<1>2. TaskTypes' /\ Tabled' /\ Locked' /\ Fewer /\ Quiet /\ \A s \in Runner : s # r => runner'[s] = runner[s]
  BY <1>1, Left DEF Inv, Types
<1>3. TurnsKept
  BY <1>1 DEF TurnsKept
<1>4. b \in Seq(Message) /\ Elements(b) \in SUBSET Message /\ GivenUp(r) \in SUBSET Message
  BY RunnerTyped, BatchTyped DEF Inv, Types
<1>5. /\ summaries' \in [Message -> Nat]
      /\ \A m \in Message : /\ m \in Elements(b) => summaries'[m] = summaries[m] + 1
                            /\ m \notin Elements(b) => summaries'[m] = summaries[m]
      /\ \A m \in Message : summaries[m] > 0 => summaries'[m] > 0
      /\ \A m \in Message : m \in Elements(b) => summaries'[m] > 0
  BY <1>1, <1>4, Summarising DEF Inv, Types
<1>6. Types'
  BY <1>1, <1>2, <1>4, <1>5 DEF Inv, Types, StoreTypes, OtherTypes
<1>7. References' /\ Conversations'
  BY <1>1, <1>2, <1>3, StoresKept, ReferencesKept, ConversationsKept DEF Inv
<1>8. Draining' /\ Remembered'
  BY <1>1, <1>2, <1>3, DrainingKept, RememberedKept DEF Inv
<1>9. Archived'
  <2>1. \A s \in Runner : Live(s) /\ ~Live(s)' => s = r
    BY <1>2 DEF Live
  <2>2. \A s \in Runner : Live(s) /\ ~Live(s)' /\ runner[s].kind = "archive" =>
               \A m \in Elements(runner[s].batch) : m \in Excused'
    BY <1>1, <2>1 DEF GivenUp, Excused
  <2>3. \A m \in Message : (summaries[m] > 0 => summaries'[m] > 0) /\ (m \in Excused => m \in Excused')
    BY <1>1, <1>5 DEF Excused
  <2> QED BY <1>1, <1>2, <2>2, <2>3, ArchivedKept DEF Inv, Excused
<1>10. Counted'
  <2> SUFFICES ASSUME news = 0 PROVE Counted'
    BY <1>1 DEF Counted
  <2>1. /\ runner[r].pc = "chat" /\ Types /\ References /\ Archived /\ Held /\ Counted
    BY <1>1 DEF Inv, Conversations
  <2>2. /\ k \in Key
        /\ \A m \in Elements(b) : \E i \in 1..Len(file[k].msgs) :
              i > file[k].lc /\ i <= file[k].lc + Len(b) /\ m = file[k].msgs[i]
    BY <2>1, BatchFrom DEF Source
  <2> HIDE DEF k, b
  <2>3. SummarisedOnce'
    <3> SUFFICES ASSUME NEW m \in Message, summaries'[m] > 1 PROVE m \in partial'
      BY DEF SummarisedOnce
    <3>1. CASE m \in Elements(b)
      BY <1>1, <3>1
    <3>2. CASE m \notin Elements(b)
      BY <1>1, <1>5, <3>2 DEF Inv, Counted, SummarisedOnce
    <3> QED BY <3>1, <3>2
  <2>4. ASSUME NEW m \in Message, summaries'[m] > 0
        PROVE  m[1] <= turns' /\ \A w \in Worker : turn'[w].busy => turn'[w].n # m[1]
    <3>1. CASE m \in Elements(b)
      <4>1. PICK i \in 1..Len(file[k].msgs) : m = file[k].msgs[i]
        BY <2>2, <3>1
      <4> QED BY <1>1, <2>2, <4>1 DEF Inv, Conversations, Numbered
    <3>2. CASE m \notin Elements(b)
      BY <1>1, <1>5, <2>4, <3>2 DEF Inv, Counted
    <3> QED BY <3>1, <3>2
  <2>5. ASSUME NEW l \in Key, NEW i \in 1..Len(file'[l].msgs), i > file'[l].lc
        PROVE  summaries'[file'[l].msgs[i]] = 0 \/ file'[l].msgs[i] \in partial'
    <3>1. file'[l].msgs[i] = file[l].msgs[i] /\ i \in 1..Len(file[l].msgs) /\ i > file[l].lc
      BY <1>1, <2>5
    <3>2. file[l].msgs[i] \in Message
      BY <3>1, FileTyped, ElementOfSeq DEF Inv, Types
    <3>3. summaries[file[l].msgs[i]] = 0 \/ file[l].msgs[i] \in partial
      BY <3>1 DEF Inv, Counted
    <3> QED BY <1>1, <1>5, <3>1, <3>2, <3>3
  <2>6. \A s \in Runner : runner'[s].pc = "chat" => runner'[s] = runner[s]
    BY <1>2 DEF Quiet
  <2> QED BY <1>1, <2>3, <2>4, <2>5, <2>6, SMTT(60) DEF Inv, Counted
<1> QED BY <1>2, <1>6, <1>7, <1>8, <1>9, <1>10 DEF Inv

\* What save leaves behind.
LEMMA Saved ==
    ASSUME StoreTypes, NEW o \in 1..Len(objs), NEW s \in Sessions, s.key = objs[o].key,
           Save([objs EXCEPT ![o] = s], o), References
    PROVE  /\ StoreTypes' /\ Grown /\ Len(objs') = Len(objs)
           /\ objs'[o] = s /\ \A p \in 1..Len(objs) : p # o => objs'[p] = objs[p]
           /\ cache'[s.key] = o /\ \A k \in Key : k # s.key => cache'[k] = cache[k]
           /\ file'[s.key] = [msgs |-> s.msgs, lc |-> s.lc] /\ \A k \in Key : k # s.key => file'[k] = file[k]
<1>1. objs \in Seq(Sessions) /\ Len(objs) \in Nat /\ s.key \in Key /\ o # 0
  BY LenProperties DEF StoreTypes, Sessions
<1>2. objs' = [objs EXCEPT ![o] = s]
  BY DEF Save
<1>3. /\ objs' \in Seq(Sessions) /\ Len(objs') = Len(objs) /\ objs'[o] = s
      /\ \A p \in 1..Len(objs) : p # o => objs'[p] = objs[p]
  BY <1>1, <1>2, Replaced
<1>4. /\ file' = [file EXCEPT ![s.key] = [msgs |-> s.msgs, lc |-> s.lc]]
      /\ cache' = [cache EXCEPT ![s.key] = o]
  <2>1. [objs EXCEPT ![o] = s][o] = s
    BY <1>2, <1>3
  <2> QED BY <2>1 DEF Save
<1>5. [msgs |-> s.msgs, lc |-> s.lc] \in Files
  BY DEF Sessions, Files
<1>6. StoreTypes'
  BY <1>1, <1>3, <1>4, <1>5 DEF StoreTypes
<1>7. /\ cache'[s.key] = o /\ \A k \in Key : k # s.key => cache'[k] = cache[k]
      /\ file'[s.key] = [msgs |-> s.msgs, lc |-> s.lc] /\ \A k \in Key : k # s.key => file'[k] = file[k]
  BY <1>1, <1>4 DEF StoreTypes
<1>8. Grown
  <2>1. \A p \in 1..Len(objs) : p \in 1..Len(objs') /\ objs'[p].key = objs[p].key
    BY <1>3
  <2>2. ASSUME NEW k \in Key, cache'[k] # 0
        PROVE  cache'[k] \in 1..Len(objs') /\ objs'[cache'[k]].key = k
    <3>1. CASE k = s.key
      BY <1>3, <1>7, <3>1
    <3>2. CASE k # s.key
      BY <1>3, <1>7, <2>1, <2>2, <3>2 DEF References
    <3> QED BY <3>1, <3>2
  <2> QED BY <2>1, <2>2 DEF Grown
<1> QED BY <1>3, <1>6, <1>7, <1>8

LEMMA HeldSaved ==
    ASSUME StoreTypes, Held, NEW o \in 1..Len(objs), NEW s \in Sessions, s.key = objs[o].key,
           References, news' = news,
           Save([objs EXCEPT ![o] = s], o), news = 0 => s.lc \in 0..Len(s.msgs)
    PROVE  Held' /\ (news = 0 => file[s.key] = [msgs |-> objs[o].msgs, lc |-> objs[o].lc])
<1> SUFFICES ASSUME news = 0 PROVE Held' /\ file[s.key] = [msgs |-> objs[o].msgs, lc |-> objs[o].lc]
  BY DEF Held
<1> DEFINE k == s.key
<1>1. /\ Len(objs') = Len(objs) /\ objs'[o] = s /\ \A p \in 1..Len(objs) : p # o => objs'[p] = objs[p]
      /\ cache'[k] = o /\ \A l \in Key : l # k => cache'[l] = cache[l]
      /\ file'[k] = [msgs |-> s.msgs, lc |-> s.lc] /\ \A l \in Key : l # k => file'[l] = file[l]
  BY Saved
<1>2. k \in Key /\ cache[k] = o /\ o # 0 /\ \A p \in 1..Len(objs) : objs[p].key \in Key
  BY SessionTyped DEF Held, Sessions
<1>3. file[k] = [msgs |-> objs[o].msgs, lc |-> objs[o].lc]
  BY <1>2 DEF Held
<1>4. \A l \in Key : cache'[l] = cache[l]
  BY <1>1, <1>2
<1>5. \A p \in 1..Len(objs') : cache'[objs'[p].key] = p
  BY <1>1, <1>2, <1>4 DEF Held
<1>6. ASSUME NEW l \in Key, cache'[l] # 0
      PROVE  file'[l] = [msgs |-> objs'[cache'[l]].msgs, lc |-> objs'[cache'[l]].lc]
  <2>1. CASE l = k
    BY <1>1, <2>1
  <2>2. CASE l # k
    <3>1. cache[l] # 0 /\ cache[l] \in 1..Len(objs) /\ objs[cache[l]].key = l /\ cache[l] # o
      BY <1>4, <1>6, <2>2 DEF References
    <3>2. file[l] = [msgs |-> objs[cache[l]].msgs, lc |-> objs[cache[l]].lc]
      BY <3>1 DEF Held
    <3> QED BY <1>1, <1>4, <2>2, <3>1, <3>2
  <2> QED BY <2>1, <2>2
<1>7. \A l \in Key : file'[l].lc \in 0..Len(file'[l].msgs)
  BY <1>1 DEF Held
<1> QED BY <1>3, <1>5, <1>6, <1>7 DEF Held

\* The files after an accepted consolidation: the same messages, and a
\* position behind the batch.
LEMMA PositionAdvances ==
    ASSUME Inv, NEW r \in Runner, ChatSucceeds(r)
    PROVE  /\ StoreTypes' /\ Grown /\ Held'
           /\ news = 0 =>
                /\ \A k \in Key : file'[k].msgs = file[k].msgs /\ (k # runner[r].key => file'[k] = file[k])
                /\ file'[runner[r].key].lc >= Source(r).lc + Len(runner[r].batch)
<1> DEFINE k == runner[r].key
           o == runner[r].obj
           n == Len(objs[o].msgs) - Keep
           s == [objs[o] EXCEPT !.lc = n]
<1>1. /\ Live(r) /\ k \in Key /\ runner[r].kind \in Kinds /\ runner[r].pc = "chat" /\ news' = news
      /\ Types /\ References /\ Archived /\ Held /\ Counted
  BY AtWork DEF ChatSucceeds, Inv, References, Conversations
<1>2. CASE runner[r].kind = "archive"
  <2>1. UNCHANGED stores /\ news # 0
    BY <1>1, <1>2, Bounds DEF ChatSucceeds, Archived
  <2> QED BY <1>1, <2>1, StoresKept DEF Types, StoreTypes, Held
<1>3. CASE runner[r].kind = "window"
  <2>1. o \in 1..Len(objs) /\ objs[o].key = k
    BY <1>1, <1>3 DEF References
  <2>2. objs[o] \in Sessions /\ Len(objs[o].msgs) \in Nat
    BY <1>1, <2>1, SessionTyped, LenProperties DEF Types
  <2>3. s \in Sessions /\ s.key = objs[o].key /\ s.msgs = objs[o].msgs /\ s.lc = n /\ n \in Int
    <3>1. n \in Int
      BY <2>2, Bounds, IntegerDifference, ZenonT(60)
    <3> HIDE DEF n
    <3> QED BY <2>2, <3>1 DEF Sessions
  <2>4. Save([objs EXCEPT ![o] = s], o)
    BY <1>3 DEF ChatSucceeds
  <2> HIDE DEF s
  <2>5. /\ StoreTypes' /\ Grown /\ file'[k] = [msgs |-> s.msgs, lc |-> s.lc]
        /\ \A l \in Key : l # k => file'[l] = file[l]
    BY <1>1, <2>1, <2>3, <2>4, Saved DEF Types
  <2>6. ASSUME news = 0
        PROVE  /\ file[k].msgs = objs[o].msgs /\ n \in 0..Len(s.msgs)
               /\ n >= file[k].lc + Len(runner[r].batch)
    <3>1. cache[k] = o /\ o # 0
      BY <1>1, <2>1, <2>6 DEF Held
    <3>2. file[k] = [msgs |-> objs[o].msgs, lc |-> objs[o].lc]
      BY <1>1, <2>6, <3>1 DEF Held
    <3>3. /\ file[k].lc + Len(runner[r].batch) + Keep <= Len(file[k].msgs)
          /\ file[k].lc \in 0..Len(file[k].msgs) /\ Len(runner[r].batch) \in Nat
      BY <1>1, <2>6, BatchFrom DEF Source
    <3>4. Len(file[k].msgs) = Len(objs[o].msgs) /\ Len(s.msgs) = Len(objs[o].msgs)
      BY <2>3, <3>2
    <3>5. n = Len(file[k].msgs) - Keep
      BY <3>4
    <3> HIDE DEF n
    <3>6. n \in 0..Len(file[k].msgs) /\ n >= file[k].lc + Len(runner[r].batch)
      <4> DEFINE len == Len(file[k].msgs)
                 lc == file[k].lc
                 count == Len(runner[r].batch)
      <4>1. len \in Nat /\ lc \in 0..len /\ count \in Nat /\ Keep \in Nat
        BY <2>2, <3>3, <3>4, Bounds
      <4>2. lc + count + Keep <= len /\ n = len - Keep
        BY <3>3, <3>5
      <4> HIDE DEF len, lc, count
      <4>3. n \in 0..len /\ n >= lc + count
        BY <4>1, <4>2
      <4> QED BY <4>3 DEF len, lc, count
    <3>7. file[k].msgs = objs[o].msgs
      BY <3>2
    <3> QED BY <3>4, <3>6, <3>7
  <2>7. Held'
    BY <1>1, <2>1, <2>3, <2>4, <2>6, HeldSaved DEF Types
  <2>8. ASSUME news = 0
        PROVE  /\ \A l \in Key : file'[l].msgs = file[l].msgs
               /\ file'[k].lc >= file[k].lc + Len(runner[r].batch)
    BY <2>3, <2>5, <2>6, <2>8
  <2> QED BY <2>5, <2>7, <2>8 DEF Source
<1> QED BY <1>1, <1>2, <1>3, Bounds

LEMMA InvSucceeds ==
    ASSUME Inv, NEW r \in Runner, ChatSucceeds(r)
    PROVE  Inv'
<1> DEFINE k == runner[r].key
           b == runner[r].batch
<1>1. /\ UNCHANGED <<turn, closing, drain, turns, news, restarts, partial, failed, dropped, cleared>>
      /\ Noted(b) /\ Leaves(r) /\ Live(r) /\ runner[r].pc = "chat"
      /\ UNCHANGED <<memory, writer>> \/ WriteMemory(runner[r].mem \cup Elements(b), k)
  BY Finishing, AtWork DEF Inv, Types, ChatSucceeds
<1>2. TaskTypes' /\ Tabled' /\ Locked' /\ Fewer /\ Quiet /\ \A s \in Runner : s # r => runner'[s] = runner[s]
  BY <1>1, Left DEF Inv, Types
<1>3. TurnsKept
  BY <1>1 DEF TurnsKept
<1>4. b \in Seq(Message) /\ Elements(b) \in SUBSET Message /\ runner[r].mem \in SUBSET Message
  BY RunnerTyped, BatchTyped DEF Inv, Types
<1>5. /\ summaries' \in [Message -> Nat] /\ unnoted' \in SUBSET Message /\ unnoted \subseteq unnoted'
      /\ \A m \in Message : /\ m \in Elements(b) => summaries'[m] <= summaries[m] + 1
                            /\ m \notin Elements(b) => summaries'[m] = summaries[m]
      /\ \A m \in Message : summaries[m] > 0 => summaries'[m] > 0
      /\ \A m \in Message : m \in Elements(b) => summaries'[m] > 0 \/ m \in unnoted'
  BY <1>1, <1>4, Noting DEF Inv, Types
<1>6. StoreTypes' /\ Grown /\ Held'
  BY PositionAdvances
<1>7. memory' \in SUBSET Message /\ writer' \in [Message -> Key \cup {None}]
  <2>1. k \in Key
    BY <1>1 DEF Inv, References
  <2> QED BY <1>1, <1>4, <2>1 DEF WriteMemory, Inv, Types, OtherTypes
<1>8. Types'
  BY <1>1, <1>2, <1>5, <1>6, <1>7 DEF Inv, Types, OtherTypes
<1>9. References' /\ Draining'
  BY <1>1, <1>2, <1>3, <1>6, ReferencesKept, DrainingKept DEF Inv
<1>10. Remembered'
  <2> SUFFICES ASSUME NEW s \in Runner, runner'[s].pc = "chat", NEW m \in memory', writer'[m] = runner'[s].key
               PROVE  m \in runner'[s].mem
    BY DEF Remembered
  <2>1. s # r /\ runner'[s] = runner[s] /\ Live(s)
    BY <1>1, <1>2, Left, AtWork DEF Quiet, Inv, Types, Live
  <2>2. runner[s].key \in Key /\ runner[s].key # k
    BY <1>1, <2>1 DEF Inv, References, Locked
  <2> HIDE DEF k
  <2>3. m \in memory /\ writer'[m] = writer[m]
    BY <1>1, <1>7, <2>1, <2>2 DEF WriteMemory, Inv, Types, OtherTypes
  <2> QED BY <2>1, <2>3 DEF Inv, Remembered
<1>11. Archived'
  <2>1. \A s \in Runner : Live(s) /\ ~Live(s)' => s = r
    BY <1>2 DEF Live
  <2>2. \A s \in Runner : Live(s) /\ ~Live(s)' /\ runner[s].kind = "archive" =>
               \A m \in Elements(runner[s].batch) : m \in Message => summaries'[m] > 0 \/ m \in Excused'
    BY <1>5, <2>1 DEF Excused
  <2>3. \A m \in Message : (summaries[m] > 0 => summaries'[m] > 0) /\ (m \in Excused => m \in Excused')
    BY <1>1, <1>5 DEF Excused
  <2> QED BY <1>1, <1>2, <2>2, <2>3, ArchivedKept DEF Inv
<1>12. CASE news # 0
  <2>1. Conversations' /\ Counted'
    BY <1>1, <1>12 DEF Conversations, Held, Distinct, Numbered, Counted
  <2> QED BY <1>2, <1>8, <1>9, <1>10, <1>11, <2>1 DEF Inv
<1>13. CASE news = 0
  <2>1. /\ \A l \in Key : file'[l].msgs = file[l].msgs /\ (l # k => file'[l] = file[l])
        /\ file'[k].lc >= file[k].lc + Len(b)
    BY <1>13, PositionAdvances DEF Source
  <2>2. /\ runner[r].pc = "chat" /\ Types /\ References /\ Archived /\ Held /\ Counted
    BY <1>1 DEF Inv, Conversations
  <2>3. /\ k \in Key /\ Len(b) \in Nat /\ file[k].lc \in 0..Len(file[k].msgs) /\ Len(file[k].msgs) \in Nat
        /\ \A m \in Elements(b) : \E i \in 1..Len(file[k].msgs) :
              i > file[k].lc /\ i <= file[k].lc + Len(b) /\ m = file[k].msgs[i]
    BY <1>13, <2>2, BatchFrom DEF Source
  <2>4. file'[k].lc \in Int
    BY <1>6, <2>3 DEF StoreTypes, Files
  <2> HIDE DEF k, b
  <2>5. Distinct' /\ Numbered'
    <3>1. \A l \in Key : file'[l].msgs = file[l].msgs
      BY <2>1
    <3>2. Distinct'
      <4> SUFFICES ASSUME NEW l \in Key, NEW m \in Key,
                          NEW i \in 1..Len(file'[l].msgs), NEW j \in 1..Len(file'[m].msgs),
                          file'[l].msgs[i] = file'[m].msgs[j]
                   PROVE  l = m /\ i = j
        BY DEF Distinct
      <4>1. i \in 1..Len(file[l].msgs) /\ j \in 1..Len(file[m].msgs) /\ file[l].msgs[i] = file[m].msgs[j]
        BY <3>1
      <4> QED BY <1>13, <4>1 DEF Inv, Conversations, Distinct
    <3>3. Numbered'
      <4>1. /\ \A l \in Key : \A i \in 1..Len(file[l].msgs) :
                 file[l].msgs[i][1] <= turns /\ \A w \in Worker : turn[w].busy => turn[w].n # file[l].msgs[i][1]
            /\ \A v, w \in Worker : turn[v].busy /\ turn[w].busy /\ turn[v].n = turn[w].n => v = w
        BY <1>13 DEF Inv, Conversations, Numbered
      <4> QED BY <1>1, <3>1, <4>1 DEF Numbered
    <3> QED BY <3>2, <3>3
  <2>6. SummarisedOnce'
    <3> SUFFICES ASSUME NEW m \in Message, summaries'[m] > 1 PROVE m \in partial'
      BY DEF SummarisedOnce
    <3>1. CASE m \in Elements(b)
      <4>1. PICK i \in 1..Len(file[k].msgs) : i > file[k].lc /\ m = file[k].msgs[i]
        BY <2>3, <3>1
      <4>2. summaries[m] = 0 \/ m \in partial
        BY <1>13, <2>3, <4>1 DEF Inv, Counted
      <4> QED BY <1>1, <1>5, <3>1, <4>2
    <3>2. CASE m \notin Elements(b)
      BY <1>1, <1>5, <1>13, <3>2 DEF Inv, Counted, SummarisedOnce
    <3> QED BY <3>1, <3>2
  <2>7. ASSUME NEW m \in Message, summaries'[m] > 0
        PROVE  m[1] <= turns' /\ \A w \in Worker : turn'[w].busy => turn'[w].n # m[1]
    <3>1. CASE m \in Elements(b)
      <4>1. PICK i \in 1..Len(file[k].msgs) : m = file[k].msgs[i]
        BY <2>3, <3>1
      <4> QED BY <1>1, <1>13, <2>3, <4>1 DEF Inv, Conversations, Numbered
    <3>2. CASE m \notin Elements(b)
      BY <1>1, <1>5, <1>13, <2>7, <3>2 DEF Inv, Counted
    <3> QED BY <3>1, <3>2
  <2>8. ASSUME NEW l \in Key, NEW i \in 1..Len(file'[l].msgs), i > file'[l].lc
        PROVE  summaries'[file'[l].msgs[i]] = 0 \/ file'[l].msgs[i] \in partial'
    <3>1. file'[l].msgs[i] = file[l].msgs[i] /\ i \in 1..Len(file[l].msgs) /\ file[l].lc \in Int
      BY <2>1, FileTyped DEF Inv, Types
    <3>2. file[l].msgs[i] \in Message
      BY <3>1, FileTyped, ElementOfSeq DEF Inv, Types
    <3>3. i > file[l].lc
      BY <2>1, <2>3, <2>4, <2>8, <3>1
    <3>4. file[l].msgs[i] \notin Elements(b)
      <4> SUFFICES ASSUME file[l].msgs[i] \in Elements(b) PROVE FALSE
        OBVIOUS
      <4>1. PICK j \in 1..Len(file[k].msgs) : j <= file[k].lc + Len(b) /\ file[l].msgs[i] = file[k].msgs[j]
        BY <2>3
      <4>2. l = k /\ i = j
        BY <1>13, <2>3, <3>1, <4>1 DEF Inv, Conversations, Distinct
      <4> QED BY <2>1, <2>3, <2>4, <2>8, <4>1, <4>2
    <3>5. summaries[file[l].msgs[i]] = 0 \/ file[l].msgs[i] \in partial
      BY <1>13, <3>1, <3>3 DEF Inv, Counted
    <3> QED BY <1>1, <1>5, <3>1, <3>2, <3>4, <3>5
  <2>9. ASSUME NEW s \in Runner, runner'[s].pc = "chat"
        PROVE  runner'[s] = runner[s] /\ file'[runner[s].key] = file[runner[s].key]
    <3>1. s # r /\ runner'[s] = runner[s] /\ Live(s)
      BY <1>1, <1>2, <2>9, Left, AtWork DEF Quiet, Inv, Types, Live
    <3>2. runner[s].key \in Key /\ runner[s].key # k
      BY <1>1, <2>9, <3>1 DEF Inv, References, Locked, k
    <3> QED BY <2>1, <3>1, <3>2
  <2>10. Counted'
    BY <1>1, <1>13, <2>6, <2>7, <2>8, <2>9, SMTT(60) DEF Inv, Counted
  <2> QED BY <1>2, <1>6, <1>8, <1>9, <1>10, <1>11, <2>5, <2>10 DEF Inv, Conversations
<1> QED BY <1>12, <1>13

\* The files after a turn: question and answer at the end of one of them.
LEMMA TurnSaved ==
    ASSUME Inv, NEW w \in Worker, TurnEnd(w)
    PROVE  /\ StoreTypes' /\ Grown /\ Held' /\ turn[w].key \in Key /\ turn[w].n \in 1..turns
           /\ news = 0 =>
                /\ file'[turn[w].key] = [msgs |-> file[turn[w].key].msgs \o Pair(turn[w].n), lc |-> file[turn[w].key].lc]
                /\ \A k \in Key : k # turn[w].key => file'[k] = file[k]
<1> DEFINE k == turn[w].key
           o == turn[w].obj
           n == turn[w].n
           pair == Pair(n)
           old == objs[o].msgs
           s == [objs[o] EXCEPT !.msgs = old \o pair]
<1>1. /\ k \in Key /\ n \in 1..turns /\ turns \in 0..MaxTurns /\ o \in 1..Len(objs) /\ objs[o].key = k /\ news' = news
      /\ Types /\ References /\ Held
  BY DEF TurnEnd, Inv, References, Conversations, Types, OtherTypes
<1>2. objs[o] \in Sessions /\ objs[o].msgs \in Seq(Message) /\ objs[o].lc \in Int
  BY <1>1, SessionTyped DEF Types
<1>3. pair \in Seq(Message) /\ Len(pair) = 2
  <2>1. n \in 1..MaxTurns
    BY <1>1, Bounds
  <2> QED BY <2>1, PairTyped
<1>4. old \o pair \in Seq(Message) /\ Len(old \o pair) = Len(old) + 2 /\ Len(old) \in Nat
  <2> HIDE DEF pair, old
  <2>1. old \in Seq(Message)
    BY <1>2 DEF old
  <2>2. old \o pair \in Seq(Message) /\ Len(old \o pair) = Len(old) + Len(pair)
    BY <1>3, <2>1, ConcatProperties
  <2> QED BY <1>3, <2>1, <2>2, LenProperties
<1>5. s \in Sessions /\ s.key = objs[o].key /\ s.msgs = old \o pair /\ s.lc = objs[o].lc
  <2> HIDE DEF pair, old
  <2> QED BY <1>2, <1>4 DEF Sessions
<1>6. Save([objs EXCEPT ![o] = s], o)
  BY DEF TurnEnd
<1> HIDE DEF s, k, n, o
<1>7. /\ StoreTypes' /\ Grown /\ file'[k] = [msgs |-> s.msgs, lc |-> s.lc]
      /\ \A l \in Key : l # k => file'[l] = file[l]
  <2>1. s.key = k
    BY <1>1, <1>5
  <2> QED BY <1>1, <1>5, <1>6, <2>1, Saved, ZenonT(60) DEF Types
<1>8. ASSUME news = 0
      PROVE  file[k] = [msgs |-> objs[o].msgs, lc |-> objs[o].lc] /\ s.lc \in 0..Len(s.msgs)
  <2>1. cache[k] = o /\ o # 0
    BY <1>1, <1>8 DEF Held
  <2>2. file[k] = [msgs |-> objs[o].msgs, lc |-> objs[o].lc] /\ file[k].lc \in 0..Len(file[k].msgs)
    BY <1>1, <1>8, <2>1 DEF Held
  <2>3. objs[o].lc \in 0..Len(old)
    BY <2>2
  <2> HIDE DEF old, pair
  <2>4. s.lc \in 0..Len(s.msgs)
    BY <1>4, <1>5, <2>3
  <2> QED BY <2>2, <2>4
<1>9. Held'
  BY <1>1, <1>5, <1>6, <1>8, HeldSaved DEF Types
<1>10. news = 0 => file'[k] = [msgs |-> file[k].msgs \o Pair(n), lc |-> file[k].lc]
  <2> SUFFICES ASSUME news = 0 PROVE file'[k] = [msgs |-> file[k].msgs \o Pair(n), lc |-> file[k].lc]
    OBVIOUS
  <2>1. file[k].msgs = old /\ file[k].lc = objs[o].lc
    BY <1>8
  <2>2. s.msgs = file[k].msgs \o Pair(n) /\ s.lc = file[k].lc
    BY <1>5, <2>1
  <2> QED BY <1>7, <2>2
<1> QED BY <1>1, <1>7, <1>9, <1>10 DEF k, n

LEMMA InvTurnEnd ==
    ASSUME Inv, NEW w \in Worker, TurnEnd(w)
    PROVE  Inv'
<1> DEFINE k == turn[w].key
           n == turn[w].n
           L == Len(file[k].msgs)
<1>1. /\ UNCHANGED <<memory, tasks, closing, drain, turns, news, restarts, ghosts, cleared, writer>>
      /\ turn' = [turn EXCEPT ![w] = NoTurn] /\ turn[w].busy
  BY DEF TurnEnd
<1>2. turn' \in [Worker -> Turns] /\ TurnsKept /\ ~turn'[w].busy
  BY <1>1, NothingTyped DEF TurnsKept, Inv, Types, OtherTypes
<1>3. TaskTypes' /\ Tabled' /\ Locked' /\ Fewer /\ Quiet
  BY <1>1, Undisturbed DEF Inv, Types
<1>4. StoreTypes' /\ Grown /\ Held' /\ k \in Key /\ n \in 1..turns
  BY TurnSaved
<1>5. Types'
  BY <1>1, <1>2, <1>3, <1>4 DEF Inv, Types, OtherTypes
<1>6. References' /\ Draining' /\ Remembered'
  BY <1>1, <1>2, <1>3, <1>4, ReferencesKept, DrainingKept, RememberedKept DEF Inv
<1>7. Archived'
  <2>1. \A r \in Runner : Live(r)' = Live(r)
    BY <1>1 DEF Live
  <2> QED BY <1>1, <1>3, <2>1, ArchivedKept DEF Inv, Excused
<1>8. CASE news # 0
  <2>1. Conversations' /\ Counted'
    BY <1>1, <1>8 DEF Conversations, Held, Distinct, Numbered, Counted
  <2> QED BY <1>3, <1>5, <1>6, <1>7, <2>1 DEF Inv
<1>9. CASE news = 0
  <2>1. /\ file'[k] = [msgs |-> file[k].msgs \o Pair(n), lc |-> file[k].lc]
        /\ \A l \in Key : l # k => file'[l] = file[l]
    BY <1>9, TurnSaved
  <2>2. file[k].msgs \in Seq(Message) /\ L \in Nat /\ file[k].lc \in 0..L
    BY <1>4, <1>9, FileTyped DEF Inv, Types, Conversations, Held
  <2>3. /\ Pair(n) \in Seq(Message) /\ Len(Pair(n)) = 2
        /\ Pair(n)[1] = <<n, "user">> /\ Pair(n)[2] = <<n, "assistant">>
    <3>1. n \in 1..MaxTurns
      BY <1>4, Bounds DEF Inv, Types, OtherTypes
    <3> QED BY <3>1, PairTyped
  <2> DEFINE t == file[k].msgs \o Pair(n)
  <2>4. Len(t) = L + 2 /\ \A i \in 1..L + 2 : t[i] = IF i <= L THEN file[k].msgs[i] ELSE Pair(n)[i - L]
    <3>1. /\ Len(t) = L + Len(Pair(n))
          /\ \A i \in 1..L + Len(Pair(n)) : t[i] = IF i <= L THEN file[k].msgs[i] ELSE Pair(n)[i - L]
      BY <2>2, <2>3, ConcatProperties
    <3> QED BY <2>3, <3>1
  <2> HIDE DEF t, L, k, n
  <2>5. file'[k].msgs = t /\ file'[k].lc = file[k].lc
    BY <2>1 DEF t
  <2>6. ASSUME NEW i \in 1..Len(file'[k].msgs)
        PROVE  \/ i \in 1..L /\ file'[k].msgs[i] = file[k].msgs[i]
               \/ i = L + 1 /\ file'[k].msgs[i] = <<n, "user">>
               \/ i = L + 2 /\ file'[k].msgs[i] = <<n, "assistant">>
    <3>1. i \in 1..L + 2 /\ t[i] = IF i <= L THEN file[k].msgs[i] ELSE Pair(n)[i - L]
      BY <2>4, <2>5
    <3>2. CASE i <= L
      BY <2>2, <2>5, <3>1, <3>2
    <3>3. CASE i = L + 1
      <4>1. t[i] = Pair(n)[i - L] /\ i - L = 1
        BY <2>2, <3>1, <3>3
      <4> QED BY <2>3, <2>5, <3>3, <4>1
    <3>4. CASE i = L + 2
      <4>1. t[i] = Pair(n)[i - L] /\ i - L = 2
        BY <2>2, <3>1, <3>4
      <4> QED BY <2>3, <2>5, <3>4, <4>1
    <3> QED BY <2>2, <3>1, <3>2, <3>3, <3>4
  <2>7. ASSUME NEW l \in Key, NEW i \in 1..Len(file'[l].msgs)
        PROVE  \/ i \in 1..Len(file[l].msgs) /\ file'[l].msgs[i] = file[l].msgs[i]
               \/ l = k /\ i = L + 1 /\ file'[l].msgs[i] = <<n, "user">>
               \/ l = k /\ i = L + 2 /\ file'[l].msgs[i] = <<n, "assistant">>
    BY <2>1, <2>6 DEF L
  <2>8. \A l \in Key : \A i \in 1..Len(file[l].msgs) : file[l].msgs[i][1] # n
    BY <1>1, <1>4, <1>9 DEF Inv, Conversations, Numbered, n
  <2>9. Distinct'
    <3> SUFFICES ASSUME NEW l \in Key, NEW m \in Key,
                        NEW i \in 1..Len(file'[l].msgs), NEW j \in 1..Len(file'[m].msgs),
                        file'[l].msgs[i] = file'[m].msgs[j]
                 PROVE  l = m /\ i = j
      BY DEF Distinct
    <3>1. CASE i \in 1..Len(file[l].msgs) /\ file'[l].msgs[i] = file[l].msgs[i]
      <4>1. file'[m].msgs[j][1] # n
        BY <2>8, <3>1
      <4>2. j \in 1..Len(file[m].msgs) /\ file'[m].msgs[j] = file[m].msgs[j]
        BY <2>7, <4>1
      <4>3. file[l].msgs[i] = file[m].msgs[j]
        BY <3>1, <4>2
      <4>4. Distinct
        BY DEF Inv, Conversations
      <4> QED BY <1>9, <3>1, <4>2, <4>3, <4>4 DEF Distinct
    <3>2. CASE /\ l = k
               /\ \/ i = L + 1 /\ file'[l].msgs[i] = <<n, "user">>
                  \/ i = L + 2 /\ file'[l].msgs[i] = <<n, "assistant">>
      <4>1. file'[m].msgs[j][1] = n
        BY <3>2
      <4>2. ~(j \in 1..Len(file[m].msgs) /\ file'[m].msgs[j] = file[m].msgs[j])
        BY <2>8, <4>1
      <4>3. /\ m = k
            /\ \/ j = L + 1 /\ file'[m].msgs[j] = <<n, "user">>
               \/ j = L + 2 /\ file'[m].msgs[j] = <<n, "assistant">>
        BY <2>7, <4>2
      <4>4. "user" # "assistant" /\ <<n, "user">> # <<n, "assistant">>
        OBVIOUS
      <4> QED BY <3>2, <4>3, <4>4
    <3> QED BY <2>7, <3>1, <3>2
  <2>10. Numbered'
    <3>1. ASSUME NEW l \in Key, NEW i \in 1..Len(file'[l].msgs)
          PROVE  /\ file'[l].msgs[i][1] <= turns'
                 /\ \A v \in Worker : turn'[v].busy => turn'[v].n # file'[l].msgs[i][1]
      <4>1. CASE i \in 1..Len(file[l].msgs) /\ file'[l].msgs[i] = file[l].msgs[i]
        BY <1>1, <1>2, <1>9, <4>1 DEF Inv, Conversations, Numbered, TurnsKept
      <4>2. CASE file'[l].msgs[i][1] = n
        <5>1. n <= turns'
          BY <1>1, <1>4 DEF n, Inv, Types, OtherTypes
        <5>2. ASSUME NEW v \in Worker, turn'[v].busy
              PROVE  turn'[v].n # n
          <6>1. v # w /\ turn[v].busy /\ turn'[v].n = turn[v].n
            BY <1>2, <5>2 DEF TurnsKept
          <6> QED BY <1>1, <1>9, <6>1 DEF Inv, Conversations, Numbered, n
        <5> QED BY <4>2, <5>1, <5>2
      <4> QED BY <2>7, <4>1, <4>2
    <3>2. \A u, v \in Worker : turn'[u].busy /\ turn'[v].busy /\ turn'[u].n = turn'[v].n => u = v
      BY <1>2, <1>9 DEF Inv, Conversations, Numbered, TurnsKept
    <3> QED BY <3>1, <3>2 DEF Numbered
  <2>11. Counted'
    <3>1. SummarisedOnce'
      BY <1>1, <1>9 DEF Inv, Counted, SummarisedOnce
    <3>2. \A m \in Message : summaries'[m] > 0 =>
              m[1] <= turns' /\ \A v \in Worker : turn'[v].busy => turn'[v].n # m[1]
      BY <1>1, <1>2, <1>9 DEF Inv, Counted, TurnsKept
    <3>3. ASSUME NEW l \in Key, NEW i \in 1..Len(file'[l].msgs), i > file'[l].lc
          PROVE  summaries'[file'[l].msgs[i]] = 0 \/ file'[l].msgs[i] \in partial'
      <4>1. CASE i \in 1..Len(file[l].msgs) /\ file'[l].msgs[i] = file[l].msgs[i]
        <5>1. i > file[l].lc
          BY <2>1, <2>5, <3>3
        <5> QED BY <1>1, <1>9, <4>1, <5>1 DEF Inv, Counted
      <4>2. CASE file'[l].msgs[i] \in {<<n, "user">>, <<n, "assistant">>}
        <5> DEFINE m == file'[l].msgs[i]
        <5>1. m \in Message /\ m[1] = n
          BY <1>4, <4>2, Bounds DEF Message, n, Inv, Types, OtherTypes
        <5>2. ~(summaries[m] > 0)
          BY <1>1, <1>9, <5>1 DEF Inv, Counted, n
        <5>3. summaries[m] \in Nat
          BY <5>1 DEF Inv, Types, OtherTypes
        <5> QED BY <1>1, <5>2, <5>3
      <4> QED BY <2>7, <4>1, <4>2
    <3>4. ASSUME NEW r \in Runner, runner'[r].pc = "chat"
          PROVE  LET f == file'[runner'[r].key]
                     batch == runner'[r].batch
                 IN  /\ f.lc + Len(batch) + Keep <= Len(f.msgs)
                     /\ \A i \in 1..Len(batch) : batch[i] = f.msgs[f.lc + i]
      <4> DEFINE l == runner[r].key
                 b == runner[r].batch
      <4>1. runner'[r] = runner[r] /\ l \in Key /\ Len(b) \in Nat
        BY <1>1, <3>4, AtWork, RunnerTyped, LenProperties DEF Inv, References, Types
      <4>2. file[l].lc + Len(b) + Keep <= Len(file[l].msgs) /\ \A i \in 1..Len(b) : b[i] = file[l].msgs[file[l].lc + i]
        BY <1>1, <1>9, <3>4 DEF Inv, Counted
      <4> HIDE DEF l, b
      <4>3. CASE l # k
        BY <2>1, <4>1, <4>2, <4>3 DEF l, b
      <4>4. CASE l = k
        <5>1. file'[l].lc = file[l].lc /\ Len(file'[l].msgs) = L + 2 /\ Len(file[l].msgs) = L
          BY <2>4, <2>5, <4>4 DEF L
        <5> DEFINE lc == file[l].lc
                   count == Len(b)
        <5>2. lc \in Nat /\ count \in Nat /\ Keep \in Nat /\ lc + count + Keep <= L
          BY <2>2, <4>1, <4>2, <4>4, <5>1, Bounds
        <5>3. \A i \in 1..count : b[i] = file[l].msgs[lc + i]
          BY <4>2
        <5> HIDE DEF lc, count
        <5>4. lc + count + Keep <= L + 2
          BY <2>2, <5>2
        <5>5. ASSUME NEW i \in 1..count
              PROVE  b[i] = file'[l].msgs[lc + i]
          <6>1. lc + i \in 1..L + 2 /\ lc + i <= L
            BY <2>2, <5>2
          <6>2. t[lc + i] = file[k].msgs[lc + i]
            BY <2>4, <6>1
          <6> QED BY <2>5, <4>4, <5>3, <6>2
        <5> QED BY <4>1, <5>1, <5>4, <5>5 DEF lc, count, l, b
      <4> QED BY <4>3, <4>4
    <3> QED BY <3>1, <3>2, <3>3, <3>4 DEF Counted
  <2> QED BY <1>3, <1>4, <1>5, <1>6, <1>7, <2>9, <2>10, <2>11 DEF Inv, Conversations
<1> QED BY <1>8, <1>9

\* The session get_or_create returns.
LEMMA Opening ==
    ASSUME StoreTypes, References, NEW k \in Key
    PROVE  /\ Opened(k) \in Seq(Sessions) /\ Handle(k) \in 1..Len(Opened(k)) /\ Opened(k)[Handle(k)].key = k
           /\ \A o \in 1..Len(objs) : o \in 1..Len(Opened(k)) /\ Opened(k)[o] = objs[o]
           /\ \A o \in 1..Len(Opened(k)) : o \in 1..Len(objs) \/ o = Handle(k)
           /\ cache[k] # 0 => Handle(k) = cache[k]
           /\ cache[k] = 0 => /\ Handle(k) \notin 1..Len(objs)
                              /\ Opened(k)[Handle(k)] = [key |-> k, msgs |-> file[k].msgs, lc |-> file[k].lc]
<1>1. objs \in Seq(Sessions) /\ Len(objs) \in Nat
  BY LenProperties DEF StoreTypes
<1>2. CASE cache[k] # 0
  BY <1>1, <1>2 DEF Opened, Handle, References
<1>3. CASE cache[k] = 0
  <2> DEFINE s == [key |-> k, msgs |-> file[k].msgs, lc |-> file[k].lc]
  <2>1. s \in Sessions /\ s.key = k
    BY FileTyped DEF Sessions
  <2> HIDE DEF s
  <2>2. /\ Append(objs, s) \in Seq(Sessions) /\ Len(Append(objs, s)) = Len(objs) + 1
        /\ \A o \in 1..Len(objs) : Append(objs, s)[o] = objs[o]
        /\ Append(objs, s)[Len(objs) + 1] = s
    BY <1>1, <2>1, AppendProperties
  <2>3. Opened(k) = Append(objs, s) /\ Handle(k) = Len(objs) + 1
    BY <1>3 DEF Opened, Handle, s
  <2>4. \A o \in 1..Len(objs) : o \in 1..Len(Opened(k)) /\ Opened(k)[o] = objs[o]
    BY <1>1, <2>2, <2>3
  <2>5. \A o \in 1..Len(Opened(k)) : o \in 1..Len(objs) \/ o = Handle(k)
    BY <1>1, <2>2, <2>3
  <2>6. Handle(k) \in 1..Len(Opened(k)) /\ Handle(k) \notin 1..Len(objs) /\ Handle(k) # 0
    BY <1>1, <2>2, <2>3
  <2> QED BY <1>3, <2>1, <2>2, <2>3, <2>4, <2>5, <2>6 DEF s
<1> QED BY <1>2, <1>3

\* The tasks after a step that may have placed one.
LEMMA Placing ==
    ASSUME TaskTypes, Tabled, Locked, References, NEW f \in Runners, f.key \in Key, f.kind \in Kinds,
           f.pc = "created", UNCHANGED tasks \/ \E r \in Runner : Placed(r, f)
    PROVE  /\ TaskTypes' /\ Tabled' /\ Locked' /\ Quiet
           /\ \A s \in Runner : Live(s) => Live(s)' /\ runner'[s] = runner[s]
           /\ \A s \in Runner : Live(s)' => (Live(s) /\ runner'[s] = runner[s]) \/ runner'[s] = f
<1>1. CASE UNCHANGED tasks
  <2>1. TaskTypes' /\ Tabled' /\ Locked' /\ Quiet
    BY <1>1, Undisturbed
  <2>2. \A s \in Runner : Live(s)' <=> Live(s)
    BY <1>1 DEF Live
  <2> QED BY <1>1, <2>1, <2>2
<1>2. CASE \E r \in Runner : Placed(r, f)
  <2>1. PICK r \in Runner : Placed(r, f)
    BY <1>2
  <2>2. /\ TaskTypes' /\ Tabled' /\ Locked' /\ runner'[r] = f
        /\ \A s \in Runner : s # r => runner'[s] = runner[s] /\ (Live(s)' <=> Live(s))
        /\ ~Live(r)
    BY <2>1, Entered
  <2> QED BY <2>2 DEF Quiet
<1> QED BY <1>1, <1>2

LEMMA InvTurnStart ==
    ASSUME Inv, NEW w \in Worker, NEW k \in Key, NEW special \in BOOLEAN, TurnStart(w, k, special)
    PROVE  Inv'
<1> DEFINE o == Handle(k)
           new == [busy |-> TRUE, key |-> k, obj |-> o, n |-> turns + 1, edited |-> FALSE, cancel |-> FALSE]
           f == [Idle EXCEPT !.pc = "created", !.kind = "window", !.key = k, !.obj = o]
<1>1. /\ ~closing /\ ~turn[w].busy /\ turns < MaxTurns /\ turns' = turns + 1
      /\ turn' = [turn EXCEPT ![w] = new] /\ objs' = Opened(k) /\ cache' = [cache EXCEPT ![k] = o]
      /\ UNCHANGED <<file, memory, lock, closing, drain, news, restarts, ghosts, cleared, writer>>
  BY DEF TurnStart, Ready
<1>2. /\ objs' \in Seq(Sessions) /\ o \in 1..Len(objs') /\ objs'[o].key = k
      /\ \A p \in 1..Len(objs) : p \in 1..Len(objs') /\ objs'[p] = objs[p]
      /\ \A p \in 1..Len(objs') : p \in 1..Len(objs) \/ p = o
      /\ cache[k] # 0 => o = cache[k]
      /\ cache[k] = 0 => o \notin 1..Len(objs) /\ objs'[o] = [key |-> k, msgs |-> file[k].msgs, lc |-> file[k].lc]
  BY <1>1, Opening DEF Inv, Types
<1>3. o \in Nat /\ o # 0 /\ turns \in 0..MaxTurns /\ turns' \in 1..MaxTurns /\ turns' = turns + 1
  <2>1. Len(objs') \in Nat
    BY <1>2, LenProperties
  <2> QED BY <1>1, <1>2, <2>1, Bounds DEF Inv, Types, OtherTypes
<1> HIDE DEF o
<1>4. /\ f \in Runners /\ f.pc = "created" /\ f.kind = "window" /\ f.key = k /\ f.obj = o
      /\ new \in Turns /\ new.busy /\ new.key = k /\ new.obj = o /\ new.n = turns'
  <2>1. f \in Runners /\ f.pc = "created" /\ f.kind = "window" /\ f.key = k /\ f.obj = o
    BY <1>3, NothingTyped, Bounds DEF Runners
  <2>2. new \in Turns /\ new.key = k /\ new.obj = o /\ new.n = turns'
    BY <1>1, <1>3, Bounds DEF Turns
  <2>3. new.busy
    OBVIOUS
  <2> QED BY <2>1, <2>2, <2>3
<1>5. UNCHANGED tasks \/ \E r \in Runner : Placed(r, f)
  <2>1. \/ Schedule(k, "window", f)
        \/ UNCHANGED <<runner, table, requested>>
    BY DEF TurnStart, o
  <2> HIDE DEF f
  <2>2. CASE Schedule(k, "window", f)
    BY <1>1, <1>4, <2>2, Scheduling, Bounds DEF Inv, Types
  <2> QED BY <1>1, <2>1, <2>2
<1> HIDE DEF new, f
<1>6. /\ TaskTypes' /\ Tabled' /\ Locked' /\ Quiet
      /\ \A s \in Runner : Live(s) => Live(s)' /\ runner'[s] = runner[s]
      /\ \A s \in Runner : Live(s)' => (Live(s) /\ runner'[s] = runner[s]) \/ runner'[s] = f
  BY <1>4, <1>5, Placing, Bounds DEF Inv, Types
<1>7. /\ turn' \in [Worker -> Turns] /\ turn'[w] = new
      /\ \A v \in Worker : v # w => turn'[v] = turn[v]
  BY <1>1, <1>4 DEF Inv, Types, OtherTypes
<1>8. cache' \in [Key -> Nat] /\ cache'[k] = o /\ \A l \in Key : l # k => cache'[l] = cache[l]
  BY <1>1, <1>3 DEF Inv, Types, StoreTypes
<1>9. Types'
  <2>1. turns' \in 0..MaxTurns
    BY <1>3
  <2> QED BY <1>1, <1>2, <1>6, <1>7, <1>8, <2>1 DEF Inv, Types, StoreTypes, OtherTypes
<1>10. References'
  <2>1. ASSUME NEW l \in Key, cache'[l] # 0
        PROVE  cache'[l] \in 1..Len(objs') /\ objs'[cache'[l]].key = l
    BY <1>2, <1>8, <2>1 DEF Inv, References
  <2>2. ASSUME NEW v \in Worker, turn'[v].busy
        PROVE  /\ turn'[v].key \in Key /\ turn'[v].n \in 1..turns'
               /\ turn'[v].obj \in 1..Len(objs') /\ objs'[turn'[v].obj].key = turn'[v].key
    <3>1. CASE v = w
      BY <1>2, <1>3, <1>4, <1>7, <3>1
    <3>2. CASE v # w
      <4>1. /\ turn'[v] = turn[v] /\ turn[v].key \in Key /\ turn[v].n \in 1..turns
            /\ turn[v].obj \in 1..Len(objs) /\ objs[turn[v].obj].key = turn[v].key
        BY <1>7, <2>2, <3>2 DEF Inv, References
      <4>2. turn[v].n \in 1..turns'
        BY <1>3, <4>1
      <4> QED BY <1>2, <4>1, <4>2
    <3> QED BY <3>1, <3>2
  <2>3. ASSUME NEW r \in Runner, Live(r)'
        PROVE  /\ runner'[r].key \in Key /\ runner'[r].kind \in Kinds
               /\ runner'[r].kind = "window" =>
                     runner'[r].obj \in 1..Len(objs') /\ objs'[runner'[r].obj].key = runner'[r].key
    BY <1>2, <1>4, <1>6, <2>3, Bounds DEF Inv, References
  <2> QED BY <2>1, <2>2, <2>3 DEF References
<1>11. Draining'
  BY <1>1 DEF Inv, Draining
<1>12. Remembered'
  BY <1>1, <1>6, RememberedKept DEF Inv
<1>13. Archived'
  <2>1. news' = 0 => cleared' = {} /\ \A r \in Runner : Live(r)' => runner'[r].kind = "window"
    BY <1>1, <1>4, <1>6 DEF Inv, Archived
  <2>2. ASSUME NEW m \in cleared'
        PROVE  \/ summaries'[m] > 0 \/ m \in Excused'
               \/ \E r \in Runner : Live(r)' /\ runner'[r].kind = "archive" /\ m \in Elements(runner'[r].batch)
    BY <1>1, <1>6, <2>2 DEF Inv, Archived, Excused
  <2> QED BY <2>1, <2>2 DEF Archived
<1>14. CASE news # 0
  <2>1. Conversations' /\ Counted'
    BY <1>1, <1>14 DEF Conversations, Held, Distinct, Numbered, Counted
  <2> QED BY <1>6, <1>9, <1>10, <1>11, <1>12, <1>13, <2>1 DEF Inv
<1>15. CASE news = 0
  <2>1. \A l \in Key : \A i \in 1..Len(file[l].msgs) :
            file[l].msgs[i] \in Message /\ file[l].msgs[i][1] \in 1..MaxTurns /\ file[l].msgs[i][1] <= turns
    BY <1>15, FileTyped, ElementOfSeq, MessageNumber DEF Inv, Types, Conversations, Numbered
  <2>2. \A v \in Worker : turn[v].busy => turn[v].n \in 1..turns
    BY DEF Inv, References
  <2>3. Distinct'
    BY <1>1 DEF Inv, Conversations, Distinct
  <2>4. Numbered'
    <3>1. ASSUME NEW l \in Key, NEW i \in 1..Len(file'[l].msgs)
          PROVE  /\ file'[l].msgs[i][1] <= turns'
                 /\ \A v \in Worker : turn'[v].busy => turn'[v].n # file'[l].msgs[i][1]
      <4> DEFINE x == file[l].msgs[i][1]
      <4>1. file'[l].msgs[i][1] = x /\ x \in 1..MaxTurns /\ x <= turns
        BY <1>1, <2>1
      <4>2. \A v \in Worker : turn[v].busy => turn[v].n # x
        BY <1>1, <1>15 DEF Inv, Conversations, Numbered
      <4> HIDE DEF x
      <4>3. x <= turns' /\ turns' # x
        BY <1>3, <4>1
      <4>4. \A v \in Worker : turn'[v].busy => turn'[v].n # x
        BY <1>4, <1>7, <4>2, <4>3
      <4> QED BY <4>1, <4>3, <4>4
    <3>2. ASSUME NEW u \in Worker, NEW v \in Worker, turn'[u].busy, turn'[v].busy, turn'[u].n = turn'[v].n
          PROVE  u = v
      <4>1. \A x \in Worker : turn[x].busy => turn[x].n # turns'
        BY <1>3, <2>2
      <4> QED BY <1>4, <1>7, <1>15, <3>2, <4>1 DEF Inv, Conversations, Numbered
    <3> QED BY <3>1, <3>2 DEF Numbered
  <2>5. Held'
    <3>1. ASSUME NEW p \in 1..Len(objs') PROVE cache'[objs'[p].key] = p
      <4>1. CASE p = o
        BY <1>2, <1>8, <4>1
      <4>2. CASE p # o
        <5>1. p \in 1..Len(objs) /\ objs'[p] = objs[p] /\ cache[objs[p].key] = p /\ objs[p].key \in Key /\ p # 0
          BY <1>2, <1>15, <4>2, SessionTyped DEF Inv, Types, Conversations, Held
        <5>2. objs[p].key # k
          BY <1>2, <4>2, <5>1
        <5> QED BY <1>8, <5>1, <5>2
      <4> QED BY <4>1, <4>2
    <3>2. ASSUME NEW l \in Key, cache'[l] # 0
          PROVE  file'[l] = [msgs |-> objs'[cache'[l]].msgs, lc |-> objs'[cache'[l]].lc]
      <4>1. CASE cache[l] # 0
        <5>1. cache'[l] = cache[l] /\ cache[l] \in 1..Len(objs)
          BY <1>2, <1>8, <4>1 DEF Inv, References
        <5>2. file[l] = [msgs |-> objs[cache[l]].msgs, lc |-> objs[cache[l]].lc]
          BY <1>15, <4>1 DEF Inv, Conversations, Held
        <5> QED BY <1>1, <1>2, <5>1, <5>2
      <4>2. CASE cache[l] = 0
        <5>1. l = k /\ cache'[l] = o /\ objs'[o].msgs = file[l].msgs /\ objs'[o].lc = file[l].lc
          BY <1>2, <1>8, <3>2, <4>2
        <5>2. file[l] = [msgs |-> file[l].msgs, lc |-> file[l].lc]
          BY FileTyped DEF Inv, Types
        <5> QED BY <1>1, <5>1, <5>2
      <4> QED BY <4>1, <4>2
    <3>3. \A l \in Key : file'[l].lc \in 0..Len(file'[l].msgs)
      BY <1>1, <1>15 DEF Inv, Conversations, Held
    <3> QED BY <3>1, <3>2, <3>3 DEF Held
  <2>6. Counted'
    <3>1. SummarisedOnce'
      BY <1>1, <1>15 DEF Inv, Counted, SummarisedOnce
    <3>2. ASSUME NEW m \in Message, summaries'[m] > 0
          PROVE  m[1] <= turns' /\ \A v \in Worker : turn'[v].busy => turn'[v].n # m[1]
      <4> DEFINE x == m[1]
      <4>1. x \in 1..MaxTurns
        BY MessageNumber
      <4>2. x <= turns /\ \A v \in Worker : turn[v].busy => turn[v].n # x
        BY <1>1, <1>15, <3>2 DEF Inv, Counted
      <4> HIDE DEF x
      <4>3. x <= turns' /\ turns' # x
        BY <1>3, <4>1, <4>2
      <4>4. \A v \in Worker : turn'[v].busy => turn'[v].n # x
        BY <1>4, <1>7, <4>2, <4>3
      <4> QED BY <4>3, <4>4 DEF x
    <3>3. \A r \in Runner : runner'[r].pc = "chat" => runner'[r] = runner[r]
      BY <1>6 DEF Quiet
    <3> QED BY <1>1, <1>15, <3>1, <3>2, <3>3, SMTT(60) DEF Inv, Counted
  <2> QED BY <1>6, <1>9, <1>10, <1>11, <1>12, <1>13, <2>3, <2>4, <2>5, <2>6 DEF Inv, Conversations
<1> QED BY <1>14, <1>15

LEMMA InvNewSession ==
    ASSUME Inv, NEW w \in Worker, NEW k \in Key, NewSession(w, k)
    PROVE  Inv'
<1> DEFINE o == Handle(k)
           os == Opened(k)
           old == os[o].msgs
           none == <<>>
           zero == 0
           s == [os[o] EXCEPT !.msgs = none, !.lc = zero]
           f == [Idle EXCEPT !.pc = "created", !.kind = "archive", !.key = k, !.batch = old]
<1>1. /\ ~closing /\ news < MaxNews /\ news' = news + 1
      /\ objs' = [os EXCEPT ![o].msgs = <<>>, ![o].lc = 0]
      /\ file' = [file EXCEPT ![k] = Empty] /\ cache' = [cache EXCEPT ![k] = 0]
      /\ Schedule(k, "archive", f) /\ cleared' = cleared \cup Elements(old)
      /\ dropped' = (IF Live(table[<<k, "archive">>]) THEN dropped \cup Elements(old) ELSE dropped)
      /\ UNCHANGED <<memory, turn, lock, closing, drain, turns, restarts, summaries, partial, failed, unnoted, writer>>
  BY DEF NewSession, Ready
<1>2. /\ os \in Seq(Sessions) /\ o \in 1..Len(os) /\ os[o].key = k
      /\ \A p \in 1..Len(objs) : p \in 1..Len(os) /\ os[p] = objs[p]
  BY Opening DEF Inv, Types
<1>3. os[o] \in Sessions /\ old \in Seq(Message)
  <2>1. os[o] \in Sessions
    BY <1>2, ElementOfSeq
  <2> QED BY <2>1 DEF Sessions
<1>4. news \in Nat /\ news' \in 1..MaxNews /\ Elements(old) \in SUBSET Message
  <2>1. Elements(old) \in SUBSET Message
    BY <1>3, ElementOfSeq DEF Elements
  <2> QED BY <1>1, <2>1, Bounds DEF Inv, Types, OtherTypes
<1> HIDE DEF o, os, old
<1>5. s \in Sessions /\ s.key = k /\ objs' = [os EXCEPT ![o] = s]
  <2>1. s \in Sessions /\ s.key = k
    <3>1. none \in Seq(Message)
      BY EmptySeq
    <3>2. zero \in Int
      OBVIOUS
    <3> HIDE DEF none, zero
    <3> QED BY <1>2, <1>3, <3>1, <3>2 DEF Sessions
  <2>2. [os EXCEPT ![o].msgs = <<>>, ![o].lc = 0] = [os EXCEPT ![o] = s]
    BY <1>2
  <2> QED BY <1>1, <2>1, <2>2
<1>6. f \in Runners /\ f.pc = "created" /\ f.kind = "archive" /\ f.key = k /\ f.batch = old
  BY <1>3, NothingTyped, Bounds DEF Runners
<1> HIDE DEF s, f
<1>7. /\ objs' \in Seq(Sessions) /\ \A p \in 1..Len(objs) : p \in 1..Len(objs') /\ objs'[p].key = objs[p].key
  <2>1. /\ objs' \in Seq(Sessions) /\ Len(objs') = Len(os) /\ objs'[o] = s
        /\ \A p \in 1..Len(os) : p # o => objs'[p] = os[p]
    BY <1>2, <1>5, Replaced
  <2> QED BY <1>2, <1>5, <2>1
<1>8. (UNCHANGED tasks /\ (closing \/ Live(table[<<k, "archive">>]))) \/ \E r \in Runner : Placed(r, f)
  BY <1>1, <1>6, Scheduling, Bounds DEF Inv, Types
<1>9. /\ TaskTypes' /\ Tabled' /\ Locked' /\ Quiet
      /\ \A r \in Runner : Live(r) => Live(r)' /\ runner'[r] = runner[r]
      /\ \A r \in Runner : Live(r)' => (Live(r) /\ runner'[r] = runner[r]) \/ runner'[r] = f
  BY <1>6, <1>8, Placing, Bounds DEF Inv, Types
<1>10. Types'
  <2>1. file' \in [Key -> Files] /\ cache' \in [Key -> Nat]
    BY <1>1, NothingTyped DEF Inv, Types, StoreTypes
  <2>2. news' \in 0..MaxNews
    BY <1>4
  <2> QED BY <1>1, <1>4, <1>7, <1>9, <2>1, <2>2 DEF Inv, Types, StoreTypes, OtherTypes
<1>11. References'
  <2>1. \A l \in Key : cache'[l] # 0 => cache'[l] \in 1..Len(objs') /\ objs'[cache'[l]].key = l
    BY <1>1, <1>7 DEF Inv, References, Types, StoreTypes
  <2>2. \A v \in Worker : turn'[v].busy =>
            /\ turn'[v].key \in Key /\ turn'[v].n \in 1..turns'
            /\ turn'[v].obj \in 1..Len(objs') /\ objs'[turn'[v].obj].key = turn'[v].key
    BY <1>1, <1>7 DEF Inv, References
  <2>3. ASSUME NEW r \in Runner, Live(r)'
        PROVE  /\ runner'[r].key \in Key /\ runner'[r].kind \in Kinds
               /\ runner'[r].kind = "window" =>
                     runner'[r].obj \in 1..Len(objs') /\ objs'[runner'[r].obj].key = runner'[r].key
    BY <1>6, <1>7, <1>9, <2>3, Bounds DEF Inv, References
  <2> QED BY <2>1, <2>2, <2>3 DEF References
<1>12. Draining'
  BY <1>1 DEF Inv, Draining
<1>13. Remembered'
  BY <1>1, <1>9, RememberedKept DEF Inv
<1>14. news' # 0
  BY <1>4
<1>15. Conversations' /\ Counted'
  BY <1>14 DEF Conversations, Held, Distinct, Numbered, Counted
<1>16. Archived'
  <2> SUFFICES ASSUME NEW m \in cleared'
               PROVE  \/ summaries'[m] > 0 \/ m \in Excused'
                      \/ \E r \in Runner : Live(r)' /\ runner'[r].kind = "archive" /\ m \in Elements(runner'[r].batch)
    BY <1>14 DEF Archived
  <2>1. CASE m \in cleared
    BY <1>1, <1>9, <2>1 DEF Inv, Archived, Excused
  <2>2. CASE m \in Elements(old) /\ Live(table[<<k, "archive">>])
    BY <1>1, <2>2 DEF Excused
  <2>3. CASE m \in Elements(old) /\ ~Live(table[<<k, "archive">>])
    <3>1. PICK r \in Runner : Placed(r, f)
      BY <1>1, <1>8, <2>3
    <3>2. runner'[r] = f /\ Live(r)'
      BY <1>6, <3>1, Entered, Bounds DEF Inv, Types
    <3> QED BY <1>6, <2>3, <3>2
  <2> QED BY <1>1, <2>1, <2>2, <2>3
<1> QED BY <1>9, <1>10, <1>11, <1>12, <1>13, <1>15, <1>16 DEF Inv

LEMMA InvInit == Init => Inv
<1> SUFFICES ASSUME Init PROVE Inv
  OBVIOUS
<1>1. /\ \A r \in Runner : ~Live(r) /\ runner[r].pc = "idle"
      /\ \A w \in Worker : ~turn[w].busy
      /\ Len(objs) = 0 /\ \A k \in Key : Len(file[k].msgs) = 0 /\ file[k].lc = 0 /\ cache[k] = 0
  BY NothingTyped, EmptySeq DEF Init, Live
<1>2. StoreTypes
  BY NothingTyped, EmptySeq DEF Init, StoreTypes
<1>3. TaskTypes
  <2>1. table \in [Key \X Kinds -> Runner \cup {None}] /\ runner \in [Runner -> Runners] /\ requested \in SUBSET Runner
    BY NothingTyped DEF Init
  <2>2. /\ lock = [k \in Key |-> [holder |-> lock[k].holder, queue |-> lock[k].queue]]
        /\ \A k \in Key : lock[k].holder \in Runner \cup {None}
    BY DEF Init
  <2> QED BY <2>1, <2>2 DEF TaskTypes
<1>4. OtherTypes
  <2>1. turn \in [Worker -> Turns]
    BY NothingTyped DEF Init
  <2>2. 0 \in 0..MaxTurns /\ 0 \in 0..MaxNews /\ 0 \in 0..MaxRestarts
    BY Bounds
  <2> QED BY <2>1, <2>2 DEF Init, OtherTypes
<1>5. References /\ Tabled /\ Locked /\ Draining
  BY <1>1 DEF References, Tabled, Locked, Draining, Init
<1>6. Remembered /\ Archived
  BY <1>1 DEF Remembered, Archived, Init
<1>7. Conversations
  BY <1>1 DEF Conversations, Held, Distinct, Numbered
<1>8. Counted
  <2>1. \A m \in Message : summaries[m] = 0
    BY DEF Init
  <2> QED BY <1>1, <2>1 DEF Counted, SummarisedOnce
<1> QED BY <1>2, <1>3, <1>4, <1>5, <1>6, <1>7, <1>8 DEF Inv, Types

LEMMA InvStep == Inv /\ [Next]_vars => Inv'
<1> SUFFICES ASSUME Inv, [Next]_vars PROVE Inv'
  OBVIOUS
<1>1. CASE \E w \in Worker, k \in Key : NewSession(w, k) \/ \E special \in BOOLEAN : TurnStart(w, k, special)
  BY <1>1, InvNewSession, InvTurnStart
<1>2. CASE \E w \in Worker : TurnEdits(w) \/ TurnNext(w)
  BY <1>2, InvEdits, InvTurnEnd, InvTurnFails DEF TurnNext
<1>3. CASE \E r \in Runner : RunnerNext(r)
  BY <1>3, InvProceeds, InvGivesUp, InvHalfWritten, InvSucceeds DEF RunnerNext
<1>4. CASE Stop \/ AClose \/ DrainStart \/ Restart
  BY <1>4, InvStop, InvDrainStart, InvRestart
<1>5. CASE UNCHANGED vars
  <2>1. /\ UNCHANGED <<stores, tasks, memory, turn, closing, drain, turns, news, restarts, ghosts, cleared, writer>>
        /\ TurnsKept
    BY <1>5 DEF vars, TurnsKept
  <2>2. TaskTypes' /\ Tabled' /\ Locked' /\ Fewer /\ Quiet
    BY <2>1, Undisturbed DEF Inv, Types
  <2>3. Types'
    BY <2>1, <2>2 DEF Inv, Types, StoreTypes, OtherTypes
  <2>4. References' /\ Conversations' /\ Draining' /\ Counted' /\ Remembered'
    BY <2>1, <2>2, StoresKept, ReferencesKept, ConversationsKept, DrainingKept, CountedKept, RememberedKept DEF Inv
  <2>5. Archived'
    <3>1. \A r \in Runner : Live(r)' = Live(r)
      BY <2>1 DEF Live
    <3> QED BY <2>1, <2>2, <3>1, ArchivedKept DEF Inv, Excused
  <2> QED BY <2>2, <2>3, <2>4, <2>5 DEF Inv
<1> QED BY <1>1, <1>2, <1>3, <1>4, <1>5 DEF Next

-----------------------------------------------------------------------------
(* The results *)

\* Throughout every behaviour: a task at work is in _consolidation_tasks under
\* its own key and nowhere else, one task at a time has the lock of a session,
\* and, before the first /new, a session is held by one object whose file is
\* its copy.
THEOREM InductiveInvariant == Spec => []Inv
<1>1. Init => Inv
  BY InvInit
<1>2. Inv /\ [Next]_vars => Inv'
  BY InvStep
<1> QED BY <1>1, <1>2, PTL DEF Spec

\* When the drain of aclose is over no turn and no consolidation is left,
\* whatever was scheduled, cancelled or under way when it began
\* (_drain_agent_owned_work, _schedule_consolidation).
THEOREM NothingOutlivesTheDrain == Spec => []DrainComplete
<1>1. Inv => DrainComplete
  BY DEF Inv, Draining, DrainComplete, Drained
<1> QED BY <1>1, InductiveInvariant, PTL

\* Until a /new empties a session, a message is accepted into a summary a
\* second time only if its first consolidation failed between HISTORY.md and
\* MEMORY.md (_consolidate_memory).
THEOREM SummarisedOnceOnly == Spec => [](news = 0 => SummarisedOnce)
<1>1. Inv => (news = 0 => SummarisedOnce)
  BY DEF Inv, Counted
<1> QED BY <1>1, InductiveInvariant, PTL

\* Whatever a /new took out of a session is summarised, or its archive task still
\* has it, or one of three things happened: its archiving failed or was cancelled,
\* the model's reply had no entry, or an earlier archive was still at work; for
\* any number of /new ("New session started. Memory saved.", loop.py).
THEOREM ArchivesAreKept == Spec => []ArchiveKept
<1>1. Inv => ArchiveKept
  BY DEF Inv, Archived, Excused, ArchiveKept
<1> QED BY <1>1, InductiveInvariant, PTL

\* What a consolidation takes out of MEMORY.md was put there meanwhile, and not by
\* its own session: under the lock each one reads what the one before had written
\* (_consolidate_memory), with any number of sessions and with turns that edit.
THEOREM OnlyOthersAreOverwritten == Spec => FactsKept
<1> DEFINE Kept ==
       \A m \in memory \ memory' : \E r \in Runner :
           /\ runner[r].pc = "chat" /\ runner'[r].pc = "idle"
           /\ m \notin runner[r].mem /\ writer[m] # runner[r].key
<1>1. Inv /\ [Next]_vars => Kept
  <2> SUFFICES ASSUME Inv, [Next]_vars, NEW m \in memory, m \notin memory'
               PROVE  Kept
    BY SMTT(60)
  <2>1. PICK r \in Runner : ChatSucceeds(r)
    BY ZenonT(60) DEF Next, NewSession, TurnStart, TurnEdits, WriteMemory, TurnNext, TurnEnd, TurnFails, RunnerNext, RunnerStart,
           RunnerAcquires, ChatFails, ChatHalfWritten, RunnerCancelled, Stop, AClose, DrainStart, Restart, vars
  <2>2. runner[r].pc = "chat" /\ memory' = runner[r].mem \cup Elements(runner[r].batch)
    BY <2>1 DEF ChatSucceeds, WriteMemory
  <2>3. runner'[r].pc = "idle"
    BY <2>1, NothingTyped DEF ChatSucceeds, Retire, Inv, Types, TaskTypes
  <2>4. \A n \in memory \ memory' : n \notin runner[r].mem /\ writer[n] # runner[r].key
    BY <2>2 DEF Inv, Remembered
  <2> QED BY <2>2, <2>3, <2>4
<1> QED BY <1>1, InductiveInvariant, PTL DEF Spec, FactsKept

-----------------------------------------------------------------------------
(* When every /new finds its session at rest *)

\* Neither a turn nor a consolidation awaits the model for the session.
AtRest(k) ==
    /\ \A w \in Worker : turn[w].busy => turn[w].key # k
    /\ \A r \in Runner : runner[r].pc = "chat" /\ runner[r].kind = "window" => runner[r].key # k

ClearsAtRest == news' # news => \E w \in Worker, k \in Key : NewSession(w, k) /\ AtRest(k)

\* Whoever works on a session has the cached object, whose file is its copy; a
\* task that has not begun may have one that a /new has emptied and dropped.
Settled ==
    /\ \A w \in Worker : turn[w].busy => turn[w].obj = cache[turn[w].key]
    /\ \A r \in Runner : Live(r) /\ runner[r].kind = "window" =>
          \/ runner[r].obj = cache[runner[r].key]
          \/ runner[r].pc # "chat" /\ objs[runner[r].obj].msgs = <<>>
    /\ \A k \in Key : cache[k] # 0 => file[k] = [msgs |-> objs[cache[k]].msgs, lc |-> objs[cache[k]].lc]
    /\ log = [k \in Key |-> file[k].msgs]

LEMMA SettledUnmoved ==
    ASSUME Inv, Settled, TurnsKept, Fewer, UNCHANGED <<stores, log>>,
           \A r \in Runner : Live(r)' /\ runner'[r].kind = "window" /\ runner'[r].pc = "chat" =>
               runner[r].pc = "chat" \/ objs[runner[r].obj].msgs # <<>>
    PROVE  Settled'
<1>1. \A w \in Worker : turn'[w].busy => turn'[w].obj = cache'[turn'[w].key]
  BY DEF TurnsKept, Settled
<1>2. ASSUME NEW r \in Runner, Live(r)', runner'[r].kind = "window"
      PROVE  \/ runner'[r].obj = cache'[runner'[r].key]
             \/ runner'[r].pc # "chat" /\ objs'[runner'[r].obj].msgs = <<>>
  <2>1. /\ Live(r) /\ runner'[r].key = runner[r].key /\ runner'[r].obj = runner[r].obj
        /\ runner[r].kind = "window"
    BY <1>2 DEF Fewer
  <2> QED BY <1>2, <2>1 DEF Settled
<1>3. /\ \A k \in Key : cache'[k] # 0 => file'[k] = [msgs |-> objs'[cache'[k]].msgs, lc |-> objs'[cache'[k]].lc]
      /\ log' = [k \in Key |-> file'[k].msgs]
  BY DEF Settled
<1> QED BY <1>1, <1>2, <1>3 DEF Settled

LEMMA SettledSaved ==
    ASSUME Inv, Settled, TurnsKept, Fewer, Quiet, NEW o \in 1..Len(objs), NEW s \in Sessions,
           s.key = objs[o].key, cache[s.key] = o, Save([objs EXCEPT ![o] = s], o),
           log' = [log EXCEPT ![s.key] = s.msgs]
    PROVE  Settled'
<1>1. /\ Len(objs') = Len(objs) /\ objs'[o] = s /\ \A p \in 1..Len(objs) : p # o => objs'[p] = objs[p]
      /\ cache'[s.key] = o /\ \A k \in Key : k # s.key => cache'[k] = cache[k]
      /\ file'[s.key] = [msgs |-> s.msgs, lc |-> s.lc] /\ \A k \in Key : k # s.key => file'[k] = file[k]
  BY Saved DEF Inv, Types
<1>2. s.key \in Key /\ o # 0 /\ \A k \in Key : cache'[k] = cache[k]
  BY <1>1 DEF Sessions
<1>3. ASSUME NEW w \in Worker, turn'[w].busy PROVE turn'[w].obj = cache'[turn'[w].key]
  <2>1. turn[w].busy /\ turn'[w].key = turn[w].key /\ turn'[w].obj = turn[w].obj /\ turn[w].key \in Key
    BY <1>3 DEF TurnsKept, Inv, References
  <2> QED BY <1>2, <2>1 DEF Settled
<1>4. ASSUME NEW r \in Runner, Live(r)', runner'[r].kind = "window"
      PROVE  \/ runner'[r].obj = cache'[runner'[r].key]
             \/ runner'[r].pc # "chat" /\ objs'[runner'[r].obj].msgs = <<>>
  <2>1. /\ Live(r) /\ runner'[r].key = runner[r].key /\ runner'[r].obj = runner[r].obj
        /\ runner[r].kind = "window" /\ runner[r].key \in Key /\ runner[r].obj \in 1..Len(objs)
        /\ objs[runner[r].obj].key = runner[r].key
    BY <1>4 DEF Fewer, Inv, References
  <2>2. CASE runner[r].obj = cache[runner[r].key]
    BY <1>2, <2>1, <2>2
  <2>3. CASE runner[r].obj # cache[runner[r].key]
    <3>1. runner[r].pc # "chat" /\ objs[runner[r].obj].msgs = <<>>
      BY <2>1, <2>3 DEF Settled
    <3>2. runner[r].obj # o
      BY <2>1, <2>3
    <3>3. runner'[r].pc # "chat"
      BY <3>1 DEF Quiet
    <3> QED BY <1>1, <2>1, <3>1, <3>2, <3>3
  <2> QED BY <2>2, <2>3
<1>5. ASSUME NEW k \in Key, cache'[k] # 0
      PROVE  file'[k] = [msgs |-> objs'[cache'[k]].msgs, lc |-> objs'[cache'[k]].lc]
  <2>1. CASE k = s.key
    BY <1>1, <2>1
  <2>2. CASE k # s.key
    <3>1. cache[k] # 0 /\ cache[k] \in 1..Len(objs) /\ cache[k] # o
      BY <1>2, <1>5, <2>2 DEF Inv, References
    <3>2. file[k] = [msgs |-> objs[cache[k]].msgs, lc |-> objs[cache[k]].lc]
      BY <3>1 DEF Settled
    <3> QED BY <1>1, <1>2, <2>2, <3>1, <3>2
  <2> QED BY <2>1, <2>2
<1>6. log' = [k \in Key |-> file'[k].msgs]
  <2>1. log = [k \in Key |-> file[k].msgs]
    BY DEF Settled
  <2>2. file'[s.key].msgs = s.msgs
    BY <1>1
  <2> QED BY <1>1, <1>2, <2>1, <2>2
<1> QED BY <1>3, <1>4, <1>5, <1>6 DEF Settled

\* A turn ends: its question and answer are added.
LEMMA SettledTurnEnd ==
    ASSUME Inv, Settled, NEW w \in Worker, TurnEnd(w)
    PROVE  Settled'
<1> DEFINE k == turn[w].key
           o == turn[w].obj
           pair == Pair(turn[w].n)
           old == objs[o].msgs
           s == [objs[o] EXCEPT !.msgs = old \o pair]
<1>1. /\ k \in Key /\ o \in 1..Len(objs) /\ objs[o].key = k /\ o # 0 /\ cache[k] = o
      /\ turn[w].n \in 1..MaxTurns
  <2>1. turn[w].busy
    BY DEF TurnEnd
  <2>2. turn[w].n \in 1..turns /\ turns \in 0..MaxTurns
    BY <2>1 DEF Inv, References, Types, OtherTypes
  <2>3. turn[w].n \in 1..MaxTurns
    BY <2>2, Bounds
  <2> QED BY <2>1, <2>3 DEF Inv, References, Settled
<1>2. objs[o] \in Sessions /\ old \in Seq(Message) /\ pair \in Seq(Message)
  BY <1>1, SessionTyped, PairTyped DEF Inv, Types
<1> HIDE DEF pair, old
<1>3. old \o pair \in Seq(Message)
  BY <1>2, ConcatProperties
<1>4. s \in Sessions /\ s.key = k /\ s.msgs = old \o pair
  BY <1>1, <1>2, <1>3 DEF Sessions
<1>5. Save([objs EXCEPT ![o] = s], o) /\ log' = [log EXCEPT ![k] = log[k] \o pair] /\ UNCHANGED tasks
  BY DEF TurnEnd, old, pair
<1>6. TurnsKept
  BY NothingTyped DEF TurnsKept, TurnEnd, Inv, Types, OtherTypes
<1>7. Fewer /\ Quiet
  BY <1>5, Undisturbed DEF Inv, Types
<1>8. log[k] = old
  <2>1. file[k] = [msgs |-> objs[o].msgs, lc |-> objs[o].lc]
    BY <1>1 DEF Settled
  <2> QED BY <1>1, <2>1 DEF Settled, old
<1> HIDE DEF s, k, o
<1>9. log' = [log EXCEPT ![s.key] = s.msgs]
  BY <1>4, <1>5, <1>8
<1> QED BY <1>1, <1>4, <1>5, <1>6, <1>7, <1>9, SettledSaved


\* A consolidation is accepted: the position moves, the messages stay.
LEMMA SettledSucceeds ==
    ASSUME Inv, Settled, NEW r \in Runner, ChatSucceeds(r)
    PROVE  Settled'
<1> DEFINE k == runner[r].key
           o == runner[r].obj
           n == Len(objs[o].msgs) - Keep
           s == [objs[o] EXCEPT !.lc = n]
<1>1. /\ Live(r) /\ k \in Key /\ runner[r].kind \in Kinds /\ runner[r].pc = "chat" /\ Leaves(r)
      /\ UNCHANGED <<turn, log>>
  BY AtWork, Finishing DEF ChatSucceeds, Inv, References, Types
<1>2. TurnsKept /\ Fewer /\ Quiet
  BY <1>1, Left DEF TurnsKept, Inv, Types
<1>3. CASE runner[r].kind = "archive"
  <2>1. UNCHANGED stores
    BY <1>3 DEF ChatSucceeds
  <2>2. \A q \in Runner : runner'[q].pc = "chat" => runner[q].pc = "chat"
    BY <1>2 DEF Quiet
  <2> QED BY <1>1, <1>2, <2>1, <2>2, SettledUnmoved
<1>4. CASE runner[r].kind = "window"
  <2>1. o \in 1..Len(objs) /\ objs[o].key = k /\ o # 0 /\ cache[k] = o
    BY <1>1, <1>4 DEF Inv, References, Settled
  <2>2. objs[o] \in Sessions /\ Len(objs[o].msgs) \in Nat
    BY <2>1, SessionTyped, LenProperties DEF Inv, Types
  <2>3. s \in Sessions /\ s.key = k /\ s.msgs = objs[o].msgs
    BY <2>1, <2>2, Bounds, SMTT(60) DEF Sessions
  <2>4. Save([objs EXCEPT ![o] = s], o)
    BY <1>4 DEF ChatSucceeds
  <2>5. log[k] = objs[o].msgs
    <3>1. file[k] = [msgs |-> objs[o].msgs, lc |-> objs[o].lc]
      BY <1>1, <2>1 DEF Settled
    <3> QED BY <1>1, <3>1 DEF Settled
  <2> HIDE DEF s, k, o
  <2>6. log' = [log EXCEPT ![s.key] = s.msgs]
    <3>1. log = [log EXCEPT ![k] = log[k]]
      BY DEF Settled
    <3> QED BY <1>1, <2>3, <2>5, <3>1
  <2> QED BY <1>2, <2>1, <2>2, <2>3, <2>4, <2>6, SettledSaved
<1> QED BY <1>1, <1>3, <1>4, Bounds

\* A task begins to await the model only for a session that is not empty.
LEMMA SettledProceeds ==
    ASSUME Inv, Settled, NEW r \in Runner, RunnerStart(r) \/ RunnerAcquires(r)
    PROVE  Settled'
<1>1. UNCHANGED <<stores, turn, log>> /\ Proceeds(r) /\ Live(r)
  BY Proceeding, AtWork DEF Inv, RunnerStart, RunnerAcquires
<1>2. TurnsKept
  BY <1>1 DEF TurnsKept
<1>3. /\ Fewer /\ \A q \in Runner : q # r => runner'[q] = runner[q]
  <2>1. CASE Leaves(r) /\ runner[r].kind = "window"
    BY <1>1, <2>1, Left DEF Inv, Types
  <2>2. CASE \E f \in Runners : Advances(r, f)
    <3>1. PICK f \in Runners : Advances(r, f)
      BY <2>2
    <3>2. /\ runner'[r] = f /\ \A s \in Runner : Live(s)' <=> Live(s)
          /\ \A s \in Runner : s # r => runner'[s] = runner[s]
      BY <1>1, <3>1, Gone DEF Advances, Inv, Types
    <3> QED BY <3>1, <3>2 DEF Fewer, Advances, Goes
  <2> QED BY <1>1, <2>1, <2>2 DEF Proceeds
<1>4. ASSUME runner'[r].kind = "window", runner'[r].pc = "chat", Live(r)'
      PROVE  objs[runner[r].obj].msgs # <<>>
  <2>1. runner[r].kind = "window" /\ runner[r].obj \in 1..Len(objs)
    BY <1>1, <1>3, <1>4 DEF Fewer, Inv, References
  <2>2. ~Retire(r) /\ ~(runner' = [runner EXCEPT ![r].pc = "waiting"])
    <3>1. runner[r] \in Runners /\ runner \in [Runner -> Runners] /\ Idle.pc = "idle"
      BY NothingTyped DEF Inv, Types, TaskTypes
    <3>2. ~Retire(r)
      BY <1>4, <3>1 DEF Retire
    <3>3. ASSUME runner' = [runner EXCEPT ![r].pc = "waiting"] PROVE FALSE
      <4>1. runner'[r] = [runner[r] EXCEPT !.pc = "waiting"]
        BY <3>1, <3>3
      <4>2. runner'[r].pc = "waiting"
        BY <3>1, <4>1 DEF Runners
      <4> QED BY <1>4, <4>2
    <3> QED BY <3>2, <3>3
  <2>3. \E q : Begin(r, q)
    BY <2>2 DEF RunnerStart, RunnerAcquires
  <2>4. ~(Len(objs[runner[r].obj].msgs) <= Keep)
    BY <2>1, <2>2, <2>3 DEF Begin
  <2>5. <<>> \in Seq(Message) /\ Len(<<>>) = 0
    BY EmptySeq
  <2> QED BY <2>4, <2>5, Bounds
<1>5. \A q \in Runner : Live(q)' /\ runner'[q].kind = "window" /\ runner'[q].pc = "chat" =>
          runner[q].pc = "chat" \/ objs[runner[q].obj].msgs # <<>>
  BY <1>3, <1>4
<1> QED BY <1>1, <1>2, <1>3, <1>5, SettledUnmoved

\* A session is opened: what a new object holds is what the file holds.
LEMMA SettledTurnStart ==
    ASSUME Inv, Inv', Settled, NEW w \in Worker, NEW k \in Key, NEW special \in BOOLEAN, TurnStart(w, k, special)
    PROVE  Settled'
<1> DEFINE o == Handle(k)
           f == [Idle EXCEPT !.pc = "created", !.kind = "window", !.key = k, !.obj = o]
<1>1. /\ turn' = [turn EXCEPT ![w] = [busy |-> TRUE, key |-> k, obj |-> o, n |-> turns + 1,
                                      edited |-> FALSE, cancel |-> FALSE]]
      /\ objs' = Opened(k) /\ cache' = [cache EXCEPT ![k] = o] /\ UNCHANGED <<file, log, lock>>
      /\ Schedule(k, "window", f) \/ UNCHANGED <<runner, table, requested>>
  BY DEF TurnStart
<1>2. /\ objs' \in Seq(Sessions) /\ o \in 1..Len(objs') /\ objs'[o].key = k
      /\ \A p \in 1..Len(objs) : p \in 1..Len(objs') /\ objs'[p] = objs[p]
      /\ cache[k] # 0 => o = cache[k]
      /\ cache[k] = 0 => objs'[o] = [key |-> k, msgs |-> file[k].msgs, lc |-> file[k].lc]
  BY <1>1, Opening DEF Inv, Types
<1>3. o \in Nat /\ o # 0
  BY <1>2, LenProperties
<1> HIDE DEF o
<1>4. f \in Runners /\ f.pc = "created" /\ f.kind = "window" /\ f.key = k /\ f.obj = o
  BY <1>3, NothingTyped, Bounds DEF Runners
<1> HIDE DEF f
<1>5. \A q \in Runner : Live(q)' => (Live(q) /\ runner'[q] = runner[q]) \/ runner'[q] = f
  <2>1. UNCHANGED tasks \/ \E q \in Runner : Placed(q, f)
    BY <1>1, <1>4, Scheduling, Bounds DEF Inv, Types
  <2> QED BY <1>4, <2>1, Placing, Bounds DEF Inv, Types
<1>6. cache'[k] = o /\ \A l \in Key : l # k => cache'[l] = cache[l]
  BY <1>1, <1>3 DEF Inv, Types, StoreTypes
<1>7. ASSUME NEW v \in Worker, turn'[v].busy PROVE turn'[v].obj = cache'[turn'[v].key]
  <2>1. CASE v = w
    BY <1>1, <1>6, <2>1 DEF Inv, Types, OtherTypes
  <2>2. CASE v # w
    <3>1. turn'[v] = turn[v] /\ turn[v].obj \in 1..Len(objs) /\ turn[v].key \in Key /\ turn[v].obj = cache[turn[v].key]
      BY <1>1, <1>7, <2>2 DEF Inv, References, Settled, Types, OtherTypes
    <3>2. cache[turn[v].key] # 0
      BY <3>1
    <3> QED BY <1>2, <1>6, <3>1, <3>2
  <2> QED BY <2>1, <2>2
<1>8. ASSUME NEW r \in Runner, Live(r)', runner'[r].kind = "window"
      PROVE  \/ runner'[r].obj = cache'[runner'[r].key]
             \/ runner'[r].pc # "chat" /\ objs'[runner'[r].obj].msgs = <<>>
  <2>1. CASE runner'[r] = f
    BY <1>4, <1>6, <2>1
  <2>2. CASE Live(r) /\ runner'[r] = runner[r]
    <3>1. runner[r].obj \in 1..Len(objs) /\ runner[r].key \in Key /\ runner[r].obj # 0
      BY <1>8, <2>2 DEF Inv, References
    <3>2. CASE runner[r].obj = cache[runner[r].key]
      BY <1>2, <1>6, <2>2, <3>1, <3>2
    <3>3. CASE runner[r].pc # "chat" /\ objs[runner[r].obj].msgs = <<>>
      BY <1>2, <2>2, <3>1, <3>3
    <3> QED BY <1>8, <2>2, <3>2, <3>3 DEF Settled
  <2> QED BY <1>5, <1>8, <2>1, <2>2
<1>9. ASSUME NEW l \in Key, cache'[l] # 0
      PROVE  file'[l] = [msgs |-> objs'[cache'[l]].msgs, lc |-> objs'[cache'[l]].lc]
  <2>1. CASE l = k /\ cache[k] = 0
    <3>1. file[k] = [msgs |-> file[k].msgs, lc |-> file[k].lc]
      BY FileTyped DEF Inv, Types
    <3> QED BY <1>1, <1>2, <1>6, <2>1, <3>1
  <2>2. CASE cache[l] # 0
    <3>1. cache'[l] = cache[l] /\ cache[l] \in 1..Len(objs)
      BY <1>2, <1>6, <2>2 DEF Inv, References
    <3>2. file[l] = [msgs |-> objs[cache[l]].msgs, lc |-> objs[cache[l]].lc]
      BY <2>2 DEF Settled
    <3> QED BY <1>1, <1>2, <3>1, <3>2
  <2> QED BY <1>6, <1>9, <2>1, <2>2
<1>10. log' = [l \in Key |-> file'[l].msgs]
  BY <1>1 DEF Settled
<1> QED BY <1>7, <1>8, <1>9, <1>10 DEF Settled


\* A /new at rest leaves nobody with the object it empties, but tasks that
\* have not begun.
LEMMA SettledNewSession ==
    ASSUME Inv, Inv', Settled, NEW w \in Worker, NEW k \in Key, NewSession(w, k), AtRest(k)
    PROVE  Settled'
<1> DEFINE o == Handle(k)
           os == Opened(k)
           none == <<>>
           zero == 0
           s == [os[o] EXCEPT !.msgs = none, !.lc = zero]
           f == [Idle EXCEPT !.pc = "created", !.kind = "archive", !.key = k, !.batch = os[o].msgs]
<1>1. /\ objs' = [os EXCEPT ![o].msgs = <<>>, ![o].lc = 0] /\ file' = [file EXCEPT ![k] = Empty]
      /\ cache' = [cache EXCEPT ![k] = 0] /\ Schedule(k, "archive", f) /\ log' = [log EXCEPT ![k] = <<>>]
      /\ UNCHANGED <<turn, lock>>
  BY DEF NewSession
<1>2. /\ os \in Seq(Sessions) /\ o \in 1..Len(os) /\ os[o].key = k
      /\ \A p \in 1..Len(objs) : p \in 1..Len(os) /\ os[p] = objs[p]
  BY Opening DEF Inv, Types
<1>3. os[o] \in Sessions /\ os[o].msgs \in Seq(Message) /\ none \in Seq(Message) /\ zero \in Int
  <2>1. os[o] \in Sessions
    BY <1>2, ElementOfSeq
  <2>2. none \in Seq(Message)
    BY EmptySeq
  <2> QED BY <2>1, <2>2 DEF Sessions
<1> HIDE DEF o, os
<1>4. s \in Sessions /\ s.key = k /\ s.msgs = none
  <2> HIDE DEF none, zero
  <2> QED BY <1>2, <1>3 DEF Sessions
<1>5. objs' = [os EXCEPT ![o] = s]
  BY <1>1, <1>2
<1>6. f \in Runners /\ f.pc = "created" /\ f.kind = "archive" /\ f.key = k
  BY <1>3, NothingTyped, Bounds DEF Runners
<1> HIDE DEF s, f
<1>7. objs'[o] = s /\ \A p \in 1..Len(objs) : p # o => objs'[p] = objs[p]
  <2>1. objs'[o] = s /\ \A p \in 1..Len(os) : p # o => objs'[p] = os[p]
    BY <1>2, <1>4, <1>5, Replaced
  <2> QED BY <1>2, <2>1
<1>8. \A q \in Runner : Live(q)' => (Live(q) /\ runner'[q] = runner[q]) \/ runner'[q] = f
  <2>1. UNCHANGED tasks \/ \E q \in Runner : Placed(q, f)
    BY <1>1, <1>6, Scheduling, Bounds DEF Inv, Types
  <2> QED BY <1>6, <2>1, Placing, Bounds DEF Inv, Types
<1>9. cache'[k] = 0 /\ \A l \in Key : l # k => cache'[l] = cache[l]
  BY <1>1 DEF Inv, Types, StoreTypes
<1>10. ASSUME NEW v \in Worker, turn'[v].busy PROVE turn'[v].obj = cache'[turn'[v].key]
  <2>1. turn[v].busy /\ turn'[v] = turn[v] /\ turn[v].key \in Key /\ turn[v].key # k
    BY <1>1, <1>10 DEF AtRest, Inv, References
  <2> QED BY <1>9, <2>1 DEF Settled
<1>11. ASSUME NEW r \in Runner, Live(r)', runner'[r].kind = "window"
       PROVE  \/ runner'[r].obj = cache'[runner'[r].key]
              \/ runner'[r].pc # "chat" /\ objs'[runner'[r].obj].msgs = <<>>
  <2>1. Live(r) /\ runner'[r] = runner[r]
    BY <1>6, <1>8, <1>11
  <2>2. /\ runner[r].kind = "window" /\ runner[r].key \in Key /\ runner[r].obj \in 1..Len(objs)
        /\ objs[runner[r].obj].key = runner[r].key
    BY <1>11, <2>1 DEF Inv, References
  <2>3. \/ runner[r].obj = cache[runner[r].key]
        \/ runner[r].pc # "chat" /\ objs[runner[r].obj].msgs = <<>>
    BY <2>1, <2>2 DEF Settled
  <2>4. CASE runner[r].key = k
    <3>1. runner[r].pc # "chat"
      BY <2>2, <2>4 DEF AtRest
    <3>2. runner[r].obj = o \/ (runner[r].obj # o /\ objs[runner[r].obj].msgs = <<>>)
      <4>1. CASE runner[r].obj = cache[k]
        <5>1. cache[k] # 0
          BY <2>2, <4>1
        <5> QED BY <4>1, <5>1 DEF o, Handle
      <4> QED BY <2>3, <2>4, <4>1
    <3>3. objs'[runner[r].obj].msgs = <<>>
      BY <1>4, <1>7, <2>2, <3>2
    <3> QED BY <2>1, <3>1, <3>3
  <2>5. CASE runner[r].key # k
    <3>1. runner[r].obj # o
      BY <1>2, <2>2, <2>5
    <3> QED BY <1>7, <1>9, <2>1, <2>2, <2>3, <2>5, <3>1
  <2> QED BY <2>4, <2>5
<1>12. ASSUME NEW l \in Key, cache'[l] # 0
       PROVE  file'[l] = [msgs |-> objs'[cache'[l]].msgs, lc |-> objs'[cache'[l]].lc]
  <2>1. l # k /\ cache'[l] = cache[l] /\ cache[l] \in 1..Len(objs) /\ objs[cache[l]].key = l
    BY <1>9, <1>12 DEF Inv, References
  <2>2. cache[l] # o
    BY <1>2, <2>1
  <2>3. file[l] = [msgs |-> objs[cache[l]].msgs, lc |-> objs[cache[l]].lc] /\ file'[l] = file[l]
    BY <1>1, <1>12, <2>1 DEF Settled, Inv, Types, StoreTypes
  <2> QED BY <1>7, <2>1, <2>2, <2>3
<1>13. log' = [l \in Key |-> file'[l].msgs]
  <2>1. log = [l \in Key |-> file[l].msgs] /\ DOMAIN file = Key /\ Empty.msgs = <<>>
    BY NothingTyped DEF Settled, Inv, Types, StoreTypes
  <2> QED BY <1>1, <2>1
<1> QED BY <1>10, <1>11, <1>12, <1>13 DEF Settled

LEMMA SettledRestart ==
    ASSUME Inv, Settled, Restart
    PROVE  Settled'
<1>1. \A r \in Runner : ~Live(r)'
  BY NothingTyped DEF Restart, Live
<1>2. \A w \in Worker : ~turn'[w].busy
  BY NothingTyped DEF Restart
<1>3. UNCHANGED <<file, log>> /\ cache' = [k \in Key |-> 0]
  BY DEF Restart
<1> QED BY <1>1, <1>2, <1>3 DEF Settled

LEMMA SettledStep ==
    ASSUME Inv, Inv', Settled, [Next]_vars, [ClearsAtRest]_vars
    PROVE  Settled'
<1>1. ASSUME TurnsKept, UNCHANGED <<stores, log, runner>> PROVE Settled'
  <2>1. Fewer
    BY <1>1 DEF Fewer, Live
  <2> QED BY <1>1, <2>1, SettledUnmoved
<1>2. ASSUME NEW w \in Worker, NEW k \in Key, NewSession(w, k) PROVE Settled'
  <2>1. news' # news
    BY <1>2 DEF NewSession, Inv, Types, OtherTypes
  <2>2. PICK v \in Worker, l \in Key : NewSession(v, l) /\ AtRest(l)
    BY <2>1 DEF ClearsAtRest, vars
  <2> QED BY <2>2, SettledNewSession
<1>3. ASSUME NEW w \in Worker, TurnEdits(w) \/ TurnFails(w) PROVE Settled'
  <2>1. TurnsKept
    <3>1. \A v \in Worker : v # w => turn'[v] = turn[v]
      BY <1>3 DEF TurnEdits, TurnFails, Inv, Types, OtherTypes
    <3>2. turn[w] \in Turns
      BY DEF Inv, Types, OtherTypes
    <3>3. CASE TurnFails(w)
      BY <3>1, <3>3, NothingTyped DEF TurnFails, TurnsKept, Inv, Types, OtherTypes
    <3>4. CASE TurnEdits(w)
      <4>1. turn'[w] = [turn[w] EXCEPT !.edited = TRUE]
        BY <3>4 DEF TurnEdits, Inv, Types, OtherTypes
      <4> QED BY <3>1, <3>2, <4>1 DEF TurnsKept, Turns
    <3> QED BY <1>3, <3>3, <3>4
  <2> QED BY <1>1, <1>3, <2>1 DEF TurnEdits, TurnFails
<1>4. ASSUME NEW r \in Runner, ChatFails(r) \/ ChatHalfWritten(r) \/ RunnerCancelled(r) PROVE Settled'
  <2>1. Leaves(r) /\ Live(r) /\ UNCHANGED <<stores, turn, log>>
    BY <1>4, Finishing, Cancelled, AtWork DEF Inv, Types, ChatFails, ChatHalfWritten, RunnerCancelled
  <2>2. TurnsKept /\ Fewer /\ \A q \in Runner : runner'[q].pc = "chat" => runner[q].pc = "chat"
    BY <2>1, Left DEF TurnsKept, Quiet, Inv, Types
  <2> QED BY <2>1, <2>2, SettledUnmoved
<1>5. CASE Stop \/ AClose
  <2>1. UNCHANGED <<stores, log, runner, turn>>
    BY <1>5 DEF Stop, AClose
  <2> QED BY <1>1, <2>1 DEF TurnsKept
<1>6. CASE DrainStart
  <2>1. TurnsKept
    <3> SUFFICES ASSUME NEW v \in Worker
                 PROVE  /\ turn'[v].busy = turn[v].busy /\ turn'[v].key = turn[v].key
                        /\ turn'[v].obj = turn[v].obj /\ turn'[v].n = turn[v].n
      BY DEF TurnsKept
    <3>1. turn[v] \in Turns /\ turn'[v] = [turn[v] EXCEPT !.cancel = turn[v].busy]
      BY <1>6 DEF DrainStart, Inv, Types, OtherTypes
    <3> QED BY <3>1 DEF Turns
  <2> QED BY <1>1, <1>6, <2>1 DEF DrainStart
<1>7. CASE UNCHANGED vars
  BY <1>1, <1>7 DEF vars, TurnsKept
<1> QED BY <1>2, <1>3, <1>4, <1>5, <1>6, <1>7, SettledTurnStart, SettledTurnEnd, SettledProceeds,
           SettledSucceeds, SettledRestart DEF Next, TurnNext, RunnerNext


LEMMA SettledInit == Init => Settled
<1> SUFFICES ASSUME Init PROVE Settled
  OBVIOUS
<1>1. \A r \in Runner : ~Live(r)
  BY NothingTyped DEF Init, Live
<1>2. \A w \in Worker : ~turn[w].busy
  BY NothingTyped DEF Init
<1>3. file = [k \in Key |-> Empty] /\ log = [k \in Key |-> <<>>] /\ cache = [k \in Key |-> 0]
  BY DEF Init
<1> QED BY <1>1, <1>2, <1>3, NothingTyped DEF Settled

LEMMA LogIsCurrent ==
    ASSUME Inv, Settled
    PROVE  log = [k \in Key |-> Current(k)] /\ HistoryIntact
<1>1. log = [k \in Key |-> file[k].msgs]
  BY DEF Settled
<1>2. \A k \in Key : Current(k) = file[k].msgs
  <2> SUFFICES ASSUME NEW k \in Key PROVE Current(k) = file[k].msgs
    OBVIOUS
  <2>1. CASE cache[k] = 0
    BY <2>1 DEF Current
  <2>2. CASE cache[k] # 0
    <3>1. file[k] = [msgs |-> objs[cache[k]].msgs, lc |-> objs[cache[k]].lc]
      BY <2>2 DEF Settled
    <3> QED BY <2>2, <3>1 DEF Current
  <2> QED BY <2>1, <2>2
<1>3. \A k \in Key : log[k] = file[k].msgs
  BY <1>1
<1> QED BY <1>1, <1>2, <1>3 DEF HistoryIntact

LEMMA LogGrows ==
    ASSUME Inv, [Next]_vars
    PROVE  \/ log' = log
           \/ \E k \in Key : log' = [log EXCEPT ![k] = <<>>]
           \/ \E k \in Key, n \in 1..MaxTurns : log' = [log EXCEPT ![k] = log[k] \o Pair(n)]
<1>1. ASSUME NEW w \in Worker, TurnEnd(w)
      PROVE  \E k \in Key, n \in 1..MaxTurns : log' = [log EXCEPT ![k] = log[k] \o Pair(n)]
  <2>1. turn[w].key \in Key /\ turn[w].n \in 1..turns /\ turns \in 0..MaxTurns
    BY <1>1 DEF TurnEnd, Inv, References, Types, OtherTypes
  <2>2. turn[w].n \in 1..MaxTurns
    BY <2>1, Bounds
  <2> QED BY <1>1, <2>1, <2>2 DEF TurnEnd
<1>2. ASSUME NEW w \in Worker, NEW k \in Key, NewSession(w, k) PROVE log' = [log EXCEPT ![k] = <<>>]
  BY <1>2 DEF NewSession
<1>3. ASSUME NEW w \in Worker, NEW k \in Key, NEW special \in BOOLEAN, TurnStart(w, k, special) PROVE log' = log
  BY <1>3 DEF TurnStart
<1>4. ASSUME NEW w \in Worker, TurnEdits(w) \/ TurnFails(w) PROVE log' = log
  BY <1>4 DEF TurnEdits, TurnFails
<1>5. ASSUME NEW r \in Runner, RunnerNext(r) PROVE log' = log
  BY <1>5 DEF RunnerNext, RunnerStart, RunnerAcquires, ChatFails, ChatHalfWritten, ChatSucceeds, RunnerCancelled
<1>6. CASE Stop \/ AClose \/ DrainStart \/ Restart \/ UNCHANGED vars
  BY <1>6 DEF Stop, AClose, DrainStart, Restart, vars
<1> QED BY <1>1, <1>2, <1>3, <1>4, <1>5, <1>6 DEF Next, TurnNext

LEMMA SettledInvariant == Spec /\ [][ClearsAtRest]_vars => [](Inv /\ Settled)
<1>1. Init => Settled
  BY SettledInit
<1>2. Inv /\ Inv' /\ Settled /\ [Next]_vars /\ [ClearsAtRest]_vars => Settled'
  BY SettledStep
<1> QED BY <1>1, <1>2, InductiveInvariant, PTL DEF Spec

\* As long as every /new finds its session at rest, a session holds, in memory
\* and on disk, what was said since the last /new, whatever turns, consolidations,
\* cancellations and restarts do.  Without the hypothesis it is not true: the run
\* session_new_intact shows a /new that comes while they are at work.
THEOREM HistoryStaysIntact == Spec /\ [][ClearsAtRest]_vars => []HistoryIntact
<1>1. Inv /\ Settled => HistoryIntact
  BY LogIsCurrent
<1> QED BY <1>1, SettledInvariant, PTL

\* As long as every /new finds its session at rest the store is the append-only
\* conversation of ConversationLog (Session): every step adds one question with
\* its answer to one conversation, or is a /new and empties one, or leaves all
\* of them alone.
THEOREM StoreClearedAtRest == Spec /\ [][ClearsAtRest]_vars => AppendOnly
<1> DEFINE conv == [k \in Key |-> Current(k)]
<1>1. Inv /\ Settled => log = conv
  BY LogIsCurrent
<1> HIDE DEF conv
<1>2. (Inv /\ Settled)' => (log = conv)'
  BY <1>1, PTL
<1> USE DEF conv
<1>3. Init => Conversation!Init
  BY NothingTyped DEF Init, Conversation!Init, Current
<1>4. Inv /\ Settled /\ (Inv /\ Settled)' /\ [Next]_vars => [Conversation!Next]_conv
  <2> SUFFICES ASSUME Inv, Settled, (Inv /\ Settled)', [Next]_vars PROVE [Conversation!Next]_conv
    OBVIOUS
  <2>1. log = conv /\ log' = conv'
    BY <1>1, <1>2
  <2> HIDE DEF conv
  <2>2. CASE log' = log
    BY <2>1, <2>2
  <2>3. ASSUME NEW k \in Key, log' = [log EXCEPT ![k] = <<>>] PROVE Conversation!Next
    <3>1. Conversation!Clear(k)
      BY <2>1, <2>3 DEF Conversation!Clear, conv
    <3> QED BY <3>1 DEF Conversation!Next
  <2>4. ASSUME NEW k \in Key, NEW n \in 1..MaxTurns, log' = [log EXCEPT ![k] = log[k] \o Pair(n)]
        PROVE  Conversation!Next
    <3>1. Pair(n) = Conversation!Pair(n)
      BY DEF Pair, Conversation!Pair
    <3>2. Conversation!Answer(k, n)
      BY <2>1, <2>4, <3>1 DEF Conversation!Answer, conv
    <3> QED BY <3>2 DEF Conversation!Next
  <2> QED BY <2>2, <2>3, <2>4, LogGrows
<1> QED BY <1>3, <1>4, SettledInvariant, PTL DEF AppendOnly, Spec, Conversation!Spec

\* Without /new the store is an append-only conversation, unconditionally.
THEOREM StoreIsAppendOnly ==
    ASSUME MaxNews = 0
    PROVE  Spec => AppendOnly
<1>1. Inv /\ Inv' => ClearsAtRest
  BY DEF Inv, Types, OtherTypes, ClearsAtRest
<1> QED BY <1>1, InductiveInvariant, StoreClearedAtRest, PTL

-----------------------------------------------------------------------------
(* No session has anything of another *)

\* What a turn of a session has brought, brings, or what is being summarised
\* of it: in the file, an object (cached or not), a turn, a batch.
Holds(s, n) == \E i \in 1..Len(s) : s[i][1] = n

Carries(k, n) ==
    \/ Holds(file[k].msgs, n)
    \/ \E o \in 1..Len(objs) : objs[o].key = k /\ Holds(objs[o].msgs, n)
    \/ \E w \in Worker : turn[w].busy /\ turn[w].key = k /\ turn[w].n = n
    \/ \E r \in Runner : Live(r) /\ runner[r].key = k /\ Holds(runner[r].batch, n)

Isolated == \A n \in 1..MaxTurns, k, l \in Key : Carries(k, n) /\ Carries(l, n) => k = l

\* The numbers are those of turns that have begun.
Begun == \A n \in 1..MaxTurns, k \in Key : Carries(k, n) => n <= turns

From(s, k) == \A i \in 1..Len(s) : Carries(k, s[i][1])

LEMMA FromItself ==
    /\ \A k \in Key : From(file[k].msgs, k)
    /\ \A o \in 1..Len(objs) : From(objs[o].msgs, objs[o].key)
    /\ \A w \in Worker : turn[w].busy => Carries(turn[w].key, turn[w].n)
    /\ \A r \in Runner : Live(r) => From(runner[r].batch, runner[r].key)
BY DEF From, Carries, Holds

\* A session gets nothing that it did not have, except the number of a turn
\* that begins.
LEMMA NothingNew ==
    ASSUME \A k \in Key : From(file'[k].msgs, k),
           \A o \in 1..Len(objs') : From(objs'[o].msgs, objs'[o].key),
           NEW j, NEW m, \A w \in Worker : turn'[w].busy =>
               Carries(turn'[w].key, turn'[w].n) \/ (turn'[w].key = j /\ turn'[w].n = m),
           \A r \in Runner : Live(r)' => From(runner'[r].batch, runner'[r].key)
    PROVE  \A k \in Key, n \in 1..MaxTurns : Carries(k, n)' => Carries(k, n) \/ (k = j /\ n = m)
<1> SUFFICES ASSUME NEW k \in Key, NEW n \in 1..MaxTurns, Carries(k, n)'
             PROVE  Carries(k, n) \/ (k = j /\ n = m)
  OBVIOUS
<1>1. ASSUME NEW s, From(s, k), Holds(s, n) PROVE Carries(k, n)
  BY <1>1 DEF From, Holds
<1>2. \/ Holds(file'[k].msgs, n)
      \/ \E o \in 1..Len(objs') : objs'[o].key = k /\ Holds(objs'[o].msgs, n)
      \/ \E w \in Worker : turn'[w].busy /\ turn'[w].key = k /\ turn'[w].n = n
      \/ \E r \in Runner : Live(r)' /\ runner'[r].key = k /\ Holds(runner'[r].batch, n)
  BY DEF Carries, Holds
<1> QED BY <1>1, <1>2

LEMMA IsolatedKept ==
    ASSUME Isolated, Begun, turns' = turns, turns \in Nat,
           \A k \in Key, n \in 1..MaxTurns : Carries(k, n)' => Carries(k, n)
    PROVE  Isolated' /\ Begun'
BY DEF Isolated, Begun

LEMMA FromEmpty == ASSUME NEW k PROVE From(<<>>, k)
BY EmptySeq DEF From

\* A slice has nothing that the sequence does not have.
LEMMA SliceFrom ==
    ASSUME NEW s \in Seq(Message), NEW a \in Int, NEW b \in Int, NEW k, From(s, k)
    PROVE  From(Slice(s, a, b), k)
<1> DEFINE x == Bound(s, a)
           y == Bound(s, b)
<1>1. Len(s) \in Nat
  BY LenProperties
<1>2. x \in 0..Len(s) /\ y \in 0..Len(s)
  BY <1>1 DEF Bound
<1>3. Slice(s, a, b) = SubSeq(s, x + 1, y)
  BY DEF Slice
<1> HIDE DEF x, y
<1>4. CASE x + 1 <= y
  <2>1. \A i \in x + 1..y : s[i] \in Message
    <3> SUFFICES ASSUME NEW i \in x + 1..y PROVE s[i] \in Message
      OBVIOUS
    <3>1. i \in 1..Len(s)
      BY <1>1, <1>2
    <3> QED BY <3>1, ElementOfSeq
  <2> DEFINE c == SubSeq(s, x + 1, y)
  <2>2. /\ Len(c) = IF x + 1 <= y THEN y - (x + 1) + 1 ELSE 0
        /\ \A i \in 1..y - (x + 1) + 1 : c[i] = s[x + 1 + i - 1]
    BY <1>1, <1>2, <2>1, SubSeqProperties
  <2> HIDE DEF c
  <2>3. ASSUME NEW i \in 1..Len(c) PROVE Carries(k, c[i][1])
    <3>1. i \in 1..y - (x + 1) + 1 /\ x + 1 + i - 1 \in 1..Len(s)
      BY <1>1, <1>2, <1>4, <2>2
    <3>2. c[i] = s[x + 1 + i - 1]
      BY <2>2, <3>1
    <3> QED BY <3>1, <3>2 DEF From
  <2> QED BY <1>3, <2>3 DEF From, c
<1>5. CASE ~(x + 1 <= y)
  <2>1. SubSeq(s, x + 1, y) = <<>>
    BY <1>1, <1>2, <1>5, SubSeqEmpty
  <2> QED BY <1>3, <2>1, FromEmpty
<1> QED BY <1>4, <1>5

\* The stores stay, no turn begins, and the batches are old ones.
LEMMA IsolatedUnmoved ==
    ASSUME Inv, Isolated, Begun, UNCHANGED <<stores, turns>>, TurnsKept,
           \A r \in Runner : Live(r)' => From(runner'[r].batch, runner'[r].key)
    PROVE  Isolated' /\ Begun'
<1>1. /\ \A k \in Key : From(file'[k].msgs, k)
      /\ \A o \in 1..Len(objs') : From(objs'[o].msgs, objs'[o].key)
  BY FromItself
<1>2. \A w \in Worker : turn'[w].busy => Carries(turn'[w].key, turn'[w].n)
  BY FromItself DEF TurnsKept
<1>3. \A k \in Key, n \in 1..MaxTurns : Carries(k, n)' => Carries(k, n)
  <2>1. \A k \in Key, n \in 1..MaxTurns : Carries(k, n)' => Carries(k, n) \/ (k = None /\ n = 0)
    BY <1>1, <1>2, NothingNew
  <2> QED BY <2>1
<1> QED BY <1>3, IsolatedKept DEF Inv, Types, OtherTypes

\* A session is saved with messages of its own.
LEMMA IsolatedSaved ==
    ASSUME Inv, Isolated, Begun, turns' = turns, TurnsKept, Fewer, Quiet, NEW o \in 1..Len(objs), NEW s \in Sessions,
           s.key = objs[o].key, Save([objs EXCEPT ![o] = s], o), From(s.msgs, s.key),
           \A r \in Runner : Live(r)' => runner'[r] = runner[r]
    PROVE  Isolated' /\ Begun'
<1>1. /\ Len(objs') = Len(objs) /\ objs'[o] = s /\ \A p \in 1..Len(objs) : p # o => objs'[p] = objs[p]
      /\ file'[s.key] = [msgs |-> s.msgs, lc |-> s.lc] /\ \A k \in Key : k # s.key => file'[k] = file[k]
  BY Saved DEF Inv, Types
<1>2. \A k \in Key : From(file'[k].msgs, k)
  <2>1. file'[s.key].msgs = s.msgs
    BY <1>1
  <2> QED BY <1>1, <2>1, FromItself
<1>3. \A p \in 1..Len(objs') : From(objs'[p].msgs, objs'[p].key)
  BY <1>1, FromItself
<1>4. \A w \in Worker : turn'[w].busy => Carries(turn'[w].key, turn'[w].n)
  BY FromItself DEF TurnsKept
<1>5. \A r \in Runner : Live(r)' => From(runner'[r].batch, runner'[r].key)
  BY FromItself DEF Fewer
<1>6. \A k \in Key, n \in 1..MaxTurns : Carries(k, n)' => Carries(k, n)
  <2>1. \A k \in Key, n \in 1..MaxTurns : Carries(k, n)' => Carries(k, n) \/ (k = None /\ n = 0)
    BY <1>2, <1>3, <1>4, <1>5, NothingNew
  <2> QED BY <2>1
<1> QED BY <1>6, IsolatedKept DEF Inv, Types, OtherTypes


LEMMA IsolatedTurnEnd ==
    ASSUME Inv, Isolated, Begun, NEW w \in Worker, TurnEnd(w)
    PROVE  Isolated' /\ Begun'
<1> DEFINE k == turn[w].key
           o == turn[w].obj
           n == turn[w].n
           pair == Pair(n)
           old == objs[o].msgs
           s == [objs[o] EXCEPT !.msgs = old \o pair]
<1>1. /\ turn[w].busy /\ k \in Key /\ o \in 1..Len(objs) /\ objs[o].key = k /\ n \in 1..MaxTurns
  <2>1. turn[w].busy
    BY DEF TurnEnd
  <2>2. n \in 1..turns /\ turns \in 0..MaxTurns
    BY <2>1 DEF Inv, References, Types, OtherTypes
  <2>3. n \in 1..MaxTurns
    BY <2>2, Bounds
  <2> QED BY <2>1, <2>3 DEF Inv, References
<1>2. /\ objs[o] \in Sessions /\ old \in Seq(Message)
      /\ pair \in Seq(Message) /\ Len(pair) = 2 /\ pair[1][1] = n /\ pair[2][1] = n
  <2>1. StoreTypes
    BY DEF Inv, Types
  <2>2. o \in 1..Len(objs) /\ n \in 1..MaxTurns
    BY <1>1
  <2> HIDE DEF o, n
  <2>3. objs[o] \in Sessions /\ objs[o].msgs \in Seq(Message)
    BY <2>1, <2>2, SessionTyped
  <2>4. /\ Pair(n) \in Seq(Message) /\ Len(Pair(n)) = 2
        /\ Pair(n)[1] = <<n, "user">> /\ Pair(n)[2] = <<n, "assistant">>
    BY <2>2, PairTyped
  <2> QED BY <2>3, <2>4
<1>3. From(old, k) /\ Carries(k, n)
  BY <1>1, FromItself
<1>4. Save([objs EXCEPT ![o] = s], o) /\ UNCHANGED <<tasks, turns>>
  BY DEF TurnEnd
<1> HIDE DEF pair, old
<1>5. old \o pair \in Seq(Message) /\ From(old \o pair, k)
  <2>1. /\ old \o pair \in Seq(Message) /\ Len(old \o pair) = Len(old) + Len(pair)
        /\ \A i \in 1..Len(old) + Len(pair) : (old \o pair)[i] = IF i <= Len(old) THEN old[i] ELSE pair[i - Len(old)]
    BY <1>2, ConcatProperties
  <2>2. Len(old) \in Nat
    BY <1>2, LenProperties
  <2>3. ASSUME NEW i \in 1..Len(old \o pair) PROVE Carries(k, (old \o pair)[i][1])
    <3>1. CASE i <= Len(old)
      <4>1. (old \o pair)[i] = old[i] /\ i \in 1..Len(old)
        BY <2>1, <2>2, <3>1
      <4> QED BY <1>3, <4>1 DEF From
    <3>2. CASE ~(i <= Len(old))
      <4>1. (old \o pair)[i] = pair[i - Len(old)] /\ i - Len(old) \in {1, 2}
        BY <1>2, <2>1, <2>2, <3>2
      <4> QED BY <1>2, <1>3, <4>1
    <3> QED BY <3>1, <3>2
  <2> QED BY <2>1, <2>3 DEF From
<1>6. s \in Sessions /\ s.key = k /\ s.msgs = old \o pair
  BY <1>1, <1>2, <1>5 DEF Sessions
<1>7. TurnsKept
  BY NothingTyped DEF TurnsKept, TurnEnd, Inv, Types, OtherTypes
<1>8. Fewer /\ Quiet
  BY <1>4, Undisturbed DEF Inv, Types
<1>9. \A r \in Runner : Live(r)' => runner'[r] = runner[r]
  BY <1>4
<1> HIDE DEF s, k, o, n
<1>10. From(s.msgs, s.key)
  BY <1>5, <1>6
<1> QED BY <1>1, <1>4, <1>6, <1>7, <1>8, <1>9, <1>10, IsolatedSaved

LEMMA IsolatedSucceeds ==
    ASSUME Inv, Isolated, Begun, NEW r \in Runner, ChatSucceeds(r)
    PROVE  Isolated' /\ Begun'
<1> DEFINE k == runner[r].key
           o == runner[r].obj
           n == Len(objs[o].msgs) - Keep
           s == [objs[o] EXCEPT !.lc = n]
<1>1. /\ Live(r) /\ k \in Key /\ runner[r].kind \in Kinds /\ Leaves(r) /\ UNCHANGED <<turn, turns>>
  BY AtWork, Finishing DEF ChatSucceeds, Inv, References, Types
<1>2. TurnsKept /\ Fewer /\ Quiet /\ \A q \in Runner : Live(q)' => runner'[q] = runner[q]
  BY <1>1, Left DEF TurnsKept, Inv, Types
<1>3. CASE runner[r].kind = "archive"
  <2>1. UNCHANGED stores
    BY <1>3 DEF ChatSucceeds
  <2>2. \A q \in Runner : Live(q)' => From(runner'[q].batch, runner'[q].key)
    BY <1>2, FromItself DEF Fewer
  <2> QED BY <1>1, <1>2, <2>1, <2>2, IsolatedUnmoved
<1>4. CASE runner[r].kind = "window"
  <2>1. o \in 1..Len(objs) /\ objs[o].key = k
    BY <1>1, <1>4 DEF Inv, References
  <2>2. objs[o] \in Sessions /\ Len(objs[o].msgs) \in Nat
    BY <2>1, SessionTyped, LenProperties DEF Inv, Types
  <2>3. s \in Sessions /\ s.key = k /\ s.msgs = objs[o].msgs
    BY <2>1, <2>2, Bounds, SMTT(60) DEF Sessions
  <2>4. Save([objs EXCEPT ![o] = s], o)
    BY <1>4 DEF ChatSucceeds
  <2>5. From(s.msgs, s.key)
    BY <2>1, <2>3, FromItself
  <2> HIDE DEF s, k, o
  <2> QED BY <1>1, <1>2, <2>1, <2>3, <2>4, <2>5, IsolatedSaved
<1> QED BY <1>1, <1>3, <1>4, Bounds

\* A batch is taken from the object of its session.
LEMMA IsolatedProceeds ==
    ASSUME Inv, Isolated, Begun, NEW r \in Runner, RunnerStart(r) \/ RunnerAcquires(r)
    PROVE  Isolated' /\ Begun'
<1> DEFINE f == runner[r]
           k == f.key
           msgs == objs[f.obj].msgs
           lc == objs[f.obj].lc
           batch == IF f.kind = "archive" THEN f.batch ELSE Slice(msgs, lc, IF Keep = 0 THEN 0 ELSE -Keep)
<1>1. /\ UNCHANGED <<stores, turn, turns>> /\ Live(r) /\ k \in Key /\ f.kind \in Kinds
      /\ f \in Runners /\ runner \in [Runner -> Runners]
  BY AtWork, RunnerTyped DEF RunnerStart, RunnerAcquires, Inv, Types, References, TaskTypes
<1>2. \/ Retire(r)
      \/ runner' = [runner EXCEPT ![r].pc = "waiting"]
      \/ runner' = [runner EXCEPT ![r].pc = "chat", ![r].batch = batch, ![r].mem = memory]
  <2>1. \/ Retire(r) \/ runner' = [runner EXCEPT ![r].pc = "waiting"]
        \/ \E q : Begin(r, q)
    BY DEF RunnerStart, RunnerAcquires
  <2> QED BY <2>1 DEF Begin
<1>3. From(batch, k)
  <2>1. CASE f.kind = "archive"
    BY <1>1, <2>1, FromItself
  <2>2. CASE f.kind # "archive"
    <3>1. f.obj \in 1..Len(objs) /\ objs[f.obj].key = k
      BY <1>1, <2>2, Bounds DEF Inv, References
    <3>2. msgs \in Seq(Message) /\ lc \in Int /\ From(msgs, k)
      BY <3>1, SessionTyped, FromItself DEF Inv, Types
    <3>3. (IF Keep = 0 THEN 0 ELSE -Keep) \in Int
      BY Bounds
    <3> HIDE DEF msgs, lc, k
    <3> QED BY <2>2, <3>2, <3>3, SliceFrom
  <2> QED BY <2>1, <2>2
<1> HIDE DEF batch
<1>4. ASSUME NEW q \in Runner, Live(q)' PROVE From(runner'[q].batch, runner'[q].key)
  <2>1. CASE q # r
    <3>1. runner'[q] = runner[q] /\ Live(q)
      BY <1>1, <1>2, <1>4, <2>1 DEF Retire, Live
    <3> QED BY <3>1, FromItself
  <2>2. CASE q = r
    <3>1. ~Retire(r)
      BY <1>1, <1>4, <2>2, NothingTyped DEF Retire, Live
    <3>2. CASE runner' = [runner EXCEPT ![r].pc = "waiting"]
      <4>1. runner'[r] = [f EXCEPT !.pc = "waiting"]
        BY <1>1, <3>2
      <4>2. runner'[r].batch = f.batch /\ runner'[r].key = k
        BY <1>1, <4>1 DEF Runners
      <4> QED BY <1>1, <2>2, <4>2, FromItself
    <3>3. CASE runner' = [runner EXCEPT ![r].pc = "chat", ![r].batch = batch, ![r].mem = memory]
      <4>1. runner'[r] = [f EXCEPT !.pc = "chat", !.batch = batch, !.mem = memory]
        BY <1>1, <3>3
      <4>2. runner'[r].batch = batch /\ runner'[r].key = k
        BY <1>1, <4>1 DEF Runners
      <4> QED BY <1>3, <2>2, <4>2
    <3> QED BY <1>2, <3>1, <3>2, <3>3
  <2> QED BY <2>1, <2>2
<1> QED BY <1>1, <1>4, IsolatedUnmoved DEF TurnsKept


\* A session is opened: a new object has what its file has, and the turn that
\* begins brings a number nobody has.
LEMMA IsolatedTurnStart ==
    ASSUME Inv, Isolated, Begun, NEW w \in Worker, NEW k \in Key, NEW special \in BOOLEAN, TurnStart(w, k, special)
    PROVE  Isolated' /\ Begun'
<1> DEFINE o == Handle(k)
           f == [Idle EXCEPT !.pc = "created", !.kind = "window", !.key = k, !.obj = o]
           new == [busy |-> TRUE, key |-> k, obj |-> o, n |-> turns + 1, edited |-> FALSE, cancel |-> FALSE]
<1>1. /\ turn' = [turn EXCEPT ![w] = new] /\ turns' = turns + 1 /\ turns \in Nat
      /\ objs' = Opened(k) /\ file' = file
  BY DEF TurnStart, Inv, Types, OtherTypes
<1>2. Schedule(k, "window", f) \/ UNCHANGED <<runner, table, requested>>
  BY DEF TurnStart
<1>3. lock' = lock
  BY DEF TurnStart
<1>4. /\ objs' \in Seq(Sessions) /\ o \in 1..Len(objs')
      /\ \A p \in 1..Len(objs) : objs'[p] = objs[p]
      /\ \A p \in 1..Len(objs') : p \in 1..Len(objs) \/ p = o
      /\ cache[k] # 0 => o = cache[k]
      /\ cache[k] = 0 => objs'[o] = [key |-> k, msgs |-> file[k].msgs, lc |-> file[k].lc]
  BY <1>1, Opening DEF Inv, Types
<1>5. o \in Nat
  BY <1>4, LenProperties
<1>6. new.key = k /\ new.n = turns + 1
  OBVIOUS
<1> HIDE DEF o, new
<1>7. f \in Runners /\ f.pc = "created" /\ f.kind = "window" /\ f.key = k /\ f.batch = <<>>
  BY <1>5, NothingTyped, Bounds DEF Runners, Idle
<1> HIDE DEF f
<1>8. \A q \in Runner : Live(q)' => (Live(q) /\ runner'[q] = runner[q]) \/ runner'[q] = f
  <2>1. UNCHANGED tasks \/ \E q \in Runner : Placed(q, f)
    BY <1>2, <1>3, <1>7, Scheduling, Bounds DEF Inv, Types
  <2> QED BY <1>7, <2>1, Placing, Bounds DEF Inv, Types
<1>9. \A q \in Runner : Live(q)' => From(runner'[q].batch, runner'[q].key)
  BY <1>7, <1>8, FromItself, FromEmpty
<1>10. \A l \in Key : From(file'[l].msgs, l)
  BY <1>1, FromItself
<1>11. \A p \in 1..Len(objs') : From(objs'[p].msgs, objs'[p].key)
  <2> SUFFICES ASSUME NEW p \in 1..Len(objs') PROVE From(objs'[p].msgs, objs'[p].key)
    OBVIOUS
  <2>1. CASE p \in 1..Len(objs)
    BY <1>4, <2>1, FromItself
  <2>2. CASE p = o /\ cache[k] = 0
    BY <1>4, <2>2, FromItself
  <2>3. CASE p = o /\ cache[k] # 0
    <3>1. p \in 1..Len(objs)
      BY <1>4, <2>3 DEF Inv, References
    <3> QED BY <2>1, <3>1
  <2> QED BY <1>4, <2>1, <2>2, <2>3
<1>12. \A v \in Worker : turn'[v].busy =>
           Carries(turn'[v].key, turn'[v].n) \/ (turn'[v].key = k /\ turn'[v].n = turns + 1)
  <2> SUFFICES ASSUME NEW v \in Worker, turn'[v].busy
               PROVE  Carries(turn'[v].key, turn'[v].n) \/ (turn'[v].key = k /\ turn'[v].n = turns + 1)
    OBVIOUS
  <2>1. CASE v = w
    BY <1>1, <1>6, <2>1 DEF Inv, Types, OtherTypes
  <2>2. CASE v # w
    <3>1. turn'[v] = turn[v]
      BY <1>1, <2>2 DEF Inv, Types, OtherTypes
    <3> QED BY <3>1, FromItself
  <2> QED BY <2>1, <2>2
<1> DEFINE next == turns + 1
<1>13. \A l \in Key, n \in 1..MaxTurns : Carries(l, n)' => Carries(l, n) \/ (l = k /\ n = next)
  <2> HIDE DEF next
  <2>1. \A v \in Worker : turn'[v].busy =>
           Carries(turn'[v].key, turn'[v].n) \/ (turn'[v].key = k /\ turn'[v].n = next)
    BY <1>12 DEF next
  <2> QED BY <1>9, <1>10, <1>11, <2>1, NothingNew
<1>14. \A l \in Key : ~Carries(l, next) \/ next \notin 1..MaxTurns
  BY <1>1 DEF Begun
<1>15. Isolated'
  <2> SUFFICES ASSUME NEW n \in 1..MaxTurns, NEW l \in Key, NEW m \in Key, Carries(l, n)', Carries(m, n)'
               PROVE  l = m
    BY DEF Isolated
  <2>1. CASE n = next
    BY <1>13, <1>14, <2>1
  <2>2. CASE n # next
    BY <1>13, <2>2 DEF Isolated
  <2> QED BY <2>1, <2>2
<1>16. Begun'
  <2> SUFFICES ASSUME NEW n \in 1..MaxTurns, NEW l \in Key, Carries(l, n)' PROVE n <= turns'
    BY DEF Begun
  <2>1. Carries(l, n) \/ n = next
    BY <1>13
  <2> QED BY <1>1, <2>1 DEF Begun
<1> QED BY <1>15, <1>16

\* A /new empties one object and its file, and its archive has what they had.
LEMMA IsolatedNewSession ==
    ASSUME Inv, Isolated, Begun, NEW w \in Worker, NEW k \in Key, NewSession(w, k)
    PROVE  Isolated' /\ Begun'
<1> DEFINE o == Handle(k)
           os == Opened(k)
           old == os[o].msgs
           none == <<>>
           zero == 0
           s == [os[o] EXCEPT !.msgs = none, !.lc = zero]
           f == [Idle EXCEPT !.pc = "created", !.kind = "archive", !.key = k, !.batch = old]
<1>1. /\ objs' = [os EXCEPT ![o].msgs = <<>>, ![o].lc = 0] /\ file' = [file EXCEPT ![k] = Empty]
      /\ Schedule(k, "archive", f) /\ UNCHANGED <<turn, lock, turns>>
  BY DEF NewSession
<1>2. /\ os \in Seq(Sessions) /\ o \in 1..Len(os) /\ os[o].key = k
      /\ \A p \in 1..Len(objs) : p \in 1..Len(os) /\ os[p] = objs[p]
      /\ \A p \in 1..Len(os) : p \in 1..Len(objs) \/ p = o
      /\ cache[k] # 0 => o = cache[k]
      /\ cache[k] = 0 => os[o] = [key |-> k, msgs |-> file[k].msgs, lc |-> file[k].lc]
  BY Opening DEF Inv, Types
<1> HIDE DEF o, os
<1>3. os[o] \in Sessions /\ old \in Seq(Message) /\ none \in Seq(Message) /\ zero \in Int
  <2>1. os[o] \in Sessions
    BY <1>2, ElementOfSeq
  <2>2. none \in Seq(Message)
    BY EmptySeq
  <2> QED BY <2>1, <2>2 DEF Sessions
<1>4. From(old, k)
  <2>1. CASE cache[k] = 0
    <3>1. old = file[k].msgs
      BY <1>2, <2>1
    <3> QED BY <3>1, FromItself
  <2>2. CASE cache[k] # 0
    <3>1. o \in 1..Len(objs) /\ os[o] = objs[o]
      BY <1>2, <2>2 DEF Inv, References
    <3> QED BY <1>2, <3>1, FromItself
  <2> QED BY <2>1, <2>2
<1>5. s \in Sessions /\ s.key = k /\ s.msgs = <<>>
  <2>1. s \in Sessions /\ s.key = k /\ s.msgs = none
    <3> HIDE DEF none, zero
    <3> QED BY <1>2, <1>3 DEF Sessions
  <2> QED BY <2>1
<1>6. objs' = [os EXCEPT ![o] = s]
  BY <1>1, <1>2
<1> HIDE DEF s, old
<1>7. f \in Runners /\ f.pc = "created" /\ f.kind = "archive" /\ f.key = k /\ f.batch = old
  BY <1>3, NothingTyped, Bounds DEF Runners
<1> HIDE DEF f
<1>8. \A q \in Runner : Live(q)' => (Live(q) /\ runner'[q] = runner[q]) \/ runner'[q] = f
  <2>1. UNCHANGED tasks \/ \E q \in Runner : Placed(q, f)
    BY <1>1, <1>7, Scheduling, Bounds DEF Inv, Types
  <2> QED BY <1>7, <2>1, Placing, Bounds DEF Inv, Types
<1>9. \A q \in Runner : Live(q)' => From(runner'[q].batch, runner'[q].key)
  BY <1>4, <1>7, <1>8, FromItself
<1>10. \A l \in Key : From(file'[l].msgs, l)
  <2>1. file'[k].msgs = <<>> /\ \A l \in Key : l # k => file'[l] = file[l]
    BY <1>1, NothingTyped DEF Inv, Types, StoreTypes
  <2> QED BY <2>1, FromItself, FromEmpty
<1>11. \A p \in 1..Len(objs') : From(objs'[p].msgs, objs'[p].key)
  <2>1. Len(objs') = Len(os) /\ objs'[o] = s /\ \A p \in 1..Len(os) : p # o => objs'[p] = os[p]
    BY <1>2, <1>5, <1>6, Replaced
  <2> SUFFICES ASSUME NEW p \in 1..Len(objs') PROVE From(objs'[p].msgs, objs'[p].key)
    OBVIOUS
  <2>2. CASE p = o
    BY <1>5, <2>1, <2>2, FromEmpty
  <2>3. CASE p # o
    <3>1. p \in 1..Len(objs) /\ objs'[p] = objs[p]
      BY <1>2, <2>1, <2>3
    <3> QED BY <3>1, FromItself
  <2> QED BY <2>2, <2>3
<1>12. \A v \in Worker : turn'[v].busy => Carries(turn'[v].key, turn'[v].n)
  BY <1>1, FromItself
<1>13. \A l \in Key, n \in 1..MaxTurns : Carries(l, n)' => Carries(l, n)
  <2>1. \A l \in Key, n \in 1..MaxTurns : Carries(l, n)' => Carries(l, n) \/ (l = None /\ n = 0)
    BY <1>9, <1>10, <1>11, <1>12, NothingNew
  <2> QED BY <2>1
<1> QED BY <1>1, <1>13, IsolatedKept DEF Inv, Types, OtherTypes

LEMMA IsolatedRestart ==
    ASSUME Inv, Isolated, Begun, Restart
    PROVE  Isolated' /\ Begun'
<1>1. /\ \A r \in Runner : ~Live(r)'
      /\ \A w \in Worker : ~turn'[w].busy
  BY NothingTyped DEF Restart, Live
<1>2. UNCHANGED <<file, turns>> /\ Len(objs') = 0
  BY EmptySeq DEF Restart
<1>3. /\ \A k \in Key : From(file'[k].msgs, k)
      /\ \A o \in 1..Len(objs') : From(objs'[o].msgs, objs'[o].key)
  BY <1>2, FromItself
<1>4. \A k \in Key, n \in 1..MaxTurns : Carries(k, n)' => Carries(k, n)
  <2>1. \A k \in Key, n \in 1..MaxTurns : Carries(k, n)' => Carries(k, n) \/ (k = None /\ n = 0)
    BY <1>1, <1>3, NothingNew
  <2> QED BY <2>1
<1> QED BY <1>2, <1>4, IsolatedKept DEF Inv, Types, OtherTypes

LEMMA IsolatedStep ==
    ASSUME Inv, Isolated, Begun, [Next]_vars
    PROVE  Isolated' /\ Begun'
<1>1. ASSUME TurnsKept, UNCHANGED <<stores, turns, runner>> PROVE Isolated' /\ Begun'
  <2>1. \A r \in Runner : Live(r)' => From(runner'[r].batch, runner'[r].key)
    BY <1>1, FromItself DEF Live
  <2> QED BY <1>1, <2>1, IsolatedUnmoved
<1>2. ASSUME NEW w \in Worker, TurnEdits(w) \/ TurnFails(w) PROVE Isolated' /\ Begun'
  <2>1. \A v \in Worker : v # w => turn'[v] = turn[v]
    BY <1>2 DEF TurnEdits, TurnFails, Inv, Types, OtherTypes
  <2>2. turn[w] \in Turns
    BY DEF Inv, Types, OtherTypes
  <2>3. CASE TurnFails(w)
    <3>1. TurnsKept
      BY <2>1, <2>3, NothingTyped DEF TurnFails, TurnsKept, Inv, Types, OtherTypes
    <3> QED BY <1>1, <2>3, <3>1 DEF TurnFails
  <2>4. CASE TurnEdits(w)
    <3>1. turn'[w] = [turn[w] EXCEPT !.edited = TRUE]
      BY <2>4 DEF TurnEdits, Inv, Types, OtherTypes
    <3>2. TurnsKept
      BY <2>1, <2>2, <3>1 DEF TurnsKept, Turns
    <3> QED BY <1>1, <2>4, <3>2 DEF TurnEdits
  <2> QED BY <1>2, <2>3, <2>4
<1>3. ASSUME NEW r \in Runner, ChatFails(r) \/ ChatHalfWritten(r) \/ RunnerCancelled(r)
      PROVE  Isolated' /\ Begun'
  <2>1. Leaves(r) /\ Live(r) /\ UNCHANGED <<stores, turn, turns>>
    BY <1>3, Finishing, Cancelled, AtWork DEF Inv, Types, ChatFails, ChatHalfWritten, RunnerCancelled
  <2>2. TurnsKept /\ \A q \in Runner : Live(q)' => Live(q) /\ runner'[q] = runner[q]
    BY <2>1, Left DEF TurnsKept, Fewer, Inv, Types
  <2>3. \A q \in Runner : Live(q)' => From(runner'[q].batch, runner'[q].key)
    BY <2>2, FromItself
  <2> QED BY <2>1, <2>2, <2>3, IsolatedUnmoved
<1>4. CASE Stop \/ AClose
  <2>1. UNCHANGED <<stores, runner, turn, turns>>
    BY <1>4 DEF Stop, AClose
  <2> QED BY <1>1, <2>1 DEF TurnsKept
<1>5. CASE DrainStart
  <2>1. TurnsKept
    <3> SUFFICES ASSUME NEW v \in Worker
                 PROVE  /\ turn'[v].busy = turn[v].busy /\ turn'[v].key = turn[v].key
                        /\ turn'[v].obj = turn[v].obj /\ turn'[v].n = turn[v].n
      BY DEF TurnsKept
    <3>1. turn[v] \in Turns /\ turn'[v] = [turn[v] EXCEPT !.cancel = turn[v].busy]
      BY <1>5 DEF DrainStart, Inv, Types, OtherTypes
    <3> QED BY <3>1 DEF Turns
  <2> QED BY <1>1, <1>5, <2>1 DEF DrainStart
<1>6. CASE UNCHANGED vars
  BY <1>1, <1>6 DEF vars, TurnsKept
<1> QED BY <1>2, <1>3, <1>4, <1>5, <1>6, IsolatedTurnStart, IsolatedTurnEnd, IsolatedProceeds,
           IsolatedSucceeds, IsolatedNewSession, IsolatedRestart DEF Next, TurnNext, RunnerNext

LEMMA IsolatedInit == Init => Isolated /\ Begun
<1> SUFFICES ASSUME Init PROVE \A k \in Key, n \in 1..MaxTurns : ~Carries(k, n)
  BY DEF Isolated, Begun
<1>1. /\ \A r \in Runner : ~Live(r)
      /\ \A w \in Worker : ~turn[w].busy
  BY NothingTyped DEF Init, Live
<1>2. Len(objs) = 0 /\ \A k \in Key : Len(file[k].msgs) = 0
  BY NothingTyped, EmptySeq DEF Init
<1> QED BY <1>1, <1>2 DEF Carries, Holds

\* Whatever turns, consolidations, /new commands, cancellations and restarts do,
\* nothing that was said in one session is ever in another, in its file, in a
\* Session object, cached or not, or in a batch that is summarised on its behalf
\* (SessionManager: one file per key; _consolidate_memory).
THEOREM SessionsAreIsolated == Spec => []Isolated
<1>1. Init => Isolated /\ Begun
  BY IsolatedInit
<1>2. Inv /\ Isolated /\ Begun /\ [Next]_vars => Isolated' /\ Begun'
  BY IsolatedStep
<1> QED BY <1>1, <1>2, InductiveInvariant, PTL DEF Spec

=============================================================================
