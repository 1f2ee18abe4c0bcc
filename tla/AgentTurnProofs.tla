--------------------------- MODULE AgentTurnProofs ---------------------------
(***************************************************************************)
(* Proofs about AgentTurn for any number of workers, chats and tools, any  *)
(* set of replies, and any bounds on iterations, attempts, turns and       *)
(* catalogs; and about DeepThink, the engine a turn may await, for any     *)
(* number of thinkers, any of them with a fallback model, and any answers. *)
(***************************************************************************)
EXTENDS AgentTurn, DeepThink, TLAPS, SequenceTheorems, FiniteSetTheorems, WellFoundedInduction

-----------------------------------------------------------------------------
(* The invariant *)

\* What may run: an MCP name has its own route.
Runnable == Tool \ Mcp

Turns ==
    [pc : {"idle", "think", "refine", "model", "tool", "snapshot", "ask", "recheck", "call", "synthesis"},
     route : {None, "simple", "deepthink", "system", "forced", "refine", "mcp"},
     chat : Chat \cup {None}, action : BOOLEAN,
     allow : BOOLEAN, limit : {2, 3}, iter : 0..MaxIterations, fails : 0..Attempts,
     pending : Seq(Tool), tool : Tool \cup {None}, reasoning : 0..3, concrete : BOOLEAN,
     used : Seq(Runnable), prompted : BOOLEAN, pass : {1, 2},
     earlier : Seq(Runnable), ran : Seq(Runnable), pressed : Nat, round : 1..3, snapshot : Nat]

TypeOK ==
    /\ turn \in [Worker -> Turns]
    /\ context \in Chat \cup {None}
    /\ catalog \in 0..catalogs /\ catalogs \in 0..MaxCatalogs
    /\ started \in 0..MaxTurns

Places(used) == {i \in 1..Len(used) : used[i] \in Reasoning}

\* The counter counts, and the flag says that a concrete tool came after the
\* last reasoning tool.
Paced(t) ==
    /\ t.reasoning = Cardinality(Places(t.used))
    /\ t.reasoning <= t.limit
    /\ ~t.allow => Places(t.used) = {}
    /\ t.pass = 2 => ~t.allow
    /\ \A i, j \in Places(t.used) : i < j => \E k \in i..j : t.used[k] \in Concrete
    /\ t.concrete => \A i \in Places(t.used) : \E k \in i..Len(t.used) : t.used[k] \in Concrete

\* What ran is what the passes used, and whoever was pressed was told so.
Accounted(t) ==
    /\ t.ran = t.earlier \o t.used
    /\ t.pass = 1 => t.earlier = <<>>
    /\ t.prompted \/ t.pass = 2 => t.pressed > 0

\* Only the turn of a chat reaches the loop, and what was asked of a command
\* is done without.
Routed(t) ==
    /\ t.pc \in {"model", "tool"} => t.chat \in Chat /\ t.route \in {"simple", "deepthink", "system"}
    /\ t.pc = "think" => t.route = "forced" \/ (t.route = "deepthink" /\ t.chat \in Chat)
    /\ t.pc = "refine" => t.route = "refine"
    /\ t.pc = "think" => t.used = <<>> /\ t.earlier = <<>> /\ t.pass = 1
    /\ t.route \in {"forced", "refine", "mcp"} => ~t.action
    /\ t.pc = "tool" => Len(t.used) > 0 /\ t.tool = t.used[Len(t.used)]

TurnInv(t) == Paced(t) /\ Accounted(t) /\ Routed(t)

\* What the last step did to the outside.
Outside ==
    /\ last.kind = "mcp" => last.snapshot = last.catalog
    /\ WorkAccounted

Inv == TypeOK /\ (\A w \in Worker : TurnInv(turn[w])) /\ Outside

-----------------------------------------------------------------------------
(* Sequences of calls *)

\* A set of numbers has a least one.
LEMMA LeastElement ==
    ASSUME NEW S \in SUBSET Nat, S # {} PROVE Min(S) \in S /\ \A e \in S : Min(S) <= e
<1> DEFINE R == OpToRel(<, Nat)
<1>1. \E d \in S : \A e \in S : ~ (<<e, d>> \in R)
  <2>1. IsWellFoundedOn(R, Nat)
    BY NatLessThanWellFounded
  <2> HIDE DEF R
  <2> QED BY <2>1, WFMin, Zenon
<1>2. \A d, e \in Nat : <<e, d>> \in R <=> e < d
  BY DEF OpToRel
<1> HIDE DEF R
<1>3. PICK d \in S : \A e \in S : ~ (<<e, d>> \in R)
  BY <1>1
<1>4. \A e \in S : d <= e
  <2>1. d \in Nat /\ \A e \in S : e \in Nat
    BY <1>3
  <2>2. \A e \in S : ~(e < d)
    BY <1>2, <1>3, <2>1, Zenon
  <2> QED BY <2>1, <2>2
<1> QED BY <1>3, <1>4 DEF Min

\* Which call of a reply runs: the first that is not blocked.
LEMMA FirstUnblocked ==
    ASSUME NEW calls \in Seq(Tool), NEW t,
           NEW i, i = SelectInSeq(calls, LAMBDA n : ~Blocked(t, n))
    PROVE  i = 0 \/ (i \in 1..Len(calls) /\ ~Blocked(t, calls[i]))
<1> DEFINE I == {j \in 1..Len(calls) : ~Blocked(t, calls[j])}
<1>1. i = IF I # {} THEN Min(I) ELSE 0
  BY DEF SelectInSeq
<1>2. I \in SUBSET Nat
  BY LenProperties
<1>3. CASE I = {}
  BY <1>1, <1>3
<1>4. CASE I # {}
  <2>1. i \in I
    <3>1. i = Min(I)
      BY <1>1, <1>4
    <3> HIDE DEF I
    <3> QED BY <1>2, <1>4, <3>1, LeastElement
  <2> QED BY <2>1
<1> QED BY <1>3, <1>4

LEMMA AppendToConcat ==
    ASSUME NEW a \in Seq(Runnable), NEW b \in Seq(Runnable), NEW e \in Runnable
    PROVE  Append(a \o b, e) = a \o Append(b, e)
<1>1. a \o b \in Seq(Runnable) /\ <<e>> \in Seq(Runnable)
  BY ConcatProperties
<1>2. Append(a \o b, e) = (a \o b) \o <<e>> /\ Append(b, e) = b \o <<e>>
  BY <1>1, AppendIsConcat
<1>3. (a \o b) \o <<e>> = a \o (b \o <<e>>)
  BY <1>1, ConcatAssociative
<1> QED BY <1>2, <1>3

\* The places of a sequence are a finite set, and one more call adds at most
\* one place.
LEMMA PlacesFinite ==
    ASSUME NEW used \in Seq(Runnable)
    PROVE  IsFiniteSet(Places(used)) /\ Cardinality(Places(used)) \in Nat /\ Places(used) \subseteq 1..Len(used)
<1>1. Len(used) \in Nat
  BY LenProperties
<1>2. IsFiniteSet(1..Len(used))
  BY <1>1, FS_Interval
<1>3. Places(used) \subseteq 1..Len(used)
  BY DEF Places
<1> QED BY <1>2, <1>3, FS_Subset, FS_CardinalityType

LEMMA AppendPlaces ==
    ASSUME NEW used \in Seq(Runnable), NEW name \in Runnable
    PROVE  LET more == Append(used, name) IN
           /\ name \in Reasoning =>
                 /\ Places(more) = Places(used) \cup {Len(used) + 1}
                 /\ Cardinality(Places(more)) = Cardinality(Places(used)) + 1
           /\ name \notin Reasoning => Places(more) = Places(used)
<1> DEFINE more == Append(used, name)
<1>1. /\ more \in Seq(Runnable) /\ Len(more) = Len(used) + 1 /\ Len(used) \in Nat
      /\ more[Len(used) + 1] = name /\ \A i \in 1..Len(used) : more[i] = used[i]
  BY AppendProperties, LenProperties
<1> HIDE DEF more
<1>2. \A i : i \in 1..Len(more) <=> i \in 1..Len(used) \/ i = Len(used) + 1
  BY <1>1
<1>3. name \notin Reasoning => Places(more) = Places(used)
  BY <1>1, <1>2 DEF Places
<1>4. name \in Reasoning => Places(more) = Places(used) \cup {Len(used) + 1}
  BY <1>1, <1>2 DEF Places
<1>5. Len(used) + 1 \notin Places(used)
  BY <1>1 DEF Places
<1>6. Cardinality(Places(used) \cup {Len(used) + 1}) = Cardinality(Places(used)) + 1
  BY <1>5, PlacesFinite, FS_AddElement
<1> QED BY <1>3, <1>4, <1>6 DEF more

-----------------------------------------------------------------------------
(* The steps of the loop, as functions of the turn *)

\* Running a call that is not blocked.
LEMMA RunsKeeps ==
    ASSUME NEW t \in Turns, TurnInv(t), t.pc \in {"model", "tool"},
           NEW name \in Tool, ~Blocked(t, name), NEW rest \in Seq(Tool)
    PROVE  LET r == Runs(t, name, rest) IN
           r \in Turns /\ TurnInv(r) /\ r.chat = t.chat
<1> DEFINE r == Runs(t, name, rest)
           more == Append(t.used, name)
<1>1. name \in Runnable /\ t.limit \in {2, 3} /\ t.reasoning \in 0..3 /\ t.used \in Seq(Runnable)
      /\ t.earlier \in Seq(Runnable) /\ t.ran \in Seq(Runnable)
  BY DEF Turns, Blocked, Runnable
<1>2. Max({1, t.limit}) = t.limit
  BY <1>1 DEF Max
<1>3. name \in Reasoning =>
          t.allow /\ t.reasoning < t.limit /\ (t.reasoning = 0 \/ t.concrete)
  BY <1>1, <1>2 DEF Blocked, Turns
<1>4. /\ r.pc = "tool" /\ r.tool = name /\ r.pending = rest /\ r.fails = 0
      /\ r.reasoning = (IF name \in Reasoning THEN t.reasoning + 1 ELSE t.reasoning)
      /\ r.concrete = (IF name \in Reasoning THEN FALSE ELSE t.concrete)
      /\ r.used = more /\ r.ran = Append(t.ran, name)
      /\ r.route = t.route /\ r.chat = t.chat /\ r.action = t.action
      /\ r.allow = t.allow /\ r.limit = t.limit /\ r.iter = t.iter /\ r.prompted = t.prompted
      /\ r.pass = t.pass /\ r.earlier = t.earlier /\ r.pressed = t.pressed
      /\ r.round = t.round /\ r.snapshot = t.snapshot
  BY DEF Runs, Turns
<1>5. /\ more \in Seq(Runnable) /\ Len(more) = Len(t.used) + 1 /\ Len(t.used) \in Nat
      /\ more[Len(t.used) + 1] = name /\ \A i \in 1..Len(t.used) : more[i] = t.used[i]
      /\ Append(t.ran, name) \in Seq(Runnable)
  BY <1>1, AppendProperties, LenProperties
<1>6. r \in Turns
  <2> DEFINE count == IF name \in Reasoning THEN t.reasoning + 1 ELSE t.reasoning
             flag == IF name \in Reasoning THEN FALSE ELSE t.concrete
             ran == Append(t.ran, name)
  <2>1. r = [t EXCEPT !.pc = "tool", !.tool = name, !.pending = rest, !.fails = 0, !.reasoning = count,
                      !.concrete = flag, !.used = more, !.ran = ran]
    BY DEF Runs
  <2>2. count \in 0..3 /\ flag \in BOOLEAN /\ more \in Seq(Runnable) /\ ran \in Seq(Runnable) /\ 0 \in 0..Attempts
    <3>1. count \in 0..3
      BY <1>1, <1>3
    <3>2. flag \in BOOLEAN
      BY DEF Turns
    <3>3. more \in Seq(Runnable) /\ ran \in Seq(Runnable)
      BY <1>5
    <3>4. 0 \in 0..Attempts
      BY ConstantsAssumption
    <3> QED BY <3>1, <3>2, <3>3, <3>4
  <2> HIDE DEF count, flag, more, ran, r
  <2> QED BY <2>1, <2>2, ZenonT(60) DEF Turns
<1>7. /\ name \in Reasoning =>
            /\ Places(more) = Places(t.used) \cup {Len(t.used) + 1}
            /\ Cardinality(Places(more)) = Cardinality(Places(t.used)) + 1
      /\ name \notin Reasoning => Places(more) = Places(t.used)
      /\ Places(t.used) \subseteq 1..Len(t.used)
  BY <1>1, AppendPlaces, PlacesFinite
<1>8. t.reasoning = 0 => Places(t.used) = {}
  BY <1>1, PlacesFinite, FS_EmptySet DEF TurnInv, Paced
<1> HIDE DEF r, more
<1>9. Paced(r)
  <2>1. r.reasoning = Cardinality(Places(r.used)) /\ r.reasoning <= r.limit
    BY <1>1, <1>3, <1>4, <1>7 DEF TurnInv, Paced
  <2>2. (~r.allow => Places(r.used) = {}) /\ (r.pass = 2 => ~r.allow)
    BY <1>3, <1>4, <1>7 DEF TurnInv, Paced
  <2>3. ASSUME NEW i \in Places(r.used), NEW j \in Places(r.used), i < j
        PROVE  \E k \in i..j : r.used[k] \in Concrete
    <3>1. CASE j \in Places(t.used)
      <4>1. i \in Places(t.used)
        BY <1>4, <1>5, <1>7, <2>3, <3>1
      <4>2. PICK k \in i..j : t.used[k] \in Concrete
        BY <2>3, <3>1, <4>1 DEF TurnInv, Paced
      <4>3. k \in 1..Len(t.used) /\ k \in i..j
        BY <1>5, <1>7, <3>1, <4>1, <4>2
      <4> QED BY <1>4, <1>5, <4>2, <4>3
    <3>2. CASE j \notin Places(t.used)
      <4>1. j = Len(t.used) + 1 /\ name \in Reasoning /\ i \in Places(t.used)
        BY <1>4, <1>5, <1>7, <2>3, <3>2
      <4>2. t.concrete
        BY <1>3, <1>8, <4>1
      <4>3. PICK k \in i..Len(t.used) : t.used[k] \in Concrete
        BY <4>1, <4>2 DEF TurnInv, Paced
      <4>4. k \in 1..Len(t.used) /\ k \in i..j
        BY <1>5, <1>7, <4>1, <4>3
      <4> QED BY <1>4, <1>5, <4>3, <4>4
    <3> QED BY <3>1, <3>2
  <2>4. ASSUME r.concrete, NEW i \in Places(r.used)
        PROVE  \E k \in i..Len(r.used) : r.used[k] \in Concrete
    <3>1. name \notin Reasoning /\ t.concrete /\ i \in Places(t.used)
      BY <1>4, <1>7, <2>4
    <3>2. PICK k \in i..Len(t.used) : t.used[k] \in Concrete
      BY <3>1 DEF TurnInv, Paced
    <3> QED BY <1>4, <1>5, <1>7, <3>1, <3>2
  <2> QED BY <2>1, <2>2, <2>3, <2>4 DEF Paced
<1>10. Accounted(r)
  <2>1. Append(t.earlier \o t.used, name) = t.earlier \o Append(t.used, name)
    BY <1>1, AppendToConcat
  <2> QED BY <1>4, <2>1 DEF TurnInv, Accounted, more
<1>11. Routed(r)
  BY <1>4, <1>5 DEF TurnInv, Routed
<1> QED BY <1>4, <1>6, <1>9, <1>10, <1>11 DEF r, TurnInv

\* The tool has returned: the flag is set if it was a concrete one.
LEMMA ReturnKeeps ==
    ASSUME NEW t \in Turns, TurnInv(t), t.pc = "tool"
    PROVE  LET r == [t EXCEPT !.concrete = @ \/ t.tool \notin Reasoning] IN
           /\ r \in Turns /\ TurnInv(r) /\ r.pc = t.pc /\ r.chat = t.chat
           /\ r.route = t.route /\ r.action = t.action /\ r.ran = t.ran /\ r.pressed = t.pressed
<1> DEFINE flag == t.concrete \/ t.tool \notin Reasoning
           r == [t EXCEPT !.concrete = flag]
<1>1. flag \in BOOLEAN
  OBVIOUS
<1>2. /\ r \in Turns /\ r.concrete = flag
      /\ r.pc = t.pc /\ r.chat = t.chat /\ r.route = t.route
      /\ r.action = t.action /\ r.ran = t.ran /\ r.pressed = t.pressed /\ r.used = t.used
      /\ r.reasoning = t.reasoning /\ r.limit = t.limit /\ r.allow = t.allow /\ r.pass = t.pass
      /\ r.earlier = t.earlier /\ r.prompted = t.prompted /\ r.tool = t.tool
  <2> HIDE DEF flag
  <2> QED BY <1>1 DEF Turns
<1> HIDE DEF r
<1>3. ASSUME t.tool \notin Reasoning, NEW i \in Places(t.used)
      PROVE  \E k \in i..Len(t.used) : t.used[k] \in Concrete
  <2>1. t.used \in Seq(Runnable) /\ Len(t.used) \in Nat /\ Len(t.used) > 0 /\ t.tool = t.used[Len(t.used)]
    BY LenProperties DEF Turns, TurnInv, Routed
  <2>2. t.used[Len(t.used)] \in Runnable
    BY <2>1, ElementOfSeq
  <2>3. t.used[Len(t.used)] \in Concrete
    BY <1>3, <2>1, <2>2 DEF Runnable, Concrete
  <2>4. Len(t.used) \in i..Len(t.used)
    BY <2>1, PlacesFinite
  <2> QED BY <2>3, <2>4
<1>4. Paced(r)
  BY <1>2, <1>3 DEF TurnInv, Paced
<1>5. Accounted(r) /\ Routed(r)
  BY <1>2 DEF TurnInv, Accounted, Routed
<1> QED BY <1>2, <1>4, <1>5 DEF r, TurnInv

\* Nothing used is paced.
LEMMA EmptyPaced ==
    ASSUME NEW t, t.used = <<>>, t.reasoning = 0, t.limit \in {2, 3}, t.pass = 2 => ~t.allow
    PROVE  Paced(t)
<1>1. Places(<<>>) = {}
  BY EmptySeq DEF Places
<1>2. Cardinality({}) = 0
  BY FS_EmptySet
<1>3. Places(t.used) = {}
  BY <1>1
<1>4. t.reasoning = Cardinality(Places(t.used))
  BY <1>2, <1>3
<1>5. t.reasoning <= t.limit
  OBVIOUS
<1>6. \A i, j \in Places(t.used) : i < j => \E k \in i..j : t.used[k] \in Concrete
  BY <1>3
<1>7. \A i \in Places(t.used) : \E k \in i..Len(t.used) : t.used[k] \in Concrete
  BY <1>3
<1> HIDE DEF Places, Concrete
<1> QED BY <1>3, <1>4, <1>5, <1>6, <1>7 DEF Paced

\* A loop begins with nothing used.
LEMMA LoopOfKeeps ==
    ASSUME NEW t \in Turns, NEW allow \in BOOLEAN, NEW limit \in {2, 3}
    PROVE  LET r == LoopOf(t, allow, limit) IN
           /\ r \in Turns /\ r.pc = "model" /\ r.used = <<>> /\ r.allow = allow /\ r.limit = limit
           /\ r.reasoning = 0 /\ ~r.prompted
           /\ r.chat = t.chat /\ r.route = t.route /\ r.action = t.action
           /\ r.pass = t.pass /\ r.earlier = t.earlier /\ r.ran = t.ran /\ r.pressed = t.pressed
           /\ (r.pass = 2 => ~allow) => Paced(r)
<1> DEFINE r == LoopOf(t, allow, limit)
<1>1. /\ r \in Turns /\ r.pc = "model" /\ r.used = <<>> /\ r.allow = allow /\ r.limit = limit
      /\ r.reasoning = 0 /\ ~r.prompted
      /\ r.chat = t.chat /\ r.route = t.route /\ r.action = t.action
      /\ r.pass = t.pass /\ r.earlier = t.earlier /\ r.ran = t.ran /\ r.pressed = t.pressed
  <2>1. <<>> \in Seq(Tool) /\ <<>> \in Seq(Runnable) /\ 1 \in 0..MaxIterations /\ 0 \in 0..Attempts
    BY EmptySeq, ConstantsAssumption
  <2>2. 0 \in 0..3 /\ TRUE \in BOOLEAN /\ FALSE \in BOOLEAN
    OBVIOUS
  <2>3. /\ r.pc = "model" /\ r.used = <<>> /\ r.allow = allow /\ r.limit = limit /\ r.iter = 1 /\ r.fails = 0
        /\ r.pending = <<>> /\ r.tool = None /\ r.reasoning = 0 /\ r.concrete = TRUE /\ r.prompted = FALSE
        /\ r.chat = t.chat /\ r.route = t.route /\ r.action = t.action
        /\ r.pass = t.pass /\ r.earlier = t.earlier /\ r.ran = t.ran /\ r.pressed = t.pressed
    BY DEF LoopOf, Turns
  <2>4. r \in Turns
    BY <2>1, <2>2, ZenonT(60) DEF LoopOf, Turns
  <2> QED BY <2>3, <2>4
<1> HIDE DEF r
<1>3. ASSUME r.pass = 2 => ~allow PROVE Paced(r)
  BY <1>1, <1>3, EmptyPaced
<1> QED BY <1>1, <1>3 DEF r

LEMMA NoTurnKeeps == NoTurn \in Turns /\ TurnInv(NoTurn) /\ NoTurn.chat = None
<1>1. <<>> \in Seq(Tool) /\ <<>> \in Seq(Runnable) /\ 0 \in 0..MaxIterations /\ 0 \in 0..Attempts
  BY EmptySeq, ConstantsAssumption
<1>2. NoTurn \in Turns /\ NoTurn.chat = None
  BY <1>1 DEF NoTurn, Turns
<1>4. Paced(NoTurn)
  BY EmptyPaced DEF NoTurn
<1>5. <<>> \o <<>> = <<>>
  BY <1>1, ConcatEmptySeq
<1>6. Accounted(NoTurn)
  BY <1>5 DEF Accounted, NoTurn
<1>7. Routed(NoTurn)
  BY DEF Routed, NoTurn
<1> QED BY <1>2, <1>4, <1>6, <1>7 DEF TurnInv

-----------------------------------------------------------------------------
(* Steps of one worker *)

\* What a step of a worker that does not begin a turn guarantees.
Moves(w) ==
    /\ turn' \in [Worker -> Turns]
    /\ \A v \in Worker \ {w} : turn'[v] = turn[v]
    /\ TurnInv(turn'[w])
    /\ Outside'

LEMMA BecomeMoves ==
    ASSUME TypeOK, NEW w \in Worker, NEW t \in Turns, TurnInv(t), Become(w, t), Outside'
    PROVE  Moves(w)
<1>1. turn' = [turn EXCEPT ![w] = t] /\ turn \in [Worker -> Turns]
  BY DEF Become, TypeOK
<1>2. turn' \in [Worker -> Turns] /\ turn'[w] = t /\ \A v \in Worker \ {w} : turn'[v] = turn[v]
  BY <1>1
<1> QED BY <1>2 DEF Moves

LEMMA QuietOutside == ASSUME last' = Nothing PROVE Outside'
BY DEF Outside, Nothing, WorkAccounted, ToolsRecorded, ActionsPressed

\* t is the turn of w, a little further.
Follows(w, t) ==
    /\ t \in Turns /\ TurnInv(t) /\ t.pc \in {"model", "tool"}
    /\ t.chat = turn[w].chat /\ t.route = turn[w].route
    /\ t.action = turn[w].action /\ t.ran = turn[w].ran

LEMMA ConcatConcrete ==
    ASSUME NEW a \in Seq(Runnable), NEW b \in Seq(Runnable), ConcreteIn(b)
    PROVE  ConcreteIn(a \o b)
<1>1. PICK i \in 1..Len(b) : b[i] \notin Reasoning
  BY DEF ConcreteIn
<1>2. Len(a) \in Nat /\ Len(b) \in Nat
  BY LenProperties
<1>3. i + Len(a) \in 1..Len(a) + Len(b) /\ ~(i + Len(a) <= Len(a)) /\ (i + Len(a)) - Len(a) = i
  BY <1>1, <1>2
<1>4. /\ Len(a \o b) = Len(a) + Len(b)
      /\ \A j \in 1..Len(a) + Len(b) : (a \o b)[j] = IF j <= Len(a) THEN a[j] ELSE b[j - Len(a)]
  BY ConcatProperties
<1>5. (a \o b)[i + Len(a)] = b[i]
  BY <1>3, <1>4
<1> QED BY <1>1, <1>3, <1>4, <1>5 DEF ConcreteIn

\* What the history says of a turn is what ran.
LEMMA EndsMoves ==
    ASSUME TypeOK, NEW w \in Worker, NEW t, Follows(w, t), NEW answer,
           answer = "text" => t.pressed = turn[w].pressed /\ \E text : ~MustAct(t, text),
           Ends(w, Recorded(t), answer)
    PROVE  Moves(w)
<1> DEFINE all == t.earlier \o t.used
<1>1. /\ Become(w, NoTurn)
      /\ last'.kind = "record" /\ last'.route = t.route /\ last'.action = t.action
      /\ last'.ran = turn[w].ran /\ last'.pressed = turn[w].pressed /\ last'.answer = answer
      /\ last'.tools = Recorded(t)
  BY DEF Ends, Follows
<1>2. turn[w].ran = all
  BY DEF Follows, TurnInv, Accounted
<1>3. ToolsRecorded'
  <2>1. CASE t.route = "simple"
    <3>1. Recorded(t) = all
      BY <2>1 DEF Recorded
    <3> HIDE DEF all
    <3> QED BY <1>1, <1>2, <2>1, <3>1 DEF ToolsRecorded
  <2>2. CASE t.route = "deepthink"
    <3>1. Recorded(t) = DeepThinkFirst(all)
      BY <2>2 DEF Recorded
    <3> HIDE DEF all
    <3> QED BY <1>1, <1>2, <2>2, <3>1 DEF ToolsRecorded
  <2>3. CASE t.route \notin {"simple", "deepthink"}
    BY <1>1, <2>3 DEF ToolsRecorded
  <2> QED BY <2>1, <2>2, <2>3
<1>4. ActionsPressed'
  <2>1. SUFFICES ASSUME t.action, answer = "text", ~ConcreteIn(turn[w].ran) PROVE turn[w].pressed > 0
    BY <1>1 DEF ActionsPressed, ConcreteIn
  <2>2. ~ConcreteIn(t.used)
    <3>1. t.earlier \in Seq(Runnable) /\ t.used \in Seq(Runnable)
      BY DEF Follows, Turns
    <3> QED BY <1>2, <2>1, <3>1, ConcatConcrete
  <2>3. t.prompted \/ ~Required(t)
    BY <2>1, <2>2 DEF MustAct
  <2>4. t.prompted \/ t.pass = 2
    BY <2>1, <2>3 DEF Required, Follows, Turns
  <2> QED BY <2>1, <2>4 DEF Follows, TurnInv, Accounted
<1>5. Outside'
  BY <1>1, <1>3, <1>4 DEF Outside, WorkAccounted
<1> QED BY <1>1, <1>5, NoTurnKeeps, BecomeMoves

\* The second pass remembers what the first one used.
LEMMA SecondPassKeeps ==
    ASSUME NEW t \in Turns, TurnInv(t), t.pc \in {"model", "tool"}, t.pass = 1
    PROVE  LET r == [LoopOf(t, FALSE, 3) EXCEPT !.pass = 2, !.earlier = t.used, !.pressed = @ + 1] IN
           r \in Turns /\ TurnInv(r) /\ r.chat = t.chat
<1> DEFINE l == LoopOf(t, FALSE, 3)
           used == t.used
           r == [l EXCEPT !.pass = 2, !.earlier = used, !.pressed = @ + 1]
<1>1. /\ l \in Turns /\ l.pc = "model" /\ l.used = <<>> /\ l.allow = FALSE /\ l.limit = 3
      /\ l.reasoning = 0
      /\ l.chat = t.chat /\ l.route = t.route /\ l.action = t.action
      /\ l.ran = t.ran /\ l.pressed = t.pressed
  BY LoopOfKeeps
<1>2. used \in Seq(Runnable)
  BY DEF Turns
<1> HIDE DEF l, used
<1>3. /\ r.pc = "model" /\ r.used = <<>> /\ r.allow = FALSE /\ r.limit = 3 /\ r.reasoning = 0
      /\ r.chat = t.chat /\ r.route = t.route /\ r.action = t.action
      /\ r.ran = t.ran /\ r.pressed = t.pressed + 1 /\ r.pass = 2 /\ r.earlier = used
  BY <1>1 DEF Turns
<1>4. r \in Turns
  <2> DEFINE more == l.pressed + 1
  <2>1. more \in Nat
    BY <1>1, SMTT(60) DEF Turns
  <2>2. r = [l EXCEPT !.pass = 2, !.earlier = used, !.pressed = more]
    OBVIOUS
  <2>3. l \in Turns
    BY <1>1
  <2> HIDE DEF more, r
  <2> QED BY <1>2, <2>1, <2>2, <2>3, ZenonT(60) DEF Turns
<1>5. Paced(r)
  <2> HIDE DEF r
  <2> QED BY <1>3, EmptyPaced
<1>6. Accounted(r)
  <2>1. t.ran = <<>> \o used
    <3>1. t.ran = t.earlier \o t.used /\ t.earlier = <<>>
      BY DEF TurnInv, Accounted
    <3> QED BY <3>1, ZenonT(60) DEF used
  <2>2. <<>> \o used = used /\ used \o <<>> = used
    BY <1>2, ConcatEmptySeq
  <2>3. t.pressed \in Nat
    BY DEF Turns
  <2> HIDE DEF r
  <2> QED BY <1>3, <2>1, <2>2, <2>3 DEF Accounted
<1>7. Routed(r)
  <2> HIDE DEF r
  <2> QED BY <1>3 DEF TurnInv, Routed
<1> QED BY <1>3, <1>4, <1>5, <1>6, <1>7 DEF TurnInv, l, used

LEMMA LoopEndsMoves ==
    ASSUME TypeOK, NEW w \in Worker, NEW t, Follows(w, t), NEW answer,
           answer = "text" => t.pressed = turn[w].pressed /\ \E text : ~MustAct(t, text),
           LoopEnds(w, t, answer)
    PROVE  Moves(w)
<1> DEFINE r == [LoopOf(t, FALSE, 3) EXCEPT !.pass = 2, !.earlier = t.used, !.pressed = @ + 1]
           again == t.route = "deepthink" /\ t.pass = 1 /\ t.action /\ ~ConcreteIn(t.used)
<1>1. CASE again
  <2>1. Become(w, r) /\ last' = Nothing
    BY <1>1 DEF LoopEnds, Goes
  <2>2. r \in Turns /\ TurnInv(r) /\ r.chat = turn[w].chat
    BY <1>1, SecondPassKeeps DEF Follows
  <2> HIDE DEF r
  <2> QED BY <2>1, <2>2, QuietOutside, BecomeMoves
<1>2. CASE ~again
  <2>1. Ends(w, Recorded(t), answer)
    BY <1>2 DEF LoopEnds
  <2> QED BY <2>1, EndsMoves
<1> QED BY <1>1, <1>2

\* A field the invariant does not look at.
LEMMA NextModelKeeps ==
    ASSUME NEW t \in Turns, TurnInv(t), t.pc \in {"model", "tool"}, t.iter < MaxIterations
    PROVE  LET r == [t EXCEPT !.pc = "model", !.iter = @ + 1, !.fails = 0, !.pending = <<>>, !.tool = None] IN
           r \in Turns /\ TurnInv(r) /\ r.chat = t.chat
<1> DEFINE r == [t EXCEPT !.pc = "model", !.iter = @ + 1, !.fails = 0, !.pending = <<>>, !.tool = None]
<1>1. /\ r.pc = "model" /\ r.used = t.used /\ r.allow = t.allow /\ r.limit = t.limit
      /\ r.reasoning = t.reasoning /\ r.concrete = t.concrete /\ r.prompted = t.prompted
      /\ r.chat = t.chat /\ r.route = t.route /\ r.action = t.action
      /\ r.ran = t.ran /\ r.pressed = t.pressed /\ r.pass = t.pass /\ r.earlier = t.earlier
  BY DEF Turns
<1>2. r \in Turns
  <2>1. <<>> \in Seq(Tool) /\ 0 \in 0..Attempts
    BY EmptySeq, ConstantsAssumption
  <2>2. t.iter + 1 \in 0..MaxIterations
    BY ConstantsAssumption DEF Turns
  <2> QED BY <2>1, <2>2 DEF Turns
<1> HIDE DEF r
<1>3. Paced(r)
  BY <1>1 DEF TurnInv, Paced
<1>4. Accounted(r)
  BY <1>1 DEF TurnInv, Accounted
<1>5. Routed(r)
  BY <1>1 DEF TurnInv, Routed
<1> QED BY <1>1, <1>2, <1>3, <1>4, <1>5 DEF TurnInv, r

LEMMA ContinuesMoves ==
    ASSUME TypeOK, NEW w \in Worker, NEW t, Follows(w, t), Continues(w, t)
    PROVE  Moves(w)
<1> DEFINE r == [t EXCEPT !.pc = "model", !.iter = @ + 1, !.fails = 0, !.pending = <<>>, !.tool = None]
<1>1. CASE t.iter < MaxIterations
  <2>1. Become(w, r) /\ last' = Nothing
    BY <1>1 DEF Continues, Goes
  <2>2. r \in Turns /\ TurnInv(r) /\ r.chat = turn[w].chat
    BY <1>1, NextModelKeeps DEF Follows
  <2> HIDE DEF r
  <2> QED BY <2>1, <2>2, QuietOutside, BecomeMoves
<1>2. CASE ~(t.iter < MaxIterations)
  <2>1. LoopEnds(w, t, "none")
    BY <1>2 DEF Continues
  <2> QED BY <2>1, LoopEndsMoves
<1> QED BY <1>1, <1>2

\* Blocked calls are skipped, and the first other one runs.
LEMMA ProcessesMoves ==
    ASSUME TypeOK, NEW w \in Worker, NEW t, Follows(w, t), NEW calls \in Seq(Tool), Processes(w, t, calls)
    PROVE  Moves(w)
<1> DEFINE i == SelectInSeq(calls, LAMBDA n : ~Blocked(t, n))
           rest == SubSeq(calls, i + 1, Len(calls))
           r == Runs(t, calls[i], rest)
<1>1. i = 0 \/ (i \in 1..Len(calls) /\ ~Blocked(t, calls[i]))
  BY FirstUnblocked
<1>2. CASE i = 0
  BY <1>2, ContinuesMoves DEF Processes
<1>3. CASE i # 0
  <2>1. Become(w, r) /\ last' = Effect(t, calls[i])
    BY <1>3 DEF Processes
  <2>2. i \in 1..Len(calls) /\ ~Blocked(t, calls[i])
    BY <1>1, <1>3
  <2> HIDE DEF i
  <2>3. calls[i] \in Tool /\ rest \in Seq(Tool)
    BY <2>2, ElementOfSeq, SubSeqProperties, LenProperties
  <2> HIDE DEF rest
  <2>4. r \in Turns /\ TurnInv(r) /\ r.chat = turn[w].chat
    BY <2>2, <2>3, RunsKeeps DEF Follows
  <2>5. Outside'
    <3>1. CASE calls[i] \in Addressed
      <4>1. last'.kind = "act"
        BY <2>1, <3>1 DEF Effect
      <4> QED BY <4>1 DEF Outside, WorkAccounted, ToolsRecorded, ActionsPressed
    <3>2. CASE calls[i] \notin Addressed
      BY <2>1, <3>2, QuietOutside DEF Effect
    <3> QED BY <3>1, <3>2
  <2> HIDE DEF r
  <2> QED BY <2>1, <2>4, <2>5, BecomeMoves
<1> QED BY <1>2, <1>3

LEMMA SelfFollows ==
    ASSUME TypeOK, NEW w \in Worker, TurnInv(turn[w]), turn[w].pc \in {"model", "tool"}
    PROVE  Follows(w, turn[w])
BY DEF Follows, TypeOK

\* A turn that ends without a record, or with that of a command.
LEMMA UnrecordedMoves ==
    ASSUME TypeOK, NEW w \in Worker, EndsUnrecorded(w)
    PROVE  Moves(w)
BY NoTurnKeeps, QuietOutside, BecomeMoves DEF EndsUnrecorded

LEMMA CommandEndsMoves ==
    ASSUME TypeOK, NEW w \in Worker, TurnInv(turn[w]), turn[w].route \in {"forced", "refine", "mcp"},
           NEW tools, NEW answer, Ends(w, tools, answer)
    PROVE  Moves(w)
<1>1. /\ Become(w, NoTurn) /\ last'.kind = "record" /\ last'.route \notin {"simple", "deepthink"} /\ ~last'.action
  BY DEF Ends, TurnInv, Routed
<1>2. Outside'
  BY <1>1 DEF Outside, WorkAccounted, ToolsRecorded, ActionsPressed
<1> QED BY <1>1, <1>2, NoTurnKeeps, BecomeMoves

\* A turn that does not reach the loop: nothing the invariant relates changes.
LEMMA CommandKeeps ==
    ASSUME NEW t \in Turns, TurnInv(t), NEW r \in Turns,
           r.pc \in {"ask", "recheck", "call", "synthesis"} \/ r.pc = t.pc,
           r.route = t.route, r.chat = t.chat, r.action = t.action, r.allow = t.allow, r.limit = t.limit,
           r.tool = t.tool, r.reasoning = t.reasoning, r.concrete = t.concrete, r.used = t.used,
           r.prompted = t.prompted, r.pass = t.pass, r.earlier = t.earlier, r.ran = t.ran, r.pressed = t.pressed
    PROVE  TurnInv(r)
<1>1. Paced(r)
  BY DEF TurnInv, Paced
<1>2. Accounted(r)
  BY DEF TurnInv, Accounted
<1>3. Routed(r)
  BY DEF TurnInv, Routed
<1> QED BY <1>1, <1>2, <1>3 DEF TurnInv

LEMMA GoesMoves ==
    ASSUME TypeOK, NEW w \in Worker, NEW t \in Turns, TurnInv(t), Become(w, t), Outside',
           t.chat = turn[w].chat
    PROVE  Moves(w)
BY BecomeMoves

-----------------------------------------------------------------------------
(* One lemma per action of a worker *)

LEMMA ToolReturnsMoves ==
    ASSUME Inv, NEW w \in Worker, ToolReturns(w) PROVE Moves(w)
<1> DEFINE s == turn[w]
           t == [s EXCEPT !.concrete = @ \/ s.tool \notin Reasoning]
<1>1. s.pc = "tool" /\ Processes(w, t, t.pending)
  BY DEF ToolReturns
<1>2. s \in Turns /\ TurnInv(s)
  BY DEF Inv, TypeOK
<1>3. /\ t \in Turns /\ TurnInv(t) /\ t.pc = s.pc /\ t.chat = s.chat
      /\ t.route = s.route /\ t.action = s.action /\ t.ran = s.ran
  <2> HIDE DEF s
  <2> QED BY <1>1, <1>2, ReturnKeeps
<1> HIDE DEF t
<1>4. Follows(w, t)
  BY <1>1, <1>3 DEF Follows
<1>5. t.pending \in Seq(Tool)
  BY <1>3 DEF Turns
<1> QED BY <1>1, <1>4, <1>5, ProcessesMoves DEF Inv

LEMMA ModelCallsMoves ==
    ASSUME Inv, NEW w \in Worker, NEW calls \in Replies, ModelCalls(w, calls) PROVE Moves(w)
<1>1. calls \in Seq(Tool)
  BY ConstantsAssumption DEF Tool
<1>2. Follows(w, turn[w]) /\ Processes(w, turn[w], calls)
  BY SelfFollows DEF ModelCalls, Inv
<1> QED BY <1>1, <1>2, ProcessesMoves DEF Inv

LEMMA ModelCallsInlineMoves ==
    ASSUME Inv, NEW w \in Worker, NEW name \in Tool, ModelCallsInline(w, name) PROVE Moves(w)
<1>1. <<name>> \in Seq(Tool)
  OBVIOUS
<1>2. Follows(w, turn[w]) /\ Processes(w, turn[w], <<name>>)
  BY SelfFollows DEF ModelCallsInline, Inv
<1> QED BY <1>1, <1>2, ProcessesMoves DEF Inv

LEMMA ModelAnswersMoves ==
    ASSUME Inv, NEW w \in Worker, NEW text, ModelAnswers(w, text) PROVE Moves(w)
<1> DEFINE s == turn[w]
           t == [s EXCEPT !.prompted = TRUE, !.pressed = @ + 1]
<1>1. s \in Turns /\ TurnInv(s) /\ s.pc = "model" /\ Follows(w, s)
  BY SelfFollows DEF Inv, TypeOK, ModelAnswers
<1>2. CASE MustAct(s, text)
  <2>1. Continues(w, t)
    BY <1>2 DEF ModelAnswers
  <2> HIDE DEF s
  <2>2. s.pressed + 1 \in Nat /\ s.pressed + 1 > 0
    BY <1>1 DEF Turns
  <2>3. t \in Turns
    <3> DEFINE more == s.pressed + 1
    <3>1. t = [s EXCEPT !.prompted = TRUE, !.pressed = more] /\ more \in Nat
      BY <2>2
    <3> HIDE DEF more, t
    <3> QED BY <1>1, <3>1 DEF Turns
  <2>4. /\ t.pc = s.pc /\ t.chat = s.chat /\ t.route = s.route
        /\ t.action = s.action /\ t.ran = s.ran /\ t.used = s.used /\ t.allow = s.allow /\ t.limit = s.limit
        /\ t.reasoning = s.reasoning /\ t.concrete = s.concrete /\ t.pass = s.pass /\ t.earlier = s.earlier
        /\ t.tool = s.tool /\ t.pressed = s.pressed + 1
    BY <1>1 DEF Turns
  <2> HIDE DEF t
  <2>5. Paced(t)
    BY <1>1, <2>4 DEF TurnInv, Paced
  <2>6. Accounted(t)
    BY <1>1, <2>2, <2>4 DEF TurnInv, Accounted
  <2>7. Routed(t)
    BY <1>1, <2>4 DEF TurnInv, Routed
  <2>8. Follows(w, t)
    BY <1>1, <2>3, <2>4, <2>5, <2>6, <2>7 DEF Follows, TurnInv, s
  <2> QED BY <2>1, <2>8, ContinuesMoves DEF Inv
<1>3. CASE ~MustAct(s, text)
  <2>1. LoopEnds(w, s, "text")
    BY <1>3 DEF ModelAnswers
  <2> QED BY <1>1, <1>3, <2>1, LoopEndsMoves DEF Inv
<1> QED BY <1>2, <1>3

LEMMA ModelFailsMoves ==
    ASSUME Inv, NEW w \in Worker, ModelFails(w) PROVE Moves(w)
<1> DEFINE s == turn[w]
           r == [s EXCEPT !.fails = @ + 1]
<1>1. s \in Turns /\ TurnInv(s)
  BY DEF Inv, TypeOK
<1>2. CASE s.fails + 1 < Attempts
  <2>1. Become(w, r) /\ last' = Nothing
    BY <1>2 DEF ModelFails, Goes
  <2> HIDE DEF s
  <2>2. s.fails + 1 \in 0..Attempts
    BY <1>1, <1>2, ConstantsAssumption DEF Turns
  <2>3. r \in Turns /\ TurnInv(r) /\ r.chat = s.chat
    <3>1. r \in Turns
      BY <1>1, <2>2 DEF Turns
    <3>2. /\ r.pc = s.pc /\ r.route = s.route /\ r.chat = s.chat /\ r.action = s.action /\ r.allow = s.allow
          /\ r.limit = s.limit /\ r.tool = s.tool /\ r.reasoning = s.reasoning /\ r.concrete = s.concrete
          /\ r.used = s.used /\ r.prompted = s.prompted /\ r.pass = s.pass /\ r.earlier = s.earlier
          /\ r.ran = s.ran /\ r.pressed = s.pressed
      BY <1>1 DEF Turns
    <3> HIDE DEF r
    <3> QED BY <1>1, <3>1, <3>2, CommandKeeps
  <2> HIDE DEF r
  <2> QED BY <2>1, <2>3, QuietOutside, GoesMoves DEF Inv, s
<1>3. CASE ~(s.fails + 1 < Attempts)
  BY <1>3, UnrecordedMoves DEF ModelFails, Inv
<1> QED BY <1>2, <1>3

LEMMA ThinkReturnsMoves ==
    ASSUME Inv, NEW w \in Worker, ThinkReturns(w) PROVE Moves(w)
<1> DEFINE s == turn[w]
           r == LoopOf(s, TRUE, 2)
<1>1. s \in Turns /\ TurnInv(s) /\ s.pc = "think"
  BY DEF Inv, TypeOK, ThinkReturns
<1>2. CASE s.route = "forced"
  <2>1. Ends(w, <<"deepthink">>, "text")
    BY <1>2 DEF ThinkReturns
  <2> QED BY <1>1, <1>2, <2>1, CommandEndsMoves DEF Inv
<1>3. CASE s.route # "forced"
  <2>1. Become(w, r) /\ last' = Nothing
    BY <1>3 DEF ThinkReturns, Goes
  <2> HIDE DEF s
  <2>2. /\ r \in Turns /\ r.pc = "model" /\ r.used = <<>> /\ ~r.prompted /\ Paced(r)
        /\ r.chat = s.chat /\ r.route = s.route /\ r.action = s.action
        /\ r.pass = s.pass /\ r.earlier = s.earlier /\ r.ran = s.ran /\ r.pressed = s.pressed
    <3>1. s.pass # 2
      BY <1>1 DEF TurnInv, Routed
    <3>2. /\ r \in Turns /\ r.pc = "model" /\ r.used = <<>> /\ ~r.prompted
          /\ r.chat = s.chat /\ r.route = s.route /\ r.action = s.action
          /\ r.pass = s.pass /\ r.earlier = s.earlier /\ r.ran = s.ran /\ r.pressed = s.pressed
          /\ (r.pass = 2 => ~TRUE) => Paced(r)
      <4> HIDE DEF r
      <4> QED BY <1>1, LoopOfKeeps DEF r
    <3> HIDE DEF r
    <3> QED BY <3>1, <3>2
  <2> HIDE DEF r
  <2>3. Accounted(r)
    BY <1>1, <2>2 DEF TurnInv, Accounted, Routed
  <2>4. Routed(r)
    BY <1>1, <1>3, <2>2 DEF TurnInv, Routed
  <2> QED BY <2>1, <2>2, <2>3, <2>4, QuietOutside, GoesMoves DEF Inv, s, TurnInv
<1> QED BY <1>2, <1>3

\* The fields of a turn that its steps outside the loop leave alone.
SameWork(r, t) ==
    /\ r.route = t.route /\ r.chat = t.chat /\ r.action = t.action
    /\ r.allow = t.allow /\ r.limit = t.limit /\ r.tool = t.tool /\ r.reasoning = t.reasoning
    /\ r.concrete = t.concrete /\ r.used = t.used /\ r.prompted = t.prompted /\ r.pass = t.pass
    /\ r.earlier = t.earlier /\ r.ran = t.ran /\ r.pressed = t.pressed

LEMMA CommandMoves ==
    ASSUME Inv, NEW w \in Worker, NEW r \in Turns, SameWork(r, turn[w]), Become(w, r), Outside',
           r.pc \in {"ask", "recheck", "call", "synthesis"} \/ r.pc = turn[w].pc
    PROVE  Moves(w)
<1>1. turn[w] \in Turns /\ TurnInv(turn[w])
  BY DEF Inv, TypeOK
<1>2. TurnInv(r)
  BY <1>1, CommandKeeps DEF SameWork
<1> QED BY <1>2, GoesMoves DEF Inv, SameWork

LEMMA RefineRoundMoves ==
    ASSUME Inv, NEW w \in Worker, RefineRound(w) PROVE Moves(w)
<1> DEFINE s == turn[w]
           r == [s EXCEPT !.round = @ + 1]
<1>1. s \in Turns /\ TurnInv(s) /\ s.pc = "refine"
  BY DEF Inv, TypeOK, RefineRound
<1>2. CASE s.round < 3
  <2>1. Become(w, r) /\ last' = Nothing
    BY <1>2 DEF RefineRound, Goes
  <2> HIDE DEF s
  <2>2. s.round + 1 \in 1..3
    BY <1>1, <1>2 DEF Turns
  <2>3. r \in Turns
    BY <1>1, <2>2 DEF Turns
  <2>4. SameWork(r, s) /\ r.pc = s.pc
    BY <1>1 DEF Turns, SameWork
  <2> HIDE DEF r
  <2> QED BY <2>1, <2>3, <2>4, QuietOutside, CommandMoves DEF s
<1>3. CASE ~(s.round < 3)
  <2>1. Ends(w, <<"refine">>, "text")
    BY <1>3 DEF RefineRound
  <2>2. s.route = "refine"
    BY <1>1 DEF TurnInv, Routed
  <2> QED BY <1>1, <2>1, <2>2, CommandEndsMoves DEF Inv
<1> QED BY <1>2, <1>3

LEMMA SnapshotMoves ==
    ASSUME Inv, NEW w \in Worker, Snapshot(w) PROVE Moves(w)
<1> DEFINE s == turn[w]
           r == [s EXCEPT !.pc = "ask", !.snapshot = catalog, !.fails = 0]
<1>1. s \in Turns /\ catalog \in Nat /\ 0 \in 0..Attempts
  BY ConstantsAssumption DEF Inv, TypeOK
<1>2. CASE catalog = 0
  BY <1>2, UnrecordedMoves DEF Snapshot, Inv
<1>3. CASE catalog # 0
  <2>1. Become(w, r) /\ last' = Nothing
    BY <1>3 DEF Snapshot, Goes
  <2> HIDE DEF s
  <2>2. r \in Turns
    BY <1>1 DEF Turns
  <2>3. SameWork(r, s) /\ r.pc = "ask"
    BY <1>1 DEF Turns, SameWork
  <2> HIDE DEF r
  <2> QED BY <2>1, <2>2, <2>3, QuietOutside, CommandMoves DEF s
<1> QED BY <1>2, <1>3

\* A step of /mcp that only goes on, with or without its attempts reset.
LEMMA GoesOnMoves ==
    ASSUME Inv, NEW w \in Worker, NEW pc \in {"recheck", "call", "synthesis"}, NEW fails \in 0..Attempts, Outside',
           Become(w, [turn[w] EXCEPT !.pc = pc, !.fails = fails])
    PROVE  Moves(w)
<1> DEFINE s == turn[w]
           r == [s EXCEPT !.pc = pc, !.fails = fails]
<1>1. s \in Turns
  BY DEF Inv, TypeOK
<1>2. Become(w, r)
  OBVIOUS
<1> HIDE DEF s
<1>3. r \in Turns
  BY <1>1 DEF Turns
<1>4. SameWork(r, s) /\ r.pc = pc
  BY <1>1 DEF Turns, SameWork
<1> HIDE DEF r
<1> QED BY <1>2, <1>3, <1>4, CommandMoves DEF s

LEMMA AskReturnsMoves ==
    ASSUME Inv, NEW w \in Worker, NEW choice \in {"valid", "rejected", "text"}, AskReturns(w, choice) PROVE Moves(w)
<1>1. 0 \in 0..Attempts
  BY ConstantsAssumption
<1>2. CASE choice = "valid"
  <2>1. Become(w, [turn[w] EXCEPT !.pc = "recheck", !.fails = 0]) /\ last' = Nothing
    BY <1>2 DEF AskReturns, Goes
  <2> QED BY <1>1, <2>1, QuietOutside, GoesOnMoves
<1>3. CASE choice = "rejected"
  <2>1. Become(w, [turn[w] EXCEPT !.pc = "synthesis", !.fails = 0]) /\ last' = Nothing
    BY <1>3 DEF AskReturns, Goes
  <2> QED BY <1>1, <2>1, QuietOutside, GoesOnMoves
<1>4. CASE choice = "text"
  BY <1>4, UnrecordedMoves DEF AskReturns, Inv
<1> QED BY <1>2, <1>3, <1>4

\* The pc alone: the number of failures is what it was.
LEMMA OnlyPc ==
    ASSUME NEW s \in Turns, NEW pc
    PROVE  [s EXCEPT !.pc = pc] = [s EXCEPT !.pc = pc, !.fails = s.fails] /\ s.fails \in 0..Attempts
BY DEF Turns

LEMMA RecheckMoves ==
    ASSUME Inv, NEW w \in Worker, Recheck(w) PROVE Moves(w)
<1> DEFINE s == turn[w]
<1>1. s \in Turns
  BY DEF Inv, TypeOK
<1>2. CASE catalog = s.snapshot
  <2>1. /\ Become(w, [s EXCEPT !.pc = "call"])
        /\ last' = [kind |-> "mcp", snapshot |-> s.snapshot, catalog |-> catalog]
    BY <1>2 DEF Recheck
  <2>2. Outside'
    BY <1>2, <2>1 DEF Outside, WorkAccounted, ToolsRecorded, ActionsPressed
  <2>3. Become(w, [s EXCEPT !.pc = "call", !.fails = s.fails]) /\ s.fails \in 0..Attempts
    <3> HIDE DEF s
    <3> QED BY <1>1, <2>1, OnlyPc
  <2> QED BY <2>2, <2>3, GoesOnMoves
<1>3. CASE catalog # s.snapshot
  <2>1. Become(w, [s EXCEPT !.pc = "synthesis"]) /\ last' = Nothing
    BY <1>3 DEF Recheck, Goes
  <2>2. Become(w, [s EXCEPT !.pc = "synthesis", !.fails = s.fails]) /\ s.fails \in 0..Attempts
    <3> HIDE DEF s
    <3> QED BY <1>1, <2>1, OnlyPc
  <2> QED BY <2>1, <2>2, QuietOutside, GoesOnMoves
<1> QED BY <1>2, <1>3

LEMMA CallReturnsMoves ==
    ASSUME Inv, NEW w \in Worker, CallReturns(w) PROVE Moves(w)
<1> DEFINE s == turn[w]
<1>1. s \in Turns
  BY DEF Inv, TypeOK
<1>2. Become(w, [s EXCEPT !.pc = "synthesis"]) /\ last' = Nothing
  BY DEF CallReturns, Goes
<1>3. Become(w, [s EXCEPT !.pc = "synthesis", !.fails = s.fails]) /\ s.fails \in 0..Attempts
  <2> HIDE DEF s
  <2> QED BY <1>1, <1>2, OnlyPc
<1> QED BY <1>2, <1>3, QuietOutside, GoesOnMoves

\* The invariant after any of them.
LEMMA StepMoves ==
    ASSUME Inv, NEW w \in Worker, Step(w) PROVE Moves(w) /\ UNCHANGED Shared
<1>1. CASE ToolReturns(w)
  BY <1>1, ToolReturnsMoves DEF ToolReturns
<1>2. CASE ModelFails(w)
  BY <1>2, ModelFailsMoves DEF ModelFails
<1>3. CASE ThinkReturns(w)
  BY <1>3, ThinkReturnsMoves DEF ThinkReturns
<1>4. CASE RefineRound(w)
  BY <1>4, RefineRoundMoves DEF RefineRound
<1>5. CASE Snapshot(w)
  BY <1>5, SnapshotMoves DEF Snapshot
<1>6. CASE Recheck(w)
  BY <1>6, RecheckMoves DEF Recheck
<1>7. CASE CallReturns(w)
  BY <1>7, CallReturnsMoves DEF CallReturns
<1>8. CASE SynthesisReturns(w)
  BY <1>8, UnrecordedMoves DEF SynthesisReturns, Inv
<1>9. CASE Cancelled(w)
  BY <1>9, UnrecordedMoves DEF Cancelled, Inv
<1>10. ASSUME NEW calls \in Replies, ModelCalls(w, calls) PROVE Moves(w) /\ UNCHANGED Shared
  BY <1>10, ModelCallsMoves DEF ModelCalls
<1>11. ASSUME NEW name \in Tool, ModelCallsInline(w, name) PROVE Moves(w) /\ UNCHANGED Shared
  BY <1>11, ModelCallsInlineMoves DEF ModelCallsInline
<1>12. ASSUME NEW text \in {"plan", "answer"}, ModelAnswers(w, text) PROVE Moves(w) /\ UNCHANGED Shared
  BY <1>12, ModelAnswersMoves DEF ModelAnswers
<1>13. ASSUME NEW choice \in {"valid", "rejected", "text"}, AskReturns(w, choice) PROVE Moves(w) /\ UNCHANGED Shared
  BY <1>13, AskReturnsMoves DEF AskReturns
<1> QED BY <1>1, <1>2, <1>3, <1>4, <1>5, <1>6, <1>7, <1>8, <1>9, <1>10, <1>11, <1>12, <1>13 DEF Step

-----------------------------------------------------------------------------
(* Turns that begin *)

LEMMA NewTurnKeeps ==
    ASSUME NEW pc \in {"think", "refine", "model", "snapshot"},
           NEW route \in {"simple", "deepthink", "system", "forced", "refine", "mcp"},
           NEW c \in Chat \cup {None}, NEW action \in BOOLEAN
    PROVE  LET r == NewTurn(pc, route, c, action) IN
           /\ r \in Turns /\ r.pc = pc /\ r.route = route /\ r.chat = c /\ r.action = action
           /\ r.used = <<>> /\ r.earlier = <<>> /\ r.ran = <<>> /\ r.pass = 1 /\ ~r.prompted
           /\ Paced(r) /\ Accounted(r)
<1> DEFINE r == NewTurn(pc, route, c, action)
<1>1. r = [NoTurn EXCEPT !.pc = pc, !.route = route, !.chat = c, !.action = action]
  BY DEF NewTurn
<1>2. NoTurn \in Turns /\ NoTurn.used = <<>> /\ NoTurn.earlier = <<>> /\ NoTurn.ran = <<>> /\ NoTurn.pass = 1
      /\ NoTurn.prompted = FALSE /\ NoTurn.reasoning = 0 /\ NoTurn.limit = 3
  BY NoTurnKeeps DEF NoTurn
<1> HIDE DEF r
<1>3. r \in Turns
  <2>1. NoTurn \in Turns
    BY <1>2
  <2> QED BY <1>1, <2>1, ZenonT(60) DEF Turns
<1>4. /\ r.pc = pc /\ r.route = route /\ r.chat = c /\ r.action = action
      /\ r.used = NoTurn.used /\ r.earlier = NoTurn.earlier /\ r.ran = NoTurn.ran /\ r.pass = NoTurn.pass
      /\ r.prompted = NoTurn.prompted /\ r.reasoning = NoTurn.reasoning /\ r.limit = NoTurn.limit
  BY <1>1, <1>2 DEF Turns
<1>5. Paced(r)
  BY <1>2, <1>4, EmptyPaced
<1>6. <<>> \o <<>> = <<>>
  BY ConcatEmptySeq, EmptySeq
<1>7. Accounted(r)
  BY <1>2, <1>4, <1>6 DEF Accounted
<1> QED BY <1>2, <1>3, <1>4, <1>5, <1>7 DEF r

LEMMA NewLoopKeeps ==
    ASSUME NEW route \in {"simple", "deepthink", "system"}, NEW c \in Chat, NEW action \in BOOLEAN
    PROVE  LET r == LoopOf(NewTurn("model", route, c, action), TRUE, 3) IN r \in Turns /\ TurnInv(r) /\ r.chat = c
<1> DEFINE t == NewTurn("model", route, c, action)
           r == LoopOf(t, TRUE, 3)
<1>1. /\ t \in Turns /\ t.route = route /\ t.chat = c /\ t.used = <<>> /\ t.earlier = <<>> /\ t.ran = <<>>
      /\ t.pass = 1 /\ Accounted(t)
  BY NewTurnKeeps
<1> HIDE DEF t
<1>2. /\ r \in Turns /\ r.pc = "model" /\ r.used = <<>> /\ ~r.prompted /\ r.chat = t.chat /\ r.route = t.route
      /\ r.pass = t.pass /\ r.earlier = t.earlier /\ r.ran = t.ran
      /\ (r.pass = 2 => ~TRUE) => Paced(r)
  <2> HIDE DEF r
  <2> QED BY <1>1, LoopOfKeeps DEF r
<1> HIDE DEF r
<1>3. Paced(r)
  BY <1>1, <1>2
<1>4. Accounted(r)
  BY <1>1, <1>2 DEF Accounted
<1>5. Routed(r)
  BY <1>1, <1>2 DEF Routed
<1> QED BY <1>1, <1>2, <1>3, <1>4, <1>5 DEF TurnInv, r, t

\* A turn begins in a chat.
LEMMA ContextMoves ==
    ASSUME Inv, NEW w \in Worker, NEW c \in Chat, NEW t \in Turns, TurnInv(t), SetContext(w, c, t)
    PROVE  /\ turn' \in [Worker -> Turns] /\ context' \in Chat \cup {None}
           /\ \A v \in Worker : TurnInv(turn'[v])
<1>1. turn' = [turn EXCEPT ![w] = t] /\ context' = c /\ turn \in [Worker -> Turns]
  BY DEF SetContext, Become, Inv, TypeOK
<1>2. turn' \in [Worker -> Turns] /\ turn'[w] = t /\ \A v \in Worker \ {w} : turn'[v] = turn[v]
  BY <1>1
<1> QED BY <1>1, <1>2 DEF Inv

LEMMA StartsTypes ==
    ASSUME Inv, NEW w \in Worker, Starts(w)
    PROVE  started' \in 0..MaxTurns /\ catalog' \in 0..catalogs' /\ catalogs' \in 0..MaxCatalogs /\ Outside'
<1>1. started' \in 0..MaxTurns
  BY ConstantsAssumption DEF Inv, TypeOK, Starts
<1>2. catalog' \in 0..catalogs' /\ catalogs' \in 0..MaxCatalogs
  BY DEF Inv, TypeOK, Starts
<1> QED BY <1>1, <1>2, QuietOutside DEF Starts

LEMMA RoutedStartsKeeps ==
    ASSUME Inv, NEW w \in Worker, NEW c \in Chat, NEW route \in {"simple", "deepthink"}, NEW action \in BOOLEAN,
           RoutedStarts(w, c, route, action)
    PROVE  Inv'
<1> DEFINE t == IF route = "deepthink" THEN NewTurn("think", route, c, action)
                ELSE LoopOf(NewTurn("model", route, c, action), TRUE, 3)
<1>1. Starts(w) /\ SetContext(w, c, t)
  BY DEF RoutedStarts
<1>2. t \in Turns /\ TurnInv(t) /\ t.chat = c
  <2>1. CASE route = "deepthink"
    <3> DEFINE r == NewTurn("think", route, c, action)
    <3>1. /\ r \in Turns /\ r.pc = "think" /\ r.route = route /\ r.chat = c /\ r.action = action
          /\ r.used = <<>> /\ r.earlier = <<>> /\ r.ran = <<>> /\ r.pass = 1 /\ ~r.prompted
          /\ Paced(r) /\ Accounted(r)
      BY NewTurnKeeps
    <3> HIDE DEF r
    <3>2. Routed(r)
      BY <2>1, <3>1 DEF Routed
    <3> QED BY <2>1, <3>1, <3>2 DEF r, TurnInv
  <2>2. CASE route # "deepthink"
    BY <2>2, NewLoopKeeps
  <2> QED BY <2>1, <2>2
<1> HIDE DEF t
<1> QED BY <1>1, <1>2, ContextMoves, StartsTypes DEF Inv, TypeOK

LEMMA SystemStartsKeeps ==
    ASSUME Inv, NEW w \in Worker, NEW c \in Chat, SystemStarts(w, c) PROVE Inv'
<1> DEFINE t == LoopOf(NewTurn("model", "system", c, FALSE), TRUE, 3)
<1>1. Starts(w) /\ SetContext(w, c, t)
  BY DEF SystemStarts
<1>2. t \in Turns /\ TurnInv(t) /\ t.chat = c
  BY NewLoopKeeps
<1> HIDE DEF t
<1> QED BY <1>1, <1>2, ContextMoves, StartsTypes DEF Inv, TypeOK

LEMMA CommandStartsKeeps ==
    ASSUME Inv, NEW w \in Worker, NEW route \in {"forced", "refine", "mcp"}, CommandStarts(w, route) PROVE Inv'
<1> DEFINE pc == CASE route = "forced" -> "think" [] route = "refine" -> "refine" [] route = "mcp" -> "snapshot"
           no == FALSE
           t == NewTurn(pc, route, None, no)
<1>1. Starts(w) /\ Become(w, t) /\ context' = context
  BY DEF CommandStarts
<1>2. pc \in {"think", "refine", "model", "snapshot"} /\ (pc = "think" => route = "forced") /\ (pc = "refine" => route = "refine")
      /\ pc # "model"
  OBVIOUS
<1>10. no \in BOOLEAN /\ ~no
  OBVIOUS
<1> HIDE DEF pc, no
<1>3. /\ t \in Turns /\ t.pc = pc /\ t.route = route /\ t.chat = None /\ t.action = no
      /\ t.used = <<>> /\ t.earlier = <<>> /\ t.ran = <<>> /\ t.pass = 1 /\ ~t.prompted
      /\ Paced(t) /\ Accounted(t)
  <2>1. route \in {"simple", "deepthink", "system", "forced", "refine", "mcp"} /\ None \in Chat \cup {None}
    OBVIOUS
  <2> HIDE DEF t
  <2> QED BY <1>2, <1>10, <2>1, NewTurnKeeps, SMTT(60) DEF t
<1> HIDE DEF t
<1>4. Routed(t)
  BY <1>2, <1>3, <1>10 DEF Routed
<1>5. TurnInv(t)
  BY <1>3, <1>4 DEF TurnInv
<1>6. Outside'
  BY <1>1, StartsTypes
<1>7. Moves(w)
  BY <1>1, <1>3, <1>5, <1>6, BecomeMoves DEF Inv
<1>8. \A v \in Worker : TurnInv(turn'[v])
  BY <1>7 DEF Moves, Inv
<1> QED BY <1>1, <1>6, <1>7, <1>8, StartsTypes DEF Moves, Inv, TypeOK

-----------------------------------------------------------------------------
(* The invariant is inductive *)

LEMMA MovesInv ==
    ASSUME Inv, NEW w \in Worker, Moves(w), UNCHANGED Shared PROVE Inv'
<1>1. /\ context' = context /\ catalog' = catalog /\ catalogs' = catalogs /\ started' = started
  BY DEF Shared
<1>2. TypeOK'
  BY <1>1 DEF Moves, Inv, TypeOK
<1>3. \A v \in Worker : TurnInv(turn'[v])
  BY DEF Moves, Inv
<1> QED BY <1>2, <1>3 DEF Moves, Inv

LEMMA InvInit == Init => Inv
<1> SUFFICES ASSUME Init PROVE Inv
  OBVIOUS
<1>1. TypeOK
  BY NoTurnKeeps, ConstantsAssumption DEF Init, TypeOK
<1>2. \A w \in Worker : TurnInv(turn[w]) /\ turn[w].chat = None
  BY NoTurnKeeps DEF Init
<1>3. Outside
  BY DEF Init, Nothing, Outside, WorkAccounted, ToolsRecorded, ActionsPressed
<1> QED BY <1>1, <1>2, <1>3 DEF Inv

LEMMA InvNext == Inv /\ [Next]_vars => Inv'
<1> SUFFICES ASSUME Inv, [Next]_vars PROVE Inv'
  OBVIOUS
<1>1. CASE Publish
  <2>1. TypeOK'
    BY <1>1, ConstantsAssumption DEF Publish, Inv, TypeOK
  <2> QED BY <1>1, <2>1, QuietOutside DEF Publish, Inv
<1>2. CASE Withdraw
  <2>1. TypeOK'
    BY <1>2 DEF Withdraw, Inv, TypeOK
  <2> QED BY <1>2, <2>1, QuietOutside DEF Withdraw, Inv
<1>3. ASSUME NEW w \in Worker, NEW c \in Chat, NEW route \in {"simple", "deepthink"}, NEW action \in BOOLEAN,
             RoutedStarts(w, c, route, action)
      PROVE  Inv'
  BY <1>3, RoutedStartsKeeps
<1>4. ASSUME NEW w \in Worker, NEW c \in Chat, SystemStarts(w, c) PROVE Inv'
  BY <1>4, SystemStartsKeeps
<1>5. ASSUME NEW w \in Worker, NEW route \in {"forced", "refine", "mcp"}, CommandStarts(w, route) PROVE Inv'
  BY <1>5, CommandStartsKeeps
<1>6. ASSUME NEW w \in Worker, Step(w) PROVE Inv'
  BY <1>6, StepMoves, MovesInv
<1>7. CASE UNCHANGED vars
  BY <1>7 DEF vars, Inv, TypeOK, Outside, WorkAccounted, ToolsRecorded, ActionsPressed
<1> QED BY <1>1, <1>2, <1>3, <1>4, <1>5, <1>6, <1>7 DEF Next

THEOREM InductiveInvariant == Spec => []Inv
BY InvInit, InvNext, PTL DEF Spec

-----------------------------------------------------------------------------
(* What it shows *)

\* Every field of every turn keeps its range: at most three reasoning tools
\* are counted, and nothing of an MCP server is ever used or run by the loop.
THEOREM TypesKept == Spec => []TypeOK
<1>1. Inv => TypeOK
  BY DEF Inv
<1> QED BY <1>1, InductiveInvariant, PTL

\* However calls come, a pass of the loop runs no more reasoning tools than
\* its limit, with a concrete tool between any two, and none in the second
\* pass (_run_agent_loop).
THEOREM ReasoningIsPaced == Spec => []ReasoningPaced
<1>1. Inv => ReasoningPaced
  BY DEF Inv, TurnInv, Paced, ReasoningPaced, Places
<1> QED BY <1>1, InductiveInvariant, PTL

\* The loop runs no MCP tool, and /mcp only one of the catalog its model was
\* shown (_explicit_mcp_identity_is_live).
THEOREM McpIsIsolated == Spec => []McpIsolated
<1>1. ASSUME Inv, NEW w \in Worker, NEW i \in 1..Len(turn[w].ran) PROVE turn[w].ran[i] \notin Mcp
  <2>1. turn[w].ran \in Seq(Runnable)
    BY <1>1 DEF Inv, TypeOK, Turns
  <2> QED BY <2>1, ElementOfSeq DEF Runnable
<1>2. Inv => McpIsolated
  BY <1>1 DEF Inv, Outside, McpIsolated
<1> QED BY <1>2, InductiveInvariant, PTL

\* The history names exactly what ran, and a turn that ends with a text where
\* an action was asked for was told to act (tools_used, MustAct).
THEOREM WorkIsAccounted == Spec => []WorkAccounted
<1>1. Inv => WorkAccounted
  BY DEF Inv, Outside
<1> QED BY <1>1, InductiveInvariant, PTL

-----------------------------------------------------------------------------
(* DeepThink, which a turn awaits: the invariant *)

Outcomes == {"none", "answer", "timeout", "error", "cancelled"}
AgentRecords == [pc : {"absent", "created", "primary", "fallback", "done"}, limit : BOOLEAN,
                 outcome : Outcomes, reply : [size : Nat, blank : BOOLEAN]]

ThinkTypes ==
    /\ active \in Seq(Range(Thinkers)) /\ active # <<>>
    /\ think \in {"idle", "thinkers", "judge", "over"}
    /\ agents \in [Agent -> AgentRecords]
    /\ withdrawn \in BOOLEAN
    /\ result \in [source : {"none", "judge", "thinker", "notice", "blank", "cancelled"},
                   thinker : Range(Thinkers) \cup {NoThinker}]

\* Who is at work while think() is at which await: the thinkers, then the
\* judge, then nobody.
AtWork ==
    /\ think = "idle" => ~withdrawn /\ \A a \in Agent : agents[a].pc = "absent"
    /\ think # "idle" => \A a \in Range(active) : agents[a].pc # "absent"
    /\ think \in {"judge", "over"} => Terminal
    /\ \A a \in Agent \ (Range(active) \cup {Judge}) : agents[a].pc = "absent"
    /\ think \in {"idle", "thinkers"} => agents[Judge].pc = "absent"
    /\ think = "judge" => agents[Judge].pc \in {"primary", "fallback", "done"}
    /\ think = "over" => agents[Judge].pc \in {"absent", "done"}

\* A response without characters is blank; the judge's call fails, or its
\* caller has been cancelled.
Ended ==
    /\ \A a \in Agent : agents[a].reply.size = 0 => agents[a].reply.blank
    /\ think = "judge" /\ agents[Judge].pc = "done" =>
          \/ agents[Judge].outcome \in {"timeout", "error"} /\ ~withdrawn
          \/ agents[Judge].outcome = "cancelled" /\ withdrawn

\* What is returned: the judge's verdict, or the best response if it says
\* anything.
Returned ==
    think = "over" =>
        /\ result.source # "none" /\ (result.source = "cancelled" <=> withdrawn)
        /\ result.source = "notice" => agents[Best].reply.blank
        /\ result.source = "thinker" => result.thinker = Best /\ ~agents[Best].reply.blank

ThinkInv == ThinkTypes /\ AtWork /\ Ended /\ Returned

-----------------------------------------------------------------------------
(* The longest response *)

\* A finite list of sizes has a largest one: a shortest prefix without would
\* have one with its last element.
LEMMA LargestSize ==
    ASSUME NEW n \in Nat \ {0}, NEW size \in [1..n -> Nat]
    PROVE  \E i \in 1..n : \A j \in 1..n : size[j] <= size[i]
<1> DEFINE Bad == {m \in 1..n : ~\E i \in 1..m : \A j \in 1..m : size[j] <= size[i]}
<1>1. SUFFICES ASSUME Bad # {} PROVE FALSE
  <2>1. n \in 1..n
    OBVIOUS
  <2>2. n \notin Bad => \E i \in 1..n : \A j \in 1..n : size[j] <= size[i]
    BY <2>1
  <2> QED BY <1>1, <2>2
<1>2. Bad \in SUBSET Nat
  OBVIOUS
<1>3. Min(Bad) \in Bad /\ \A e \in Bad : Min(Bad) <= e
  <2> HIDE DEF Bad
  <2> QED BY <1>1, <1>2, LeastElement
<1>4. PICK m \in Bad : \A e \in Bad : m <= e
  BY <1>3
<1>5. m # 1
  <2>1. m = 1 => \E i \in 1..m : \A j \in 1..m : size[j] <= size[i]
    OBVIOUS
  <2> QED BY <1>4, <2>1
<1>6. m - 1 \in 1..n /\ m - 1 \notin Bad
  <2> HIDE DEF Bad
  <2>1. m \in 1..n
    BY <1>4 DEF Bad
  <2> QED BY <1>4, <1>5, <2>1
<1>7. PICK i \in 1..(m - 1) : \A j \in 1..(m - 1) : size[j] <= size[i]
  BY <1>6
<1>8. m \in 1..n /\ i \in 1..n
  BY <1>4, <1>7
<1>9. \A j \in 1..m : size[j] <= IF size[m] >= size[i] THEN size[m] ELSE size[i]
  <2> TAKE j \in 1..m
  <2>1. j = m \/ j \in 1..(m - 1)
    BY <1>8
  <2>2. size[j] \in Nat /\ size[m] \in Nat /\ size[i] \in Nat
    BY <1>8
  <2> QED BY <1>7, <2>1, <2>2
<1>10. \E e \in 1..m : \A j \in 1..m : size[j] <= size[e]
  <2>1. CASE size[m] >= size[i]
    BY <1>8, <1>9, <2>1
  <2>2. CASE ~(size[m] >= size[i])
    BY <1>7, <1>8, <1>9, <2>2
  <2> QED BY <2>1, <2>2
<1> QED BY <1>4, <1>10

\* The fallback is one of the longest responses (_run_judge).
LEMMA BestIsLongest ==
    ASSUME ThinkTypes
    PROVE  /\ Best \in Range(active)
           /\ \A a \in Range(active) : agents[a].reply.size <= agents[Best].reply.size
<1> DEFINE n == Len(active)
           size == [i \in 1..n |-> agents[active[i]].reply.size]
           sizes == {agents[a].reply.size : a \in Range(active)}
           firsts == {i \in 1..n : agents[active[i]].reply.size = Max(sizes)}
<1>1. n \in Nat \ {0} /\ DOMAIN active = 1..n /\ \A i \in 1..n : active[i] \in Range(Thinkers)
  BY EmptySeq, ElementOfSeq, LenProperties DEF ThinkTypes
<1>2. \A a \in Range(Thinkers) : agents[a].reply.size \in Nat
  BY DEF ThinkTypes, Agent, AgentRecords
<1>3. Range(active) = {active[i] : i \in 1..n} /\ Range(active) \subseteq Range(Thinkers)
  BY <1>1 DEF Range
<1>4. size \in [1..n -> Nat]
  BY <1>1, <1>2
<1>5. PICK e \in 1..n : \A j \in 1..n : size[j] <= size[e]
  <2> HIDE DEF n, size
  <2> QED BY <1>1, <1>4, LargestSize
<1>6. size[e] \in sizes /\ \A x \in sizes : size[e] >= x
  BY <1>1, <1>3, <1>5
<1>7. Max(sizes) \in sizes /\ \A x \in sizes : Max(sizes) >= x
  <2> HIDE DEF sizes, size
  <2> QED BY <1>6 DEF Max
<1>8. firsts # {} /\ firsts \in SUBSET Nat
  <2>1. PICK a \in Range(active) : agents[a].reply.size = Max(sizes)
    BY <1>7
  <2>2. PICK i \in 1..n : active[i] = a
    BY <1>3, <2>1
  <2>3. i \in firsts
    BY <2>1, <2>2
  <2>4. firsts \subseteq 1..n
    <3> HIDE DEF sizes, n
    <3> QED OBVIOUS
  <2>5. 1..n \subseteq Nat
    <3> HIDE DEF n
    <3> QED BY <1>1
  <2> HIDE DEF firsts, n
  <2> QED BY <2>3, <2>4, <2>5
<1>9. Min(firsts) \in firsts
  <2> HIDE DEF firsts
  <2> QED BY <1>8, LeastElement
<1>10. Best = active[Min(firsts)]
  BY DEF Best
<1>11. Min(firsts) \in 1..n /\ agents[Best].reply.size = Max(sizes)
  <2> HIDE DEF sizes
  <2> QED BY <1>9, <1>10
<1> QED BY <1>3, <1>7, <1>10, <1>11

-----------------------------------------------------------------------------
(* Every step of the engine keeps the invariant *)

LEMMA ThinkBegins == ThinkInit => ThinkInv
<1> SUFFICES ASSUME ThinkInit PROVE ThinkInv
  OBVIOUS
<1>1. PICK n \in 1..Len(Thinkers) : active = SubSeq(Thinkers, 1, Min({n, Len(Thinkers)}))
  BY DEF ThinkInit, Configured
<1>2. Min({n, Len(Thinkers)}) = n
  <2>1. Len(Thinkers) \in Nat /\ n \in Nat /\ n <= Len(Thinkers)
    BY ThinkAssumption
  <2>2. n \in {n, Len(Thinkers)} /\ \A y \in {n, Len(Thinkers)} : n <= y
    BY <2>1
  <2>3. \A x \in {n, Len(Thinkers)} : (\A y \in {n, Len(Thinkers)} : x <= y) => x = n
    BY <2>1
  <2> QED BY <2>2, <2>3 DEF Min
<1>3. active \in Seq(Range(Thinkers)) /\ active # <<>>
  <2>1. active = SubSeq(Thinkers, 1, n) /\ Len(Thinkers) \in Nat
    BY <1>1, <1>2, ThinkAssumption, LenProperties
  <2>2. active \in Seq(Range(Thinkers)) /\ Len(active) = n
    BY <2>1, ThinkAssumption, SubSeqProperties
  <2> QED BY <2>2, EmptySeq
<1>4. NoAgent \in AgentRecords /\ NoAgent.pc = "absent" /\ NoAgent.reply.size = 0 /\ NoAgent.reply.blank
  BY DEF NoAgent, NoReply, AgentRecords, Outcomes
<1>5. \A a \in Agent : agents[a] = NoAgent
  BY DEF ThinkInit, Idle
<1>6. ThinkTypes
  BY <1>3, <1>4 DEF ThinkInit, Idle, ThinkTypes, NoResult
<1>7. Judge \in Agent
  BY DEF Agent
<1>8. AtWork
  BY <1>4, <1>5, <1>7 DEF AtWork, ThinkInit, Idle
<1> QED BY <1>4, <1>5, <1>6, <1>8 DEF ThinkInit, Idle, ThinkInv, Ended, Returned

\* One agent, the judge or a thinker, takes a step of its call.
Works(a) ==
    /\ agents' \in [Agent -> AgentRecords]
    /\ \A x \in Agent \ {a} : agents'[x] = agents[x]
    /\ agents[a].pc \in {"created", "primary", "fallback"}
    /\ agents'[a].pc \in {"primary", "fallback", "done"}
    /\ agents'[a].reply.size = 0 => agents'[a].reply.blank
    /\ agents'[a].pc = "done" /\ a = Judge =>
          \/ agents'[a].outcome \in {"timeout", "error"} /\ ~withdrawn
          \/ agents'[a].outcome = "cancelled" /\ withdrawn
    /\ UNCHANGED Others

LEMMA WorksKeeps ==
    ASSUME ThinkInv, NEW a \in Agent, Works(a)
    PROVE  ThinkInv'
<1> USE DEF ThinkInv
<1>1. UNCHANGED <<active, fallback, think, withdrawn, result>>
  BY DEF Works, Others
<1>2. ThinkTypes'
  BY <1>1 DEF ThinkTypes, Works
<1>3. Range(active)' = Range(active) /\ Range(active) \subseteq Agent /\ Judge \in Agent /\ Judge \notin Range(active)
  <2>1. Range(active) \in SUBSET Range(Thinkers)
    BY RangeOfSeq DEF ThinkTypes
  <2> QED BY <1>1, <2>1, ThinkAssumption DEF Agent, Range
<1>4. think \in {"thinkers", "judge"}
  BY <1>3 DEF Works, AtWork, Terminal, ThinkTypes
<1>5. think = "judge" => a = Judge
  BY <1>3 DEF Works, AtWork, Terminal
<1>6. think = "thinkers" => a \in Range(active) /\ a # Judge
  BY <1>3 DEF Works, AtWork
<1>7. AtWork'
  BY <1>1, <1>3, <1>4, <1>5, <1>6 DEF Works, AtWork, Terminal
<1>8. Ended'
  BY <1>1, <1>3, <1>5 DEF Works, Ended
<1> QED BY <1>1, <1>2, <1>4, <1>7, <1>8 DEF Returned

\* The fields of a call that has ended.
LEMMA EndedCall ==
    ASSUME ThinkTypes, NEW a \in Agent, NEW outcome \in Outcomes,
           NEW reply \in [size : Nat, blank : BOOLEAN], CallEnds(a, outcome, reply)
    PROVE  /\ agents' \in [Agent -> AgentRecords]
           /\ \A x \in Agent \ {a} : agents'[x] = agents[x]
           /\ agents'[a].pc = "done" /\ agents'[a].outcome = outcome /\ agents'[a].reply = reply
<1> DEFINE r == [agents[a] EXCEPT !.pc = "done", !.outcome = outcome, !.reply = reply]
<1>1. agents[a] \in AgentRecords
  BY DEF ThinkTypes
<1>2. r \in AgentRecords /\ r.pc = "done" /\ r.outcome = outcome /\ r.reply = reply
  BY <1>1 DEF AgentRecords
<1>3. agents' = [agents EXCEPT ![a] = r]
  BY DEF CallEnds
<1> HIDE DEF r
<1> QED BY <1>2, <1>3 DEF ThinkTypes

\* The fields of one that goes on.
LEMMA OngoingCall ==
    ASSUME ThinkTypes, NEW a \in Agent, NEW r \in AgentRecords, agents' = [agents EXCEPT ![a] = r]
    PROVE  /\ agents' \in [Agent -> AgentRecords]
           /\ \A x \in Agent \ {a} : agents'[x] = agents[x]
           /\ agents'[a] = r
BY DEF ThinkTypes

LEMMA RecordTyped ==
    ASSUME NEW r \in AgentRecords, NEW pc \in {"primary", "fallback"}
    PROVE  /\ [r EXCEPT !.pc = pc] \in AgentRecords /\ [r EXCEPT !.pc = pc].pc = pc
           /\ [r EXCEPT !.pc = pc].reply = r.reply
BY DEF AgentRecords

LEMMA LimitTyped ==
    ASSUME NEW r \in AgentRecords
    PROVE  /\ [r EXCEPT !.limit = TRUE] \in AgentRecords /\ [r EXCEPT !.limit = TRUE].pc = r.pc
           /\ [r EXCEPT !.limit = TRUE].reply = r.reply
BY DEF AgentRecords

LEMMA AgentWorks ==
    ASSUME ThinkInv, NEW a \in Agent, AgentNext(a)
    PROVE  Works(a)
<1> USE DEF ThinkInv
<1>0. /\ agents[a] \in AgentRecords /\ NoReply \in [size : Nat, blank : BOOLEAN] /\ NoReply.blank
      /\ (agents[a].reply.size = 0 => agents[a].reply.blank) /\ withdrawn \in BOOLEAN
  BY DEF ThinkTypes, NoReply, Ended
<1>1. a = Judge => agents[a].pc # "created"
  BY DEF AtWork, ThinkTypes
<1>2. CASE Begins(a)
  <2>1. CASE withdrawn
    <3>1. CallEnds(a, "cancelled", NoReply)
      BY <1>2, <2>1 DEF Begins
    <3> QED BY <1>0, <1>2, <2>1, <3>1, EndedCall DEF Begins, Works, Outcomes
  <2>2. CASE ~withdrawn
    <3>1. agents' = [agents EXCEPT ![a] = [agents[a] EXCEPT !.pc = "primary"]]
      BY <1>2, <2>2 DEF Begins
    <3> QED BY <1>0, <1>2, <3>1, RecordTyped, OngoingCall DEF Begins, Works
  <2> QED BY <2>1, <2>2
<1>3. CASE Fails(a)
  <2>1. CASE agents[a].pc = "primary" /\ a \in fallback
    <3>1. agents' = [agents EXCEPT ![a] = [agents[a] EXCEPT !.pc = "fallback"]]
      BY <1>3, <2>1 DEF Fails
    <3> QED BY <1>0, <1>3, <2>1, <3>1, RecordTyped, OngoingCall DEF Fails, Works
  <2>2. CASE ~(agents[a].pc = "primary" /\ a \in fallback)
    <3>1. CallEnds(a, "error", NoReply)
      BY <1>3, <2>2 DEF Fails
    <3> QED BY <1>0, <1>3, <3>1, EndedCall DEF Fails, Calling, Hit, Works, Outcomes
  <2> QED BY <2>1, <2>2
<1>4. CASE Expires(a)
  <2>1. agents' = [agents EXCEPT ![a] = [agents[a] EXCEPT !.limit = TRUE]]
    BY <1>4 DEF Expires
  <2> DEFINE r == [agents[a] EXCEPT !.limit = TRUE]
  <2>2. r \in AgentRecords /\ r.pc = agents[a].pc /\ r.reply = agents[a].reply
    BY <1>0, LimitTyped
  <2> HIDE DEF r
  <2>3. /\ agents' \in [Agent -> AgentRecords] /\ \A x \in Agent \ {a} : agents'[x] = agents[x]
        /\ agents'[a] = r
    BY <2>1, <2>2, OngoingCall DEF r
  <2> QED BY <1>0, <1>4, <2>2, <2>3 DEF Expires, Calling, Works
<1>5. CASE Unwinds(a)
  <2>1. CallEnds(a, IF withdrawn THEN "cancelled" ELSE "timeout", NoReply)
    BY <1>5 DEF Unwinds
  <2>2. (IF withdrawn THEN "cancelled" ELSE "timeout") \in Outcomes
    BY DEF Outcomes
  <2> QED BY <1>0, <1>5, <2>1, <2>2, EndedCall DEF Unwinds, Calling, Works
<1>6. ASSUME NEW y \in Responses, Answers(a, y) PROVE Works(a)
  <2>1. y \in [size : Nat, blank : BOOLEAN] /\ (y.size = 0 => y.blank)
    BY ThinkAssumption
  <2>2. CallEnds(a, "answer", y) /\ "answer" \in Outcomes
    BY <1>6 DEF Answers, Outcomes
  <2> QED BY <1>6, <2>1, <2>2, EndedCall DEF Answers, Calling, Works
<1> QED BY <1>2, <1>3, <1>4, <1>5, <1>6 DEF AgentNext

LEMMA ThinkStartsKeeps == ThinkInv /\ ThinkStarts => ThinkInv'
<1> SUFFICES ASSUME ThinkInv, ThinkStarts PROVE ThinkInv'
  OBVIOUS
<1> USE DEF ThinkInv
<1> DEFINE new == [NoAgent EXCEPT !.pc = "created"]
<1>1. /\ NoAgent \in AgentRecords /\ NoAgent.pc = "absent" /\ NoAgent.reply.blank
      /\ new \in AgentRecords /\ new.pc = "created" /\ new.reply.blank
  BY DEF NoAgent, NoReply, AgentRecords, Outcomes
<1>2. Range(active) \in SUBSET Range(Thinkers) /\ Judge \notin Range(active) /\ Range(active) \subseteq Agent /\ Judge \in Agent
  BY RangeOfSeq, ThinkAssumption DEF ThinkTypes, Agent
<1>3. \A a \in Agent : agents'[a] = IF a \in Range(active) THEN new ELSE NoAgent
  BY DEF ThinkStarts
<1>4. agents' \in [Agent -> AgentRecords]
  BY <1>1 DEF ThinkStarts
<1> HIDE DEF new
<1>5. UNCHANGED <<active, withdrawn, result>> /\ think' = "thinkers" /\ Range(active)' = Range(active)
  BY DEF ThinkStarts, Range
<1>6. ThinkTypes'
  BY <1>4, <1>5 DEF ThinkTypes
<1>7. AtWork'
  BY <1>1, <1>2, <1>3, <1>5 DEF AtWork
<1> QED BY <1>1, <1>3, <1>5, <1>6, <1>7 DEF Ended, Returned

LEMMA WithdrawKeeps == ThinkInv /\ WithdrawCaller => ThinkInv'
<1> SUFFICES ASSUME ThinkInv, WithdrawCaller PROVE ThinkInv'
  OBVIOUS
<1>1. Range(active)' = Range(active)
  BY DEF WithdrawCaller, Range
<1> QED BY <1>1 DEF WithdrawCaller, ThinkInv, ThinkTypes, AtWork, Terminal, Ended, Returned

LEMMA GatherKeeps == ThinkInv /\ Gather => ThinkInv'
<1> SUFFICES ASSUME ThinkInv, Gather PROVE ThinkInv'
  OBVIOUS
<1> USE DEF ThinkInv
<1>1. Range(active)' = Range(active) /\ Judge \in Agent
  BY DEF Gather, Range, Agent
<1>2. CASE withdrawn
  <2>1. /\ UNCHANGED <<active, withdrawn, agents>> /\ think' = "over"
        /\ result'.source = "cancelled" /\ result'.thinker = NoThinker
    BY <1>2 DEF Gather, NoResult
  <2>2. ThinkTypes'
    BY <1>2, <2>1 DEF ThinkTypes, Gather, NoResult
  <2>3. AtWork'
    BY <1>1, <2>1 DEF AtWork, Gather, Terminal
  <2> QED BY <1>2, <2>1, <2>2, <2>3 DEF Ended, Returned
<1>3. CASE ~withdrawn
  <2> DEFINE r == [agents[Judge] EXCEPT !.pc = "primary"]
  <2>1. agents[Judge] \in AgentRecords
    BY <1>1 DEF ThinkTypes
  <2>2. r \in AgentRecords /\ r.pc = "primary" /\ r.reply = agents[Judge].reply
    BY <2>1, RecordTyped
  <2>3. agents' = [agents EXCEPT ![Judge] = r]
    BY <1>3 DEF Gather
  <2> HIDE DEF r
  <2>4. agents' \in [Agent -> AgentRecords] /\ agents'[Judge] = r /\ \A x \in Agent \ {Judge} : agents'[x] = agents[x]
    BY <1>1, <2>2, <2>3, OngoingCall
  <2>5. UNCHANGED <<active, withdrawn, result>> /\ think' = "judge"
    BY <1>3 DEF Gather
  <2>6. ThinkTypes'
    BY <2>4, <2>5 DEF ThinkTypes
  <2>7. Judge \notin Range(active) /\ Range(active) \subseteq Agent
    BY RangeOfSeq, ThinkAssumption DEF ThinkTypes, Agent
  <2>8. AtWork'
    BY <1>1, <2>2, <2>4, <2>5, <2>7 DEF AtWork, Gather, Terminal
  <2> QED BY <1>1, <2>2, <2>4, <2>5, <2>6, <2>8 DEF Ended, Returned
<1> QED BY <1>2, <1>3

LEMMA JudgeAnswersKeeps == ASSUME ThinkInv, NEW text, JudgeAnswers(text) PROVE ThinkInv'
<1> USE DEF ThinkInv
<1>1. Range(active)' = Range(active) /\ Judge \in Agent
  BY DEF JudgeAnswers, Returns, Range, Agent
<1>2. CallEnds(Judge, "answer", NoReply) /\ "answer" \in Outcomes /\ NoReply \in [size : Nat, blank : BOOLEAN] /\ NoReply.blank
  BY DEF JudgeAnswers, Outcomes, NoReply
<1>3. agents' \in [Agent -> AgentRecords] /\ (\A x \in Agent \ {Judge} : agents'[x] = agents[x]) /\ agents'[Judge].pc = "done" /\ agents'[Judge].reply = NoReply
  BY <1>1, <1>2, EndedCall
<1>4. UNCHANGED <<active, withdrawn>> /\ think' = "over" /\ result'.source \in {"blank", "judge"} /\ result'.thinker = NoThinker
  BY DEF JudgeAnswers, Returns
<1>5. ThinkTypes'
  BY <1>3, <1>4 DEF ThinkTypes, JudgeAnswers, Returns
<1>6. Judge \notin Range(active) /\ Range(active) \subseteq Agent
  BY RangeOfSeq, ThinkAssumption DEF ThinkTypes, Agent
<1>7. think = "judge" /\ ~withdrawn
  BY DEF JudgeAnswers, Calling, Hit, AtWork, ThinkTypes
<1>8. AtWork'
  BY <1>1, <1>3, <1>4, <1>6, <1>7 DEF AtWork, Terminal
<1> QED BY <1>1, <1>2, <1>3, <1>4, <1>5, <1>7, <1>8 DEF Ended, Returned

LEMMA JudgeReturnsKeeps == ThinkInv /\ JudgeReturns => ThinkInv'
<1> SUFFICES ASSUME ThinkInv, JudgeReturns PROVE ThinkInv'
  OBVIOUS
<1> USE DEF ThinkInv
<1>1. UNCHANGED <<active, fallback, withdrawn, agents>> /\ think' = "over" /\ Range(active)' = Range(active)
  BY DEF JudgeReturns, JudgeFailed, Returns, Range
<1>2. Best' = Best /\ Best \in Range(Thinkers)
  <2>1. Best \in Range(active) /\ Range(active) \in SUBSET Range(Thinkers)
    BY BestIsLongest, RangeOfSeq DEF ThinkTypes
  <2> QED BY <1>1, <2>1 DEF Best
<1>3. AtWork' /\ Ended'
  BY <1>1 DEF AtWork, Ended, Terminal, JudgeReturns
<1>4. CASE JudgeFailed
  <2>1. ~withdrawn
    BY <1>4 DEF JudgeReturns, JudgeFailed, Ended
  <2>2. \/ agents[Best].reply.blank /\ result' = [source |-> "notice", thinker |-> Best]
        \/ ~agents[Best].reply.blank /\ result' = [source |-> "thinker", thinker |-> Best]
    BY <1>4 DEF JudgeFailed, Returns
  <2>3. ThinkTypes'
    BY <1>1, <1>2, <2>2 DEF ThinkTypes
  <2> QED BY <1>1, <1>2, <1>3, <2>1, <2>2, <2>3 DEF Returned
<1>5. CASE agents[Judge].outcome = "cancelled" /\ Returns("cancelled", NoThinker)
  <2>1. withdrawn /\ result' = [source |-> "cancelled", thinker |-> NoThinker]
    BY <1>5 DEF JudgeReturns, Returns, Ended
  <2>2. ThinkTypes'
    BY <1>1, <2>1 DEF ThinkTypes
  <2> QED BY <1>1, <1>3, <2>1, <2>2 DEF Returned
<1> QED BY <1>4, <1>5 DEF JudgeReturns

LEMMA ThinkStep == ThinkInv /\ [ThinkNext]_thinkVars => ThinkInv'
<1> SUFFICES ASSUME ThinkInv, [ThinkNext]_thinkVars PROVE ThinkInv'
  OBVIOUS
<1>1. ASSUME NEW a \in Agent, AgentNext(a) PROVE ThinkInv'
  BY <1>1, AgentWorks, WorksKeeps
<1>2. ASSUME NEW t \in JudgeTexts, JudgeAnswers(t) PROVE ThinkInv'
  BY <1>2, JudgeAnswersKeeps
<1>3. CASE UNCHANGED thinkVars
  <2>1. UNCHANGED <<active, fallback, think, agents, withdrawn, result>> /\ Best' = Best
    BY <1>3 DEF thinkVars, Best
  <2>2. Range(active)' = Range(active)
    BY <2>1 DEF Range
  <2>3. ThinkTypes'
    BY <2>1, <2>2 DEF ThinkInv, ThinkTypes
  <2>4. AtWork'
    BY <2>1, <2>2 DEF ThinkInv, AtWork, Terminal
  <2>5. Ended' /\ Returned'
    BY <2>1, <2>2 DEF ThinkInv, Ended, Returned
  <2> QED BY <2>3, <2>4, <2>5 DEF ThinkInv
<1> QED BY <1>1, <1>2, <1>3, ThinkStartsKeeps, WithdrawKeeps, GatherKeeps, JudgeReturnsKeeps DEF ThinkNext

THEOREM ThinkInvariant == ThinkSpec => []ThinkInv
BY ThinkBegins, ThinkStep, PTL DEF ThinkSpec

-----------------------------------------------------------------------------
(* What DeepThink promises *)

\* A request that has ended asks no model, and the judge's is asked only when
\* every thinker has ended: the lab's assertions on drained calls and on the
\* gate, for any number of thinkers (deepthink_trace.py).
THEOREM JudgeIsGated == ThinkSpec => []GatedAndDrained
<1>1. ASSUME ThinkInv PROVE GatedAndDrained
  <2>1. Range(active) \subseteq Agent
    BY <1>1, RangeOfSeq DEF ThinkInv, ThinkTypes, Agent
  <2> QED BY <1>1, <2>1 DEF ThinkInv, ThinkTypes, AtWork, Terminal, GatedAndDrained
<1> QED BY <1>1, ThinkInvariant, PTL

\* When the longest response says anything, the user gets an answer whatever
\* became of the other thinkers and of the judge (_run_judge, DeepThinkTool.execute,
\* _format_deepthink_result).
THEOREM AnsweredWhenever == ThinkSpec => []AnswerWhenever
<1>1. ASSUME ThinkInv PROVE AnswerWhenever
  <2> DEFINE longest == {a \in Range(active) : \A b \in Range(active) : agents[b].reply.size <= agents[a].reply.size}
  <2>1. Best \in Range(active) /\ Best \in longest
    BY <1>1, BestIsLongest DEF ThinkInv
  <2>2. Best \in Agent
    BY <1>1, <2>1, RangeOfSeq DEF ThinkInv, ThinkTypes, Agent
  <2> SUFFICES ASSUME think = "over", result.source # "cancelled"
               PROVE  /\ (\A a \in longest : ~agents[a].reply.blank) =>
                             {ShownByTool, ShownByAgent} \subseteq {"judge", "thinker"}
                      /\ (\A a \in Range(active) : agents[a].reply.size = 0) => ShownByTool # "blank"
    BY DEF AnswerWhenever
  <2>3. /\ result.source \in {"judge", "thinker", "notice", "blank"}
        /\ result.source = "notice" => agents[Best].reply.blank
        /\ agents[Best].reply.size = 0 => agents[Best].reply.blank
    BY <1>1, <2>2 DEF ThinkInv, ThinkTypes, Returned, Ended
  <2>4. ASSUME ~agents[Best].reply.blank PROVE {ShownByTool, ShownByAgent} \subseteq {"judge", "thinker"}
    BY <2>3, <2>4 DEF ShownByTool, ShownByAgent
  <2>5. ASSUME agents[Best].reply.size = 0 PROVE ShownByTool # "blank"
    BY <2>3, <2>5 DEF ShownByTool
  <2> HIDE DEF longest
  <2> QED BY <2>1, <2>4, <2>5
<1> QED BY <1>1, ThinkInvariant, PTL

\* Whatever the models, the limits and the caller do, think() ends at most
\* once, with one answer, or with its caller's cancellation and nothing else:
\* the safety of AnswerService.
THEOREM RepliesOnce == ThinkSpec => Asked!Safety
<1>1. ThinkInit => Asked!Init
  BY DEF ThinkInit, Idle, Asked!Init, Reply
<1>2. ASSUME ThinkInv, [ThinkNext]_thinkVars PROVE [Asked!Next]_Asked!vars
  <2> USE DEF Asked!Next, Asked!vars, Asked!Ask, Asked!Withdraw, Asked!Answer, Asked!GiveUp, Reply
  <2>0. think \in {"idle", "thinkers", "judge", "over"} /\ withdrawn \in BOOLEAN
    BY <1>2 DEF ThinkInv, ThinkTypes
  <2>1. ASSUME NEW a \in Agent, AgentNext(a) PROVE UNCHANGED Asked!vars
    <3>1. UNCHANGED Others
      BY <2>1 DEF AgentNext, Begins, Fails, Expires, Unwinds, Answers
    <3> QED BY <3>1 DEF Others
  <2>2. ASSUME NEW t \in JudgeTexts, JudgeAnswers(t) PROVE Asked!Answer
    <3>1. think = "judge" /\ ~withdrawn
      BY <1>2, <2>2 DEF JudgeAnswers, Calling, Hit, ThinkInv, AtWork, ThinkTypes
    <3>2. think' = "over" /\ result'.source \in {"blank", "judge"} /\ UNCHANGED withdrawn
      BY <2>2 DEF JudgeAnswers, Returns
    <3> QED BY <3>1, <3>2
  <2>3. CASE ThinkStarts
    BY <2>3 DEF ThinkStarts
  <2>4. CASE WithdrawCaller
    BY <2>4 DEF WithdrawCaller
  <2>5. CASE Gather
    <3>1. CASE withdrawn
      BY <2>5, <3>1 DEF Gather, NoResult
    <3>2. CASE ~withdrawn
      BY <2>5, <3>2 DEF Gather
    <3> QED BY <3>1, <3>2
  <2>6. CASE JudgeReturns
    <3>1. CASE JudgeFailed
      <4>1. ~withdrawn
        BY <1>2, <2>6, <3>1 DEF JudgeReturns, JudgeFailed, ThinkInv, Ended
      <4>2. think' = "over" /\ result'.source \in {"notice", "thinker"} /\ UNCHANGED withdrawn
        BY <3>1 DEF JudgeFailed, Returns
      <4> QED BY <2>6, <4>1, <4>2 DEF JudgeReturns
    <3>2. CASE agents[Judge].outcome = "cancelled" /\ Returns("cancelled", NoThinker)
      <4>1. withdrawn
        BY <1>2, <2>6, <3>2 DEF JudgeReturns, ThinkInv, Ended
      <4> QED BY <2>6, <3>2, <4>1 DEF JudgeReturns, Returns
    <3> QED BY <2>6, <3>1, <3>2 DEF JudgeReturns
  <2>7. CASE UNCHANGED thinkVars
    BY <2>7 DEF thinkVars
  <2> QED BY <1>2, <2>1, <2>2, <2>3, <2>4, <2>5, <2>6, <2>7 DEF ThinkNext
<1> QED BY <1>1, <1>2, ThinkInvariant, PTL DEF ThinkSpec, Asked!Safety

\* Once its caller has been cancelled, a request asks no further model, neither
\* for a thinker nor for the judge, nor the fallback of either.
THEOREM WithdrawnIsSilent ==
    ThinkSpec => [][withdrawn => \A a \in Agent : agents'[a].pc # agents[a].pc => agents'[a].pc = "done"]_thinkVars
<1>1. ASSUME ThinkInv, [ThinkNext]_thinkVars, withdrawn, NEW x \in Agent, agents'[x].pc # agents[x].pc
      PROVE  agents'[x].pc = "done"
  <2>1. ASSUME NEW a \in Agent, AgentNext(a) PROVE agents'[x].pc = "done"
    <3>1. Works(a)
      BY <1>1, <2>1, AgentWorks
    <3>2. x = a
      BY <1>1, <3>1 DEF Works
    <3>3. CASE Begins(a)
      <4>1. CallEnds(a, "cancelled", NoReply) /\ "cancelled" \in Outcomes /\ NoReply \in [size : Nat, blank : BOOLEAN]
        BY <1>1, <3>3 DEF Begins, Outcomes, NoReply
      <4> QED BY <1>1, <3>2, <4>1, EndedCall DEF ThinkInv
    <3>4. CASE Expires(a)
      <4>1. agents' = [agents EXCEPT ![a] = [agents[a] EXCEPT !.limit = TRUE]] /\ agents[a] \in AgentRecords
        BY <1>1, <3>4 DEF Expires, ThinkInv, ThinkTypes
      <4> QED BY <1>1, <3>2, <4>1, LimitTyped, OngoingCall DEF ThinkInv
    <3>5. CASE Unwinds(a)
      <4>1. CallEnds(a, "cancelled", NoReply) /\ "cancelled" \in Outcomes /\ NoReply \in [size : Nat, blank : BOOLEAN]
        BY <1>1, <3>5 DEF Unwinds, Outcomes, NoReply
      <4> QED BY <1>1, <3>2, <4>1, EndedCall DEF ThinkInv
    <3> QED BY <1>1, <2>1, <3>3, <3>4, <3>5 DEF AgentNext, Fails, Answers, Hit
  <2>2. ASSUME NEW t \in JudgeTexts, JudgeAnswers(t) PROVE FALSE
    BY <1>1, <2>2 DEF JudgeAnswers, Hit
  <2> QED BY <1>1, <2>1, <2>2
          DEF ThinkNext, thinkVars, ThinkStarts, WithdrawCaller, Gather, JudgeReturns
<1>2. ThinkInv /\ [ThinkNext]_thinkVars =>
          [withdrawn => \A a \in Agent : agents'[a].pc # agents[a].pc => agents'[a].pc = "done"]_thinkVars
  BY <1>1
<1> QED BY <1>2, ThinkInvariant, PTL DEF ThinkSpec
=============================================================================
