----------------------- MODULE EvidenceRecordersProofs -----------------------
(***************************************************************************)
(* Proofs about EvidenceRecorders for any number of source files, of runs, *)
(* of moves of the developer and of kills.                                 *)
(*                                                                         *)
(* What is known of a run depends on how far it is in its script, so the   *)
(* inductive invariant is stated by the positions of the steps.            *)
(***************************************************************************)
EXTENDS EvidenceRecorders, TLAPS, SequenceTheorems, WellFoundedInduction

-----------------------------------------------------------------------------
(* The invariant *)

Published == {b \in Bundles : Whole(b)}

CommitRecords == [files : Contents, bundles : [Kinds -> Published \cup {None}]]

Temps == [stage : Bundles \cup {None}, snapshot : Contents \cup {None},
          backup : Published \cup {None}]

Memories == [head : Nat \cup {None}, tree : Nat \cup {None}, files : Contents \cup {None},
             seen : Seq(Version), manifest : Manifests \cup {None}, receipt : Contents \cup {None}]

RepositoryTypes ==
    /\ commits \in Seq(CommitRecords)
    /\ head \in 1..Len(commits)
    /\ work \in Contents
    /\ published \in [Kinds -> Published \cup {None}]
    /\ expected \in [Kinds -> Published \cup {None}]

RunTypes ==
    /\ temp \in [Proc -> Temps]
    /\ task \in [Proc -> Tasks \cup {None}]
    /\ step \in [Proc -> Nat]
    /\ outcome \in [Proc -> {"none", "running", "failing", "ended", "verified", "killed"}]
    /\ mem \in [Proc -> Memories]
    /\ moved \in [Proc -> BOOLEAN]

TypeOK == RepositoryTypes /\ RunTypes

Running(p) == outcome[p] = "running"

\* The three families of scripts: `record` of the trace and the handoff
\* recorder, of the MCP recorder, and the checks.
Records(p) == Running(p) /\ task[p].kind # "mcp" /\ ~Checking(p)
Replaces(p) == Running(p) /\ task[p].kind = "mcp" /\ ~Checking(p)
Checks(p) == Running(p) /\ Checking(p)

\* Where a check is; the handoff checker's script has one step before.
Position(p) == IF task[p].kind = "handoff" THEN step[p] - 1 ELSE step[p]

\* A run is somewhere in the script of its task; only a run that is under way
\* or was killed has something on disk.
OnScript(p) ==
    /\ outcome[p] \in {"running", "failing"} => task[p] \in Tasks
    /\ Running(p) => step[p] \in 1..Len(Scripts[task[p]])
    /\ outcome[p] = "none" => temp[p] = NoTemp /\ mem[p] = NoMemory

\* While a run goes through the source files it has not seen all of them, and
\* what it has seen is in HEAD and in the worktree if the developer is idle.
SeenSoFar(p) ==
    Running(p) =>
        /\ mem[p].seen # <<>> => At(p, "inventory")
        /\ Len(mem[p].seen) < Files
        /\ ~moved[p] /\ (Checks(p) \/ step[p] = 17) =>
              \A i \in 1..Len(mem[p].seen) :
                  mem[p].seen[i] = commits[head].files[i] /\ mem[p].seen[i] = work[i]

\* A recorder's snapshot, receipt and stage are those of the commit it read.
Recorded(p) ==
    Records(p) =>
        LET m == mem[p]
            s == step[p]
        IN  /\ s > 1 => m.head \in 1..Len(commits)
            /\ s > 2 => m.tree # None
            /\ s > 4 => m.files # None
            /\ s \in {6, 7} => temp[p].snapshot = commits[m.head].files
            /\ s > 6 => m.receipt = commits[m.head].files
            /\ s \in 13..19 => temp[p].stage \in Bundles
            /\ s \in 14..19 => temp[p].stage.manifest = BuildManifest(p)
            /\ s \in 15..19 => temp[p].stage.receipt = m.receipt

\* After its stage is complete a recorder notices what the developer does.
Watched(p) ==
    Records(p) /\ ~moved[p] /\ step[p] < 20 =>
        /\ step[p] > 15 => mem[p].head = head
        /\ step[p] > 16 => mem[p].tree = Tree(head)
        /\ step[p] > 17 => mem[p].files = commits[head].files /\ mem[p].files = work

\* The MCP recorder's stage is complete when it is renamed.
Replaced(p) ==
    Replaces(p) =>
        /\ step[p] > 5 => mem[p].receipt # None
        /\ step[p] \in 10..13 => temp[p].stage \in Bundles
        /\ step[p] \in 11..13 => temp[p].stage.manifest # None
        /\ step[p] \in 12..13 => temp[p].stage.receipt # None

\* Where the source files have been compared with HEAD, and the manifest and
\* the receipt with each other.
Inventoried(p) == IF task[p].kind = "mcp" THEN Position(p) > 3 ELSE Position(p) > 4
Compared(p) == IF task[p].kind = "mcp" THEN Position(p) > 4 ELSE Position(p) > 5

\* What a check has found out is still so if the developer did nothing.
Checked(p) ==
    Checks(p) =>
        LET m == mem[p] IN
        /\ Compared(p) => m.receipt = m.manifest.hash /\ m.files = m.manifest.files
        /\ Inventoried(p) => m.files # None
        /\ task[p].kind # "mcp" /\ Position(p) > 6 => m.head \in 1..Len(commits)
        /\ ~moved[p] =>
              /\ Inventoried(p) => m.files = commits[head].files /\ m.files = work
              /\ task[p].kind # "mcp" /\ task[p].what = "fresh" =>
                    /\ Position(p) \in 7..9 => m.head = head
                    /\ Position(p) \in 8..9 => temp[p].snapshot = commits[head].files
                    /\ Position(p) > 8 => m.receipt = commits[head].files

\* Only an MCP recorder sets a bundle aside, at its first rename, and a run
\* that fails has to know it when it cleans up.
SetAside(p) ==
    temp[p].backup # None =>
        /\ outcome[p] = "failing" => task[p].kind = "mcp"
        /\ Running(p) => Replaces(p) /\ step[p] \in 13..14

RunInv(p) ==
    /\ OnScript(p) /\ SeenSoFar(p) /\ Recorded(p) /\ Watched(p)
    /\ Replaced(p) /\ Checked(p) /\ SetAside(p)

\* A bundle of the trace or the handoff recorder came from its commit.
Produced(b) ==
    b # None => /\ b.manifest.commit \in 1..Len(commits)
                /\ b.manifest.hash = commits[b.manifest.commit].files

AllProduced ==
    \A k \in Kinds \ {"mcp"} :
        /\ Produced(published[k])
        /\ \A c \in 1..Len(commits) : Produced(commits[c].bundles[k])

\* Where no MCP bundle is in place, the last one was set aside by a run that is
\* not yet past the second rename.
Holds(p) ==
    /\ temp[p].backup # None
    /\ \/ Running(p) /\ step[p] = 13
       \/ outcome[p] \in {"failing", "killed"}

Kept ==
    /\ \A k \in Kinds \ {"mcp"} : expected[k] # None => published[k] = expected[k]
    /\ published["mcp"] # None => published["mcp"] = expected["mcp"]
    /\ published["mcp"] = None /\ expected["mcp"] # None =>
          \E p \in Proc : Holds(p) /\ temp[p].backup = expected["mcp"]

Inv == TypeOK /\ AllProduced /\ Kept /\ \A p \in Proc : RunInv(p)

-----------------------------------------------------------------------------
(* The scripts, step by step *)

LEMMA RecordsAt ==
    ASSUME NEW p \in Proc, Records(p), OnScript(p)
    PROVE  /\ Len(Scripts[task[p]]) = 20 /\ step[p] \in 1..20
           /\ At(p, "head") <=> step[p] \in {1, 9, 15}
           /\ At(p, "tree") <=> step[p] \in {2, 10, 16}
           /\ At(p, "status") <=> step[p] \in {3, 11, 18}
           /\ At(p, "inventory") <=> step[p] \in {4, 8, 17}
           /\ At(p, "snapshot") <=> step[p] = 5
           /\ At(p, "capture") <=> step[p] = 6
           /\ At(p, "drop") <=> step[p] = 7
           /\ At(p, "stage") <=> step[p] = 12
           /\ At(p, "manifest") <=> step[p] = 13
           /\ At(p, "receipt") <=> step[p] = 14
           /\ At(p, "rename") <=> step[p] = 19
           /\ At(p, "sync") <=> step[p] = 20
           /\ \A s \in {"retire", "settle", "discard", "readManifest", "readReceipt", "object", "compare"} :
                 ~At(p, s)
<1>1. task[p] \in Tasks /\ task[p].kind \in {"trace", "handoff"} /\ task[p].what = "record"
  BY DEF Records, Running, OnScript, Tasks, Checking
<1>2. Scripts[task[p]] = TraceRecord
  BY <1>1 DEF Scripts, Script, HandoffRecord
<1>3. Len(TraceRecord) = 20
  BY DEF TraceRecord, Clean, Verify
<1>4. step[p] \in 1..20 /\ \A s : At(p, s) <=> TraceRecord[step[p]] = s
  BY <1>2, <1>3 DEF At, OnScript, Records, Running
<1> QED BY <1>2, <1>3, <1>4 DEF TraceRecord, Clean, Verify

LEMMA ReplacesAt ==
    ASSUME NEW p \in Proc, Replaces(p), OnScript(p)
    PROVE  /\ Len(Scripts[task[p]]) = 14 /\ step[p] \in 1..14
           /\ At(p, "head") <=> step[p] \in {2, 6}
           /\ At(p, "tree") <=> step[p] \in {3, 7}
           /\ At(p, "status") <=> step[p] = 1
           /\ At(p, "inventory") <=> step[p] \in {4, 8}
           /\ At(p, "capture") <=> step[p] = 5
           /\ At(p, "stage") <=> step[p] = 9
           /\ At(p, "manifest") <=> step[p] = 10
           /\ At(p, "receipt") <=> step[p] = 11
           /\ At(p, "retire") <=> step[p] = 12
           /\ At(p, "settle") <=> step[p] = 13
           /\ At(p, "discard") <=> step[p] = 14
           /\ \A s \in {"snapshot", "drop", "rename", "sync", "readManifest", "readReceipt", "object", "compare"} :
                 ~At(p, s)
<1>1. task[p] \in Tasks /\ task[p].kind = "mcp" /\ task[p].what \in {"record", "replace"}
  BY DEF Replaces, Running, OnScript, Tasks, Checking
<1>2. Scripts[task[p]] = McpRecord
  BY <1>1 DEF Scripts, Script
<1>3. Len(McpRecord) = 14
  BY DEF McpRecord
<1>4. step[p] \in 1..14 /\ \A s : At(p, s) <=> McpRecord[step[p]] = s
  BY <1>2, <1>3 DEF At, OnScript, Replaces, Running
<1> QED BY <1>2, <1>3, <1>4 DEF McpRecord

\* The last step of a check, by kind and freshness, and the others.
CheckLength(t) == CASE t.kind = "mcp" /\ t.what = "check" -> 4
                    [] t.kind = "mcp" /\ t.what = "fresh" -> 5
                    [] t.kind # "mcp" /\ t.what = "check" -> 6
                    [] t.kind # "mcp" /\ t.what = "fresh" -> 10

LEMMA ChecksAt ==
    ASSUME NEW p \in Proc, Checks(p), OnScript(p)
    PROVE  /\ step[p] = Len(Scripts[task[p]]) <=> Position(p) = CheckLength(task[p])
           /\ Position(p) \in 0..CheckLength(task[p])
           /\ At(p, "readManifest") <=> Position(p) = 1
           /\ At(p, "readReceipt") <=> Position(p) = 2
           /\ At(p, "head") => task[p].kind # "mcp" /\ Position(p) \in {0, 6}
           /\ At(p, "snapshot") => task[p].kind # "mcp" /\ Position(p) = 7
           /\ At(p, "drop") => task[p].kind # "mcp" /\ Position(p) = 9
           /\ task[p].kind # "mcp" =>
                 /\ At(p, "object") <=> Position(p) = 3
                 /\ At(p, "inventory") <=> Position(p) \in {4, CheckLength(task[p])}
                 /\ At(p, "compare") <=> Position(p) = 5
                 /\ task[p].what = "fresh" =>
                       /\ At(p, "head") <=> Position(p) \in {0, 6}
                       /\ At(p, "snapshot") <=> Position(p) = 7
                       /\ At(p, "capture") <=> Position(p) = 8
                       /\ At(p, "drop") <=> Position(p) = 9
                 /\ task[p].what = "check" => ~At(p, "capture") /\ ~At(p, "snapshot") /\ ~At(p, "drop")
           /\ task[p].kind = "mcp" =>
                 /\ At(p, "inventory") <=> Position(p) = 3
                 /\ At(p, "compare") <=> Position(p) = 4
                 /\ At(p, "capture") <=> Position(p) = 5
                 /\ ~At(p, "object")
           /\ \A s \in {"tree", "status", "stage", "manifest", "receipt", "rename", "sync", "retire", "settle",
                         "discard"} : ~At(p, s)
<1> DEFINE t == task[p]
<1>1. t \in Tasks /\ t.kind \in {"trace", "handoff", "mcp"} /\ t.what \in {"check", "fresh"}
  BY DEF Checks, Running, OnScript, Tasks, Checking
<1>2. \A s : At(p, s) <=> Scripts[t][step[p]] = s
  BY DEF At, Checks, Running
<1>3. step[p] \in 1..Len(Scripts[t])
  BY DEF OnScript, Checks, Running
<1>4. CASE t.kind = "trace" /\ t.what = "check"
  <2>1. Scripts[t] = TraceCheck(FALSE)
    BY <1>1, <1>4 DEF Scripts, Script
  <2> QED BY <1>2, <1>3, <1>4, <2>1 DEF TraceCheck, Fresh, Position, CheckLength
<1>5. CASE t.kind = "trace" /\ t.what = "fresh"
  <2>1. Scripts[t] = TraceCheck(TRUE)
    BY <1>1, <1>5 DEF Scripts, Script
  <2> QED BY <1>2, <1>3, <1>5, <2>1 DEF TraceCheck, Fresh, Position, CheckLength
<1>6. CASE t.kind = "handoff" /\ t.what = "check"
  <2>1. Scripts[t] = HandoffCheck(FALSE)
    BY <1>1, <1>6 DEF Scripts, Script
  <2> QED BY <1>2, <1>3, <1>6, <2>1 DEF HandoffCheck, TraceCheck, Fresh, Position, CheckLength
<1>7. CASE t.kind = "handoff" /\ t.what = "fresh"
  <2>1. Scripts[t] = HandoffCheck(TRUE)
    BY <1>1, <1>7 DEF Scripts, Script
  <2> QED BY <1>2, <1>3, <1>7, <2>1 DEF HandoffCheck, TraceCheck, Fresh, Position, CheckLength
<1>8. CASE t.kind = "mcp" /\ t.what = "check"
  <2>1. Scripts[t] = McpCheck(FALSE)
    BY <1>1, <1>8 DEF Scripts, Script
  <2> QED BY <1>2, <1>3, <1>8, <2>1 DEF McpCheck, Position, CheckLength
<1>9. CASE t.kind = "mcp" /\ t.what = "fresh"
  <2>1. Scripts[t] = McpCheck(TRUE)
    BY <1>1, <1>9 DEF Scripts, Script
  <2> QED BY <1>2, <1>3, <1>9, <2>1 DEF McpCheck, Position, CheckLength
<1> QED BY <1>1, <1>4, <1>5, <1>6, <1>7, <1>8, <1>9

-----------------------------------------------------------------------------
(* What every step of a run has in common *)

\* A step of one run leaves the others alone.
OthersSame(p) ==
    \A q \in Proc \ {p} :
        /\ task'[q] = task[q] /\ step'[q] = step[q] /\ outcome'[q] = outcome[q]
        /\ mem'[q] = mem[q] /\ temp'[q] = temp[q] /\ moved'[q] = moved[q]

LEMMA OthersKeep ==
    ASSUME NEW p \in Proc, OthersSame(p), UNCHANGED <<commits, head, work>>,
           NEW q \in Proc \ {p}, RunInv(q)
    PROVE  RunInv(q)'
<1>1. /\ task'[q] = task[q] /\ step'[q] = step[q] /\ outcome'[q] = outcome[q]
      /\ mem'[q] = mem[q] /\ temp'[q] = temp[q] /\ moved'[q] = moved[q]
  BY DEF OthersSame
<1>2. OnScript(q)' /\ SeenSoFar(q)'
  BY <1>1 DEF RunInv, OnScript, SeenSoFar, Running, Checks, Checking, At
<1>3. Recorded(q)' /\ Watched(q)'
  BY <1>1 DEF RunInv, Recorded, Watched, Running, Records, Checking, BuildManifest, Tree
<1>4. Replaced(q)' /\ Checked(q)' /\ SetAside(q)'
  BY <1>1 DEF RunInv, Replaced, Checked, SetAside, Running, Checks, Replaces, Checking, Position, Compared,
              Inventoried
<1> QED BY <1>2, <1>3, <1>4 DEF RunInv

\* The run leaves its script, and what it has on disk is as it was.
LEMMA LeaveKeeps ==
    ASSUME RunTypes, NEW p \in Proc, RunInv(p), Running(p),
           NEW how \in {"failing", "ended", "verified"}, Leave(p, how),
           temp'[p].backup \in {temp[p].backup, None}
    PROVE  /\ RunInv(p)'
           /\ how = "failing" /\ Holds(p) /\ temp'[p].backup # None => Holds(p)'
<1>1. ~Running(p)' /\ outcome'[p] # "none" /\ outcome'[p] \in {"failing", "ended", "verified"}
  BY DEF Leave, Running, RunTypes
<1>2. outcome'[p] = "failing" => task'[p] = task[p] /\ task[p] \in Tasks
  BY DEF Leave, RunInv, OnScript, RunTypes, Running
<1>3. OnScript(p)'
  BY <1>1, <1>2 DEF OnScript
<1>4. SetAside(p)'
  BY <1>1, <1>2 DEF SetAside, RunInv, Replaces
<1>5. SeenSoFar(p)' /\ Recorded(p)' /\ Watched(p)' /\ Replaced(p)' /\ Checked(p)'
  BY <1>1 DEF SeenSoFar, Recorded, Watched, Replaced, Checked, Records, Replaces, Checks
<1>6. ASSUME how = "failing", Holds(p), temp'[p].backup # None PROVE Holds(p)'
  BY <1>6 DEF Holds, Leave, RunTypes, NoTemp
<1> QED BY <1>3, <1>4, <1>5, <1>6 DEF RunInv

\* The variables a script step assigns keep their types.
LEMMA LeaveTypes ==
    ASSUME RunTypes, NEW p \in Proc, NEW how \in {"failing", "ended", "verified"}, Leave(p, how)
    PROVE  /\ task' \in [Proc -> Tasks \cup {None}] /\ step' \in [Proc -> Nat]
           /\ outcome' \in [Proc -> {"none", "running", "failing", "ended", "verified", "killed"}]
           /\ mem' \in [Proc -> Memories]
<1>1. NoMemory \in Memories
  BY EmptySeq DEF NoMemory, Memories
<1> QED BY <1>1 DEF Leave, RunTypes

\* The run goes on to the next step of its script.
Advances(p, m) ==
    /\ step[p] # Len(Scripts[task[p]])
    /\ step' = [step EXCEPT ![p] = @ + 1]
    /\ mem' = [mem EXCEPT ![p] = m]
    /\ UNCHANGED <<task, outcome, kills>>

LEMMA GoesTypes ==
    ASSUME RunTypes, NEW p \in Proc, NEW m \in Memories, Advances(p, m)
    PROVE  /\ task' \in [Proc -> Tasks \cup {None}] /\ step' \in [Proc -> Nat]
           /\ outcome' \in [Proc -> {"none", "running", "failing", "ended", "verified", "killed"}]
           /\ mem' \in [Proc -> Memories]
BY DEF Advances, RunTypes

\* What that means for the run itself.
Went(p, m) ==
    /\ step'[p] = step[p] + 1 /\ mem'[p] = m /\ task'[p] = task[p] /\ Position(p)' = Position(p) + 1
    /\ Running(p)'
    /\ Records(p)' <=> Records(p)
    /\ Replaces(p)' <=> Replaces(p)
    /\ Checks(p)' <=> Checks(p)

LEMMA AdvancesWent ==
    ASSUME RunTypes, NEW p \in Proc, Running(p), NEW m, Advances(p, m) PROVE Went(p, m)
<1>1. step'[p] = step[p] + 1 /\ mem'[p] = m /\ task'[p] = task[p] /\ outcome'[p] = outcome[p]
  BY DEF Advances, RunTypes
<1>2. Position(p)' = Position(p) + 1
  BY <1>1 DEF Position, RunTypes
<1> QED BY <1>1, <1>2 DEF Went, Running, Records, Replaces, Checks, Checking

\* At a step other than an inventory, nothing has been seen and it stays so.
LEMMA AdvanceKeeps ==
    ASSUME RunTypes, NEW p \in Proc, RunInv(p), NEW s, s # "inventory", At(p, s),
           NEW m \in Memories, m.seen = mem[p].seen, Advances(p, m)
    PROVE  OnScript(p)' /\ SeenSoFar(p)'
<1>1. Running(p) /\ Went(p, m) /\ outcome'[p] = "running"
  BY AdvancesWent DEF At, Running, Went
<1>2. OnScript(p)'
  BY <1>1 DEF OnScript, RunInv, Running, Advances, RunTypes, Went
<1>3. mem[p].seen = <<>> /\ Len(mem[p].seen) < Files
  BY <1>1 DEF RunInv, SeenSoFar, At
<1>4. SeenSoFar(p)'
  BY <1>1, <1>3 DEF SeenSoFar, Went
<1> QED BY <1>2, <1>4

LEMMA NotBoth ==
    ASSUME RunTypes, NEW p \in Proc, Running(p), NEW m, Advances(p, m) PROVE ~Leave(p, "failing")
BY DEF Advances, Leave, RunTypes, Running

LEMMA GoesCases ==
    ASSUME NEW p \in Proc, NEW m, Goes(p, m)
    PROVE  \/ Advances(p, m)
           \/ /\ step[p] = Len(Scripts[task[p]])
              /\ Leave(p, IF Checking(p) THEN "verified" ELSE "ended")
BY DEF Goes, Advances

\* What a step of a run that only reads, or only fails, guarantees.
Local(p) ==
    /\ RunTypes' /\ RunInv(p)' /\ OthersSame(p)
    /\ Holds(p) => Holds(p)' /\ temp'[p].backup = temp[p].backup

\* A step that changes no more than its own directories, and then leaves or
\* goes on with m: the parts of the invariant that depend on what was read or
\* written remain to be shown.
LEMMA StepKeeps ==
    ASSUME RunTypes, NEW p \in Proc, RunInv(p), NEW s, s \notin {"inventory", "settle", "discard"}, At(p, s),
           temp' \in [Proc -> Temps], moved' \in [Proc -> BOOLEAN], temp'[p].backup = temp[p].backup,
           \A q \in Proc \ {p} : temp'[q] = temp[q] /\ moved'[q] = moved[q],
           NEW m \in Memories, m.seen = mem[p].seen,
           Leave(p, "failing") \/ Goes(p, m),
           Advances(p, m) /\ Went(p, m) => Recorded(p)' /\ Watched(p)' /\ Replaced(p)' /\ Checked(p)'
    PROVE  Local(p)
<1>1. Running(p)
  BY DEF At, Running
<1>2. Holds(p) => step[p] = 13 /\ Replaces(p)
  BY <1>1 DEF Holds, RunInv, SetAside, Running
<1>3. ~Holds(p)
  BY <1>2, ReplacesAt DEF RunInv, At
<1>4. ASSUME NEW how \in {"failing", "ended", "verified"}, Leave(p, how) PROVE Local(p)
  <2>1. RunTypes'
    BY <1>1, <1>4, LeaveTypes DEF RunTypes
  <2>2. RunInv(p)'
    BY <1>1, <1>4, LeaveKeeps
  <2>3. OthersSame(p)
    BY <1>1, <1>4 DEF OthersSame, Leave, RunTypes
  <2> QED BY <1>3, <2>1, <2>2, <2>3 DEF Local
<1>5. CASE Advances(p, m)
  <2>1. RunTypes'
    BY <1>1, <1>5, GoesTypes DEF RunTypes
  <2>2. OnScript(p)' /\ SeenSoFar(p)' /\ Running(p)'
    BY <1>1, <1>5, AdvanceKeeps, AdvancesWent DEF Went
  <2>3. SetAside(p)'
    <3>1. SUFFICES ASSUME temp[p].backup # None PROVE FALSE
      BY <1>1, <2>2 DEF SetAside, Running
    <3>2. Replaces(p) /\ step[p] \in 13..14
      BY <1>1, <3>1 DEF RunInv, SetAside
    <3>3. At(p, "settle") \/ At(p, "discard")
      BY <3>2, ReplacesAt DEF RunInv
    <3> QED BY <3>3 DEF At
  <2>4. OthersSame(p)
    BY <1>1, <1>5 DEF OthersSame, Advances, RunTypes
  <2> QED BY <1>1, <1>3, <1>5, <2>1, <2>2, <2>3, <2>4, AdvancesWent DEF Local, RunInv
<1> QED BY <1>4, <1>5, GoesCases

\* Most steps only read.
LEMMA ReadsKeep ==
    ASSUME RunTypes, NEW p \in Proc, RunInv(p), Reads, NEW s, s \notin {"inventory", "settle", "discard"}, At(p, s),
           NEW m \in Memories, m.seen = mem[p].seen,
           Leave(p, "failing") \/ Goes(p, m),
           Advances(p, m) /\ Went(p, m) => Recorded(p)' /\ Watched(p)' /\ Replaced(p)' /\ Checked(p)'
    PROVE  Local(p)
<1>1. temp' = temp /\ moved' = moved /\ temp \in [Proc -> Temps] /\ moved \in [Proc -> BOOLEAN]
  BY DEF Reads, RunTypes
<1> QED BY <1>1, StepKeeps

-----------------------------------------------------------------------------
(* Looking at the repository *)

LEMMA TreeTyped ==
    ASSUME RepositoryTypes, NEW c \in 1..Len(commits)
    PROVE  Tree(c) \in 1..Len(commits) /\ commits[Tree(c)] = commits[c]
<1> DEFINE T == {d \in 1..Len(commits) : commits[d] = commits[c]}
<1>1. DOMAIN commits = 1..Len(commits) /\ Len(commits) \in Nat
  BY DEF RepositoryTypes
<1>2. T \subseteq Nat /\ c \in T
  BY <1>1
<1> DEFINE R == OpToRel(<, Nat)
<1>3. \E d \in T : \A e \in T : ~ (<<e, d>> \in R)
  <2>1. IsWellFoundedOn(R, Nat)
    BY NatLessThanWellFounded
  <2> HIDE DEF R, T
  <2> QED BY <1>2, <2>1, WFMin, Zenon
<1>4. \A d, e \in Nat : <<e, d>> \in R <=> e < d
  BY DEF OpToRel
<1> HIDE DEF R
<1>5. \E e \in DOMAIN commits :
          /\ commits[e] = commits[c]
          /\ \A f \in DOMAIN commits : commits[f] = commits[c] => e <= f
  <2>1. PICK d \in T : \A e \in T : ~ (<<e, d>> \in R)
    BY <1>3
  <2>2. \A e \in T : ~ (e < d)
    <3> HIDE DEF T
    <3> QED BY <1>2, <1>4, <2>1
  <2>3. \A e \in T : d <= e
    BY <1>1, <2>1, <2>2
  <2> QED BY <1>1, <2>1, <2>3
<1> HIDE DEF T
<1> QED BY <1>1, <1>5 DEF Tree

LEMMA ReadHeadKeeps ==
    ASSUME TypeOK, NEW p \in Proc, RunInv(p), ReadHead(p) PROVE Local(p)
<1> DEFINE m == [mem[p] EXCEPT !.head = head]
<1>1. mem[p] \in Memories /\ head \in Nat /\ head \in 1..Len(commits)
  BY DEF TypeOK, RunTypes, RepositoryTypes
<1>2. /\ m \in Memories /\ m.head = head
      /\ m.seen = mem[p].seen /\ m.tree = mem[p].tree /\ m.files = mem[p].files /\ m.receipt = mem[p].receipt
      /\ m.manifest = mem[p].manifest
  BY <1>1 DEF Memories
<1>3. /\ At(p, "head") /\ Reads /\ Running(p)
      /\ \/ Leave(p, "failing")
         \/ Goes(p, m) /\ (Checking(p) \/ mem[p].head \in {None, head})
  BY DEF ReadHead, Require, At, Running
<1> HIDE DEF m
<1>4. UNCHANGED <<temp, moved, commits, head, work>>
  BY <1>3 DEF Reads, repository
<1>5. ASSUME Advances(p, m), Went(p, m) PROVE Recorded(p)' /\ Watched(p)'
  <2>1. SUFFICES ASSUME Records(p) PROVE Recorded(p)' /\ Watched(p)'
    BY <1>5 DEF Recorded, Watched, Went
  <2>2. step[p] \in {1, 9, 15}
    BY <1>3, <2>1, RecordsAt DEF RunInv
  <2>3. step[p] > 1 => mem[p].head = head
    <3>1. mem[p].head \in {None, head}
      BY <1>3, <1>5, <2>1, NotBoth DEF TypeOK, Records
    <3>2. step[p] > 1 => mem[p].head \in Nat
      BY <1>1, <2>1 DEF RunInv, Recorded, TypeOK, RepositoryTypes
    <3> QED BY <3>1, <3>2, NoneAssumption
  <2>4. step[p] > 1 => BuildManifest(p)' = BuildManifest(p)
    BY <1>2, <1>5, <2>3 DEF BuildManifest, Went
  <2>5. Recorded(p)'
    <3>1. CASE step[p] = 1
      BY <1>1, <1>2, <1>4, <1>5, <2>1, <3>1 DEF Recorded, Went
    <3>2. CASE step[p] = 9
      BY <1>1, <1>2, <1>4, <1>5, <2>1, <2>3, <3>2 DEF Recorded, Went, RunInv
    <3>3. CASE step[p] = 15
      BY <1>1, <1>2, <1>4, <1>5, <2>1, <2>3, <2>4, <3>3 DEF Recorded, Went, RunInv
    <3> QED BY <2>2, <3>1, <3>2, <3>3
  <2>6. Watched(p)'
    BY <1>2, <1>4, <1>5, <2>1, <2>2 DEF RunInv, Watched, Went
  <2> QED BY <2>5, <2>6
<1>6. ASSUME Went(p, m) PROVE Replaced(p)'
  BY <1>2, <1>3, <1>4, <1>6, ReplacesAt DEF RunInv, Replaced, Went
<1>7. ASSUME Went(p, m) PROVE Checked(p)'
  <2>1. SUFFICES ASSUME Checks(p) PROVE Checked(p)'
    BY <1>7 DEF Checked, Went
  <2>2. task[p].kind # "mcp" /\ Position(p) \in {0, 6}
    BY <1>3, <2>1, ChecksAt DEF RunInv
  <2>3. CASE Position(p) = 0
    BY <1>1, <1>2, <1>4, <1>7, <2>1, <2>2, <2>3 DEF RunInv, Checked, Compared, Inventoried, Went
  <2>4. CASE Position(p) = 6
    BY <1>1, <1>2, <1>4, <1>7, <2>1, <2>2, <2>4 DEF RunInv, Checked, Compared, Inventoried, Went
  <2> QED BY <2>2, <2>3, <2>4
<1> QED BY <1>2, <1>3, <1>5, <1>6, <1>7, ReadsKeep DEF TypeOK

LEMMA ReadTreeKeeps ==
    ASSUME TypeOK, NEW p \in Proc, RunInv(p), ReadTree(p) PROVE Local(p)
<1> DEFINE m == [mem[p] EXCEPT !.tree = Tree(head)]
<1>1. mem[p] \in Memories /\ Tree(head) \in Nat /\ Tree(head) # None
  BY TreeTyped, NoneAssumption DEF TypeOK, RunTypes, RepositoryTypes
<1>2. /\ m \in Memories /\ m.tree = Tree(head)
      /\ m.seen = mem[p].seen /\ m.head = mem[p].head /\ m.files = mem[p].files
      /\ m.receipt = mem[p].receipt /\ m.manifest = mem[p].manifest
  BY <1>1 DEF Memories
<1>3. /\ At(p, "tree") /\ Reads /\ Running(p)
      /\ \/ Leave(p, "failing")
         \/ Goes(p, m) /\ mem[p].tree \in {None, Tree(head)}
  BY DEF ReadTree, Require, At, Running
<1> HIDE DEF m
<1>4. UNCHANGED <<temp, moved, commits, head, work>> /\ Tree(head)' = Tree(head)
  BY <1>3 DEF Reads, repository, Tree
<1>5. ASSUME Advances(p, m), Went(p, m) PROVE Recorded(p)' /\ Watched(p)'
  <2>1. SUFFICES ASSUME Records(p) PROVE Recorded(p)' /\ Watched(p)'
    BY <1>5 DEF Recorded, Watched, Went
  <2>2. step[p] \in {2, 10, 16}
    BY <1>3, <2>1, RecordsAt DEF RunInv
  <2>3. step[p] > 2 => mem[p].tree = Tree(head)
    BY <1>3, <1>5, <2>1, NotBoth DEF TypeOK, Records, RunInv, Recorded
  <2>4. step[p] > 2 => BuildManifest(p)' = BuildManifest(p)
    BY <1>2, <1>5, <2>3 DEF BuildManifest, Went
  <2>5. Recorded(p)'
    <3>1. CASE step[p] = 2
      BY <1>1, <1>2, <1>4, <1>5, <2>1, <3>1 DEF Recorded, Went, RunInv
    <3>2. CASE step[p] = 10
      BY <1>1, <1>2, <1>4, <1>5, <2>1, <2>3, <3>2 DEF Recorded, Went, RunInv
    <3>3. CASE step[p] = 16
      BY <1>1, <1>2, <1>4, <1>5, <2>1, <2>3, <2>4, <3>3 DEF Recorded, Went, RunInv
    <3> QED BY <2>2, <3>1, <3>2, <3>3
  <2>6. Watched(p)'
    BY <1>2, <1>4, <1>5, <2>1, <2>2 DEF RunInv, Watched, Went
  <2> QED BY <2>5, <2>6
<1>6. ASSUME Went(p, m) PROVE Replaced(p)'
  BY <1>2, <1>3, <1>4, <1>6, ReplacesAt DEF RunInv, Replaced, Went
<1>7. ASSUME Went(p, m) PROVE Checked(p)'
  BY <1>3, <1>7, ChecksAt DEF RunInv, Checked, Went
<1> QED BY <1>2, <1>3, <1>5, <1>6, <1>7, ReadsKeep DEF TypeOK

\* A step that reads and remembers nothing.
LEMMA LooksKeep ==
    ASSUME TypeOK, NEW p \in Proc, RunInv(p), Reads, NEW s \in {"status", "sync", "object"}, At(p, s),
           Leave(p, "failing") \/ Goes(p, mem[p])
    PROVE  Local(p)
<1>1. mem[p] \in Memories /\ Running(p)
  BY DEF TypeOK, RunTypes, At, Running
<1>2. UNCHANGED <<temp, moved, commits, head, work>> /\ Tree(head)' = Tree(head)
  BY DEF Reads, repository, Tree
<1>3. ASSUME Advances(p, mem[p]), Went(p, mem[p]) PROVE Recorded(p)' /\ Watched(p)'
  <2>1. SUFFICES ASSUME Records(p) PROVE Recorded(p)' /\ Watched(p)'
    BY <1>3 DEF Recorded, Watched, Went
  <2>2. step[p] \in {3, 11, 18} /\ step[p] # 20
    BY <1>3, <2>1, RecordsAt DEF RunInv, Advances
  <2>3. BuildManifest(p)' = BuildManifest(p)
    BY <1>3 DEF BuildManifest, Went
  <2>4. Recorded(p)'
    <3>1. CASE step[p] = 3
      BY <1>2, <1>3, <2>1, <3>1 DEF Recorded, Went, RunInv
    <3>2. CASE step[p] = 11
      BY <1>2, <1>3, <2>1, <3>2 DEF Recorded, Went, RunInv
    <3>3. CASE step[p] = 18
      BY <1>2, <1>3, <2>1, <2>3, <3>3 DEF Recorded, Went, RunInv
    <3> QED BY <2>2, <3>1, <3>2, <3>3
  <2>5. Watched(p)'
    BY <1>2, <1>3, <2>1, <2>2 DEF RunInv, Watched, Went
  <2> QED BY <2>4, <2>5
<1>4. ASSUME Went(p, mem[p]) PROVE Replaced(p)'
  BY <1>2, <1>4, ReplacesAt DEF RunInv, Replaced, Went
<1>5. ASSUME Went(p, mem[p]) PROVE Checked(p)'
  <2>1. SUFFICES ASSUME Checks(p) PROVE Checked(p)'
    BY <1>5 DEF Checked, Went
  <2>2. Position(p) = 3 /\ task[p].kind # "mcp"
    BY <2>1, ChecksAt DEF RunInv
  <2> QED BY <1>2, <1>5, <2>1, <2>2 DEF RunInv, Checked, Compared, Inventoried, Went
<1> QED BY <1>1, <1>3, <1>4, <1>5, ReadsKeep DEF TypeOK

LEMMA CleanTreeKeeps ==
    ASSUME TypeOK, NEW p \in Proc, RunInv(p), CleanTree(p) PROVE Local(p)
BY LooksKeep DEF CleanTree, Require

LEMMA SyncKeeps ==
    ASSUME TypeOK, NEW p \in Proc, RunInv(p), Sync(p) PROVE Local(p)
BY LooksKeep DEF Sync

LEMMA VerifyObjectKeeps ==
    ASSUME TypeOK, NEW p \in Proc, RunInv(p), VerifyObject(p) PROVE Local(p)
BY LooksKeep DEF VerifyObject, Require

\* The steps of a check that remember something of the bundle.
LEMMA ChecksKeep ==
    ASSUME TypeOK, NEW p \in Proc, RunInv(p), Reads,
           NEW s \in {"readManifest", "readReceipt", "compare"}, At(p, s),
           NEW m \in Memories, m.seen = mem[p].seen, m.files = mem[p].files,
           Leave(p, "failing") \/ Goes(p, m),
           s = "compare" /\ ~Leave(p, "failing") =>
               m = mem[p] /\ m.receipt = m.manifest.hash /\ m.files = m.manifest.files
    PROVE  Local(p)
<1>1. Running(p) /\ UNCHANGED <<temp, moved, commits, head, work>>
  BY DEF At, Running, Reads, repository
<1>2. ASSUME Went(p, m) PROVE Recorded(p)' /\ Watched(p)' /\ Replaced(p)'
  <2>1. ~Records(p) /\ ~Replaces(p)
    BY RecordsAt, ReplacesAt DEF RunInv
  <2> QED BY <1>2, <2>1 DEF Recorded, Watched, Replaced, Went
<1>3. ASSUME Advances(p, m), Went(p, m) PROVE Checked(p)'
  <2>1. SUFFICES ASSUME Checks(p) PROVE Checked(p)'
    BY <1>3 DEF Checked, Went
  <2>2. ~Leave(p, "failing")
    BY <1>1, <1>3, NotBoth DEF TypeOK
  <2>3. CASE s = "compare"
    <3>1. IF task[p].kind = "mcp" THEN Position(p) = 4 ELSE Position(p) = 5
      BY <2>1, <2>3, ChecksAt DEF RunInv
    <3> QED BY <1>1, <1>3, <2>1, <2>2, <2>3, <3>1 DEF RunInv, Checked, Compared, Inventoried, Went
  <2>4. CASE s # "compare"
    <3>1. Position(p) \in {1, 2}
      BY <2>1, <2>4, ChecksAt DEF RunInv
    <3> QED BY <1>1, <1>3, <2>1, <3>1 DEF RunInv, Checked, Compared, Inventoried, Went
  <2> QED BY <2>3, <2>4
<1> QED BY <1>1, <1>2, <1>3, ReadsKeep DEF TypeOK

LEMMA ReadManifestKeeps ==
    ASSUME TypeOK, NEW p \in Proc, RunInv(p), ReadManifest(p) PROVE Local(p)
<1> DEFINE b == published[Kind(p)]
           m == [mem[p] EXCEPT !.manifest = b.manifest]
<1>1. At(p, "readManifest") /\ Reads /\ (Leave(p, "failing") \/ (b # None /\ Goes(p, m)))
  BY DEF ReadManifest, Require
<1>2. mem[p] \in Memories /\ b \in Published \cup {None}
  <2>1. task[p] \in Tasks
    BY <1>1 DEF RunInv, OnScript, At
  <2>2. Kind(p) \in Kinds
    BY <2>1 DEF Tasks, Kind, Kinds
  <2> QED BY <2>2 DEF TypeOK, RunTypes, RepositoryTypes
<1>3. b # None => m \in Memories /\ m.seen = mem[p].seen /\ m.files = mem[p].files
  BY <1>2 DEF Memories, Published, Bundles
<1> HIDE DEF m
<1>4. CASE b # None
  BY <1>1, <1>3, <1>4, ChecksKeep
<1>5. CASE b = None
  BY <1>1, <1>2, <1>5, ChecksKeep
<1> QED BY <1>4, <1>5

LEMMA ReadReceiptKeeps ==
    ASSUME TypeOK, NEW p \in Proc, RunInv(p), ReadReceipt(p) PROVE Local(p)
<1> DEFINE b == published[Kind(p)]
           m == [mem[p] EXCEPT !.receipt = b.receipt]
<1>1. At(p, "readReceipt") /\ Reads /\ (Leave(p, "failing") \/ (b # None /\ Goes(p, m)))
  BY DEF ReadReceipt, Require
<1>2. mem[p] \in Memories /\ b \in Published \cup {None}
  <2>1. task[p] \in Tasks
    BY <1>1 DEF RunInv, OnScript, At
  <2>2. Kind(p) \in Kinds
    BY <2>1 DEF Tasks, Kind, Kinds
  <2> QED BY <2>2 DEF TypeOK, RunTypes, RepositoryTypes
<1>3. b # None => m \in Memories /\ m.seen = mem[p].seen /\ m.files = mem[p].files
  BY <1>2 DEF Memories, Published, Bundles
<1> HIDE DEF m
<1>4. CASE b # None
  BY <1>1, <1>3, <1>4, ChecksKeep
<1>5. CASE b = None
  BY <1>1, <1>2, <1>5, ChecksKeep
<1> QED BY <1>4, <1>5

LEMMA CompareKeeps ==
    ASSUME TypeOK, NEW p \in Proc, RunInv(p), Compare(p) PROVE Local(p)
<1>1. mem[p] \in Memories
  BY DEF TypeOK, RunTypes
<1> QED BY <1>1, ChecksKeep DEF Compare, Require, ArtifactsMatch

LEMMA CaptureKeeps ==
    ASSUME TypeOK, NEW p \in Proc, RunInv(p), Capture(p) PROVE Local(p)
<1> DEFINE m == [mem[p] EXCEPT !.receipt = Captured(p)]
<1>1. mem[p] \in Memories /\ Captured(p) \in Contents \cup {None} /\ work \in Contents /\ work # None
  BY NoneAssumption DEF TypeOK, RunTypes, RepositoryTypes, Captured, CapturedInWorktree, Temps
<1>2. /\ m \in Memories /\ m.receipt = Captured(p)
      /\ m.seen = mem[p].seen /\ m.head = mem[p].head /\ m.files = mem[p].files
      /\ m.tree = mem[p].tree /\ m.manifest = mem[p].manifest
  BY <1>1 DEF Memories
<1>3. /\ At(p, "capture") /\ Reads /\ Running(p)
      /\ Leave(p, "failing") \/ (Goes(p, m) /\ ~FreshDiffers(p))
  BY DEF Capture, Require, At, Running
<1> HIDE DEF m
<1>4. UNCHANGED <<temp, moved, commits, head, work>>
  BY <1>3 DEF Reads, repository
<1>5. ASSUME Went(p, m) PROVE Recorded(p)' /\ Watched(p)'
  <2>1. SUFFICES ASSUME Records(p) PROVE Recorded(p)' /\ Watched(p)'
    BY <1>5 DEF Recorded, Watched, Went
  <2>2. step[p] = 6
    BY <1>3, <2>1, RecordsAt DEF RunInv
  <2>3. Captured(p) = temp[p].snapshot
    BY <2>1 DEF Captured, Records, Kind
  <2>4. Recorded(p)'
    BY <1>2, <1>4, <1>5, <2>1, <2>2, <2>3 DEF Recorded, RunInv, Went
  <2>5. Watched(p)'
    BY <1>2, <1>4, <1>5, <2>1, <2>2 DEF RunInv, Watched, Went
  <2> QED BY <2>4, <2>5
<1>6. ASSUME Went(p, m) PROVE Replaced(p)'
  <2>1. SUFFICES ASSUME Replaces(p) PROVE Replaced(p)'
    BY <1>6 DEF Replaced, Went
  <2>2. step[p] = 5 /\ m.receipt # None
    BY <1>1, <1>2, <1>3, <2>1, ReplacesAt DEF RunInv, Replaces, Captured, Kind, CapturedInWorktree
  <2> QED BY <1>6, <2>2 DEF Replaced, Went
<1>7. ASSUME Advances(p, m), Went(p, m) PROVE Checked(p)'
  <2>1. SUFFICES ASSUME Checks(p) PROVE Checked(p)'
    BY <1>7 DEF Checked, Went
  <2>2. ~FreshDiffers(p)
    BY <1>3, <1>7, NotBoth DEF TypeOK
  <2>3. m.receipt = mem[p].receipt
    BY <1>2, <2>1, <2>2 DEF FreshDiffers, Checks
  <2>4. task[p].what \in {"check", "fresh"}
    BY <2>1 DEF Checks, Checking
  <2>5. CASE task[p].kind = "mcp"
    <3>1. Position(p) = 5
      BY <1>3, <2>1, <2>5, ChecksAt DEF RunInv
    <3> QED BY <1>2, <1>4, <1>7, <2>1, <2>3, <2>5, <3>1 DEF RunInv, Checked, Compared, Inventoried, Went
  <2>6. CASE task[p].kind # "mcp"
    <3>1. Position(p) = 8 /\ Captured(p) = temp[p].snapshot
      BY <1>3, <2>1, <2>4, <2>6, ChecksAt DEF RunInv, Captured, Kind
    <3>2. mem'[p].receipt = mem[p].receipt /\ mem'[p].receipt = temp[p].snapshot /\ mem'[p].head = mem[p].head
          /\ mem'[p].files = mem[p].files /\ mem'[p].manifest = mem[p].manifest
      BY <1>2, <1>7, <2>3, <3>1 DEF Went
    <3>3. Position(p)' = 9 /\ task'[p] = task[p]
      BY <1>7, <3>1 DEF Went
    <3> QED BY <1>4, <2>1, <2>6, <3>1, <3>2, <3>3 DEF RunInv, Checked, Compared, Inventoried
  <2> QED BY <2>5, <2>6
<1> QED BY <1>2, <1>3, <1>5, <1>6, <1>7, ReadsKeep DEF TypeOK

\* One source file more, or the last one.
LEMMA InventoryKeeps ==
    ASSUME TypeOK, NEW p \in Proc, RunInv(p), Inventory(p) PROVE Local(p)
<1> DEFINE f == Len(mem[p].seen) + 1
           seen == Append(mem[p].seen, InHead(f))
           more == [mem[p] EXCEPT !.seen = seen]
           all == [mem[p] EXCEPT !.files = seen, !.seen = <<>>]
<1>1. Running(p) /\ At(p, "inventory") /\ Reads
  BY DEF Inventory, At, Running
<1>2. UNCHANGED <<temp, moved, commits, head, work>> /\ Tree(head)' = Tree(head)
  BY <1>1 DEF Reads, repository, Tree
<1>3. mem[p] \in Memories /\ mem[p].seen \in Seq(Version) /\ f \in Source
  <2>1. mem[p] \in Memories /\ mem[p].seen \in Seq(Version) /\ Len(mem[p].seen) \in Nat
    BY LenProperties DEF TypeOK, RunTypes, Memories
  <2> QED BY <1>1, <2>1, RepositoryAssumption DEF RunInv, SeenSoFar, Source
<1>4. commits[head].files \in Contents /\ InHead(f) \in Version
  <2>1. commits[head] \in CommitRecords
    BY ElementOfSeq DEF TypeOK, RepositoryTypes
  <2> QED BY <1>3, <2>1 DEF InHead, CommitRecords, Contents
<1>5. /\ seen \in Seq(Version) /\ Len(seen) = f /\ seen[f] = InHead(f)
      /\ \A i \in 1..Len(mem[p].seen) : seen[i] = mem[p].seen[i]
  BY <1>3, <1>4, AppendProperties
<1>6. ~Holds(p)
  <2>1. Holds(p) => step[p] = 13 /\ Replaces(p)
    BY <1>1 DEF Holds, RunInv, SetAside, Running
  <2> QED BY <1>1, <2>1, ReplacesAt DEF RunInv
<1>7. \/ Leave(p, "failing")
      \/ /\ f < Files /\ work[f] = InHead(f)
         /\ mem' = [mem EXCEPT ![p] = more] /\ UNCHANGED <<task, step, outcome, kills>>
      \/ f = Files /\ work[f] = InHead(f) /\ mem[p].files \in {None, seen} /\ Goes(p, all)
  <2>1. f <= Files /\ f \in Nat /\ Files \in Nat
    BY <1>3, RepositoryAssumption DEF Source
  <2>2. InWorktree(f) = work[f]
    BY DEF InWorktree
  <2> QED BY <2>1, <2>2 DEF Inventory, Require
<1>8. \A i \in 1..f : i \in 1..Len(mem[p].seen) \/ i = f
  BY <1>3 DEF Source
<1> HIDE DEF seen, f
<1>9. /\ more \in Memories /\ more.seen = seen
      /\ more.head = mem[p].head /\ more.tree = mem[p].tree /\ more.files = mem[p].files
      /\ more.manifest = mem[p].manifest /\ more.receipt = mem[p].receipt
  BY <1>3, <1>5 DEF Memories
<1> HIDE DEF more
<1>10. ASSUME NEW how \in {"failing", "ended", "verified"}, Leave(p, how) PROVE Local(p)
  <2>1. RunTypes' /\ RunInv(p)'
    BY <1>1, <1>2, <1>10, LeaveTypes, LeaveKeeps DEF TypeOK, RunTypes
  <2>2. OthersSame(p)
    BY <1>2, <1>10 DEF OthersSame, Leave, TypeOK, RunTypes
  <2> QED BY <1>6, <2>1, <2>2 DEF Local
<1>11. CASE /\ f < Files /\ work[f] = InHead(f)
            /\ mem' = [mem EXCEPT ![p] = more] /\ UNCHANGED <<task, step, outcome, kills>>
  <2>1. RunTypes' /\ mem'[p] = more
    BY <1>2, <1>9, <1>11 DEF TypeOK, RunTypes
  <2>2. OthersSame(p)
    BY <1>2, <1>11 DEF OthersSame, TypeOK, RunTypes
  <2>3. /\ Running(p)' /\ OnScript(p)'
        /\ task'[p] = task[p] /\ step'[p] = step[p] /\ temp'[p] = temp[p] /\ moved'[p] = moved[p]
        /\ Checking(p)' = Checking(p) /\ Position(p)' = Position(p)
    BY <1>1, <1>2, <1>11 DEF RunInv, OnScript, Running, Checking, Position
  <2>4. SeenSoFar(p)'
    <3>1. At(p, "inventory")' /\ Len(seen) < Files
      BY <1>1, <1>5, <1>11 DEF At
    <3>2. ASSUME ~moved[p], Checks(p) \/ step[p] = 17, NEW i \in 1..f
          PROVE seen[i] = commits[head].files[i] /\ seen[i] = work[i]
      BY <1>1, <1>5, <1>8, <1>11, <3>2 DEF RunInv, SeenSoFar, InHead
    <3>3. Checks(p)' <=> Checks(p)
      BY <1>1, <2>3 DEF Checks
    <3> QED BY <1>2, <1>5, <1>9, <2>1, <2>3, <3>1, <3>2, <3>3 DEF SeenSoFar
  <2>5. /\ Records(p)' <=> Records(p)
        /\ Replaces(p)' <=> Replaces(p)
        /\ Checks(p)' <=> Checks(p)
        /\ BuildManifest(p)' = BuildManifest(p)
    BY <1>1, <1>9, <2>1, <2>3 DEF Records, Replaces, Checks, Running, BuildManifest
  <2>6. /\ mem'[p].head = mem[p].head /\ mem'[p].tree = mem[p].tree /\ mem'[p].files = mem[p].files
        /\ mem'[p].manifest = mem[p].manifest /\ mem'[p].receipt = mem[p].receipt
    BY <1>9, <2>1
  <2>7. Recorded(p)' /\ Watched(p)'
    BY <1>2, <2>3, <2>5, <2>6 DEF RunInv, Recorded, Watched
  <2>8. Replaced(p)' /\ SetAside(p)'
    BY <1>1, <1>2, <2>3, <2>5, <2>6 DEF RunInv, Replaced, SetAside, Running
  <2>9. Checked(p)'
    BY <1>2, <2>3, <2>5, <2>6 DEF RunInv, Checked, Compared, Inventoried
  <2> QED BY <1>6, <2>1, <2>2, <2>3, <2>4, <2>5, <2>6, <2>7, <2>8, <2>9 DEF Local, RunInv
<1>12. CASE f = Files /\ work[f] = InHead(f) /\ mem[p].files \in {None, seen} /\ Goes(p, all)
  <2>1. CASE Advances(p, all)
    <3>1. seen \in Contents
      BY <1>5, <1>12, LenProperties DEF Contents, Source
    <3>2. /\ all \in Memories /\ all.seen = <<>> /\ all.files = seen
          /\ all.head = mem[p].head /\ all.tree = mem[p].tree
          /\ all.manifest = mem[p].manifest /\ all.receipt = mem[p].receipt
      BY <1>3, <3>1, EmptySeq DEF Memories
    <3> HIDE DEF all
    <3>3. Went(p, all)
      BY <1>1, <2>1, AdvancesWent DEF TypeOK
    <3>4. RunTypes' /\ OthersSame(p)
      BY <1>2, <2>1, <3>2, GoesTypes DEF TypeOK, RunTypes, OthersSame, Advances
    <3>5. OnScript(p)' /\ SeenSoFar(p)'
      <4>1. Running(p)' /\ outcome'[p] = "running" /\ task'[p] = task[p] /\ step'[p] = step[p] + 1
        BY <3>3 DEF Went, Running
      <4>2. OnScript(p)'
        BY <1>1, <2>1, <4>1 DEF OnScript, RunInv, Advances, TypeOK, RunTypes, Running
      <4>3. mem'[p].seen = <<>> /\ Len(mem'[p].seen) = 0 /\ 0 < Files
        BY <3>2, <3>3, RepositoryAssumption DEF Went
      <4>4. SeenSoFar(p)'
        BY <4>3 DEF SeenSoFar
      <4> QED BY <4>2, <4>4
    <3>6. mem[p].files # None => seen = mem[p].files
      BY <1>12
    <3>7. ~moved[p] /\ (Checks(p) \/ step[p] = 17) => seen = commits[head].files /\ seen = work
      <4>1. SUFFICES ASSUME ~moved[p], Checks(p) \/ step[p] = 17
                     PROVE  seen = commits[head].files /\ seen = work
        OBVIOUS
      <4>2. \A i \in 1..f : seen[i] = commits[head].files[i] /\ seen[i] = work[i]
        BY <1>1, <1>5, <1>8, <1>12, <4>1 DEF RunInv, SeenSoFar, InHead
      <4>3. work \in Contents
        BY DEF TypeOK, RepositoryTypes
      <4>4. \A i \in Source : seen[i] = commits[head].files[i] /\ seen[i] = work[i]
        BY <1>12, <4>2 DEF Source
      <4> HIDE DEF seen
      <4>5. seen = [i \in Source |-> seen[i]] /\ seen = commits[head].files
        BY <1>4, <3>1, <4>4 DEF Contents
      <4>6. seen = work
        BY <3>1, <4>3, <4>4 DEF Contents
      <4> QED BY <4>5, <4>6
    <3>8. Recorded(p)' /\ Watched(p)'
      <4>1. SUFFICES ASSUME Records(p) PROVE Recorded(p)' /\ Watched(p)'
        BY <3>3 DEF Recorded, Watched, Went
      <4>2. step[p] \in {4, 8, 17}
        BY <1>1, <4>1, RecordsAt DEF RunInv
      <4>3. seen # None
        BY <3>1, NoneAssumption
      <4>4. Recorded(p)'
        <5>1. CASE step[p] = 4
          BY <1>2, <3>2, <3>3, <4>1, <4>3, <5>1 DEF Recorded, Went, RunInv
        <5>2. CASE step[p] = 8
          BY <1>2, <3>2, <3>3, <4>1, <4>3, <5>2 DEF Recorded, Went, RunInv
        <5>3. CASE step[p] = 17
          <6>1. seen = mem[p].files
            BY <3>6, <4>1, <5>3 DEF RunInv, Recorded
          <6>2. BuildManifest(p)' = BuildManifest(p)
            BY <3>2, <3>3, <6>1 DEF BuildManifest, Went
          <6> QED BY <1>2, <3>2, <3>3, <4>1, <4>3, <5>3, <6>2 DEF Recorded, Went, RunInv
        <5> QED BY <4>2, <5>1, <5>2, <5>3
      <4>5. Watched(p)'
        <5>1. CASE step[p] \in {4, 8}
          BY <3>3, <5>1 DEF Watched, Went
        <5>2. CASE step[p] = 17
          BY <1>2, <3>2, <3>3, <3>7, <4>1, <5>2 DEF Watched, Went, RunInv
        <5> QED BY <4>2, <5>1, <5>2
      <4> QED BY <4>4, <4>5
    <3>10. Replaced(p)'
      BY <1>1, <1>2, <3>2, <3>3, ReplacesAt DEF RunInv, Replaced, Went
    <3>11. Checked(p)'
      <4>1. SUFFICES ASSUME Checks(p) PROVE Checked(p)'
        BY <3>3 DEF Checked, Went
      <4>2. IF task[p].kind = "mcp" THEN Position(p) = 3 ELSE Position(p) = 4
        BY <1>1, <2>1, <4>1, ChecksAt DEF RunInv, Advances
      <4>3. /\ mem'[p].files = seen /\ seen # None /\ task'[p] = task[p] /\ Position(p)' = Position(p) + 1
            /\ moved'[p] = moved[p] /\ commits' = commits /\ head' = head /\ work' = work
        BY <1>2, <3>1, <3>2, <3>3, NoneAssumption DEF Went
      <4>4. ~Compared(p)' /\ ~(Position(p)' > 6)
        BY <4>2, <4>3 DEF Compared
      <4> QED BY <3>7, <4>1, <4>2, <4>3, <4>4 DEF Checked
    <3>12. SetAside(p)'
      <4>1. temp[p].backup = None
        BY <1>1, ReplacesAt DEF RunInv, SetAside
      <4> QED BY <1>2, <4>1 DEF SetAside
    <3> QED BY <1>6, <3>4, <3>5, <3>8, <3>10, <3>11, <3>12 DEF Local, RunInv
  <2> QED BY <1>10, <1>12, <2>1, GoesCases
<1> QED BY <1>7, <1>10, <1>11, <1>12

-----------------------------------------------------------------------------
(* Its own directories *)

\* What Puts does to the types and to the other runs.
LEMMA PutsKeep ==
    ASSUME RunTypes, NEW p \in Proc, NEW d \in {"stage", "snapshot", "backup"}, NEW value, Puts(p, d, value),
           d = "stage" => value \in Bundles \cup {None},
           d = "snapshot" => value \in Contents \cup {None},
           d = "backup" => value = None
    PROVE  /\ temp' \in [Proc -> Temps] /\ temp'[p][d] = value
           /\ \A q \in Proc \ {p} : temp'[q] = temp[q]
           /\ \A e \in {"stage", "snapshot", "backup"} \ {d} : temp'[p][e] = temp[p][e]
           /\ UNCHANGED <<repository, commits, head, work, expected>>
<1>1. temp[p] \in Temps /\ temp' = [temp EXCEPT ![p][d] = value]
  BY DEF RunTypes, Puts
<1>2. temp' = [temp EXCEPT ![p] = [temp[p] EXCEPT ![d] = value]] /\ temp \in [Proc -> Temps]
  BY <1>1 DEF RunTypes
<1>3. [temp[p] EXCEPT ![d] = value] \in Temps
  BY <1>1 DEF Temps
<1> QED BY <1>1, <1>2, <1>3 DEF Puts, repository, Temps

LEMMA TakeSnapshotKeeps ==
    ASSUME TypeOK, NEW p \in Proc, RunInv(p), TakeSnapshot(p) PROVE Local(p)
<1> DEFINE package == PackageOf(mem[p].head)
<1>1. /\ At(p, "snapshot") /\ Running(p) /\ mem[p] \in Memories /\ moved' = moved
      /\ Leave(p, "failing") \/ (Goes(p, mem[p]) /\ package # None)
      /\ Puts(p, "snapshot", package)
  BY DEF TakeSnapshot, Require, At, Running, TypeOK, RunTypes
<1>2. /\ Records(p) => step[p] = 5
      /\ ~Replaces(p)
      /\ Checks(p) => task[p].kind # "mcp" /\ Position(p) = 7
      /\ Records(p) \/ Checks(p)
  BY <1>1, RecordsAt, ReplacesAt, ChecksAt DEF RunInv, Records, Replaces, Checks
<1>3. mem[p].head \in 1..Len(commits)
  BY <1>2 DEF RunInv, Recorded, Checked, TypeOK, RepositoryTypes
<1>4. commits[mem[p].head].files \in Contents
  <2>1. commits[mem[p].head] \in CommitRecords
    BY <1>3, ElementOfSeq DEF TypeOK, RepositoryTypes
  <2> QED BY <2>1 DEF CommitRecords
<1>5. package \in Contents \cup {None} /\ (package # None => package = commits[mem[p].head].files)
  BY <1>4 DEF PackageOf
<1>6. /\ temp' \in [Proc -> Temps] /\ temp'[p].snapshot = package
      /\ \A q \in Proc \ {p} : temp'[q] = temp[q]
      /\ temp'[p].stage = temp[p].stage /\ temp'[p].backup = temp[p].backup
      /\ UNCHANGED <<repository, commits, head, work, expected>>
  BY <1>1, <1>5, PutsKeep DEF TypeOK
<1> HIDE DEF package
<1>7. ASSUME Advances(p, mem[p]), Went(p, mem[p]) PROVE Recorded(p)' /\ Watched(p)'
  <2>1. SUFFICES ASSUME Records(p) PROVE Recorded(p)' /\ Watched(p)'
    BY <1>7 DEF Recorded, Watched, Went
  <2>2. package = commits[mem[p].head].files
    BY <1>1, <1>5, <1>7, NotBoth DEF TypeOK
  <2>3. Recorded(p)'
    BY <1>2, <1>6, <1>7, <2>1, <2>2 DEF Recorded, RunInv, Went
  <2>4. Watched(p)'
    BY <1>2, <1>7, <2>1 DEF Watched, Went
  <2> QED BY <2>3, <2>4
<1>8. ASSUME Went(p, mem[p]) PROVE Replaced(p)'
  BY <1>2, <1>8 DEF Replaced, Went
<1>9. ASSUME Advances(p, mem[p]), Went(p, mem[p]) PROVE Checked(p)'
  <2>1. SUFFICES ASSUME Checks(p) PROVE Checked(p)'
    BY <1>9 DEF Checked, Went
  <2>2. package = commits[mem[p].head].files
    BY <1>1, <1>5, <1>9, NotBoth DEF TypeOK
  <2> QED BY <1>1, <1>2, <1>3, <1>6, <1>9, <2>1, <2>2 DEF RunInv, Checked, Compared, Inventoried, Went
<1>10. moved' \in [Proc -> BOOLEAN] /\ \A q \in Proc \ {p} : moved'[q] = moved[q]
  BY <1>1 DEF TypeOK, RunTypes
<1> QED BY <1>1, <1>6, <1>7, <1>8, <1>9, <1>10, StepKeeps DEF TypeOK

LEMMA DropSnapshotKeeps ==
    ASSUME TypeOK, NEW p \in Proc, RunInv(p), DropSnapshot(p) PROVE Local(p)
<1>1. /\ At(p, "drop") /\ Running(p) /\ mem[p] \in Memories /\ moved' = moved
      /\ Goes(p, mem[p]) /\ Puts(p, "snapshot", None)
  BY DEF DropSnapshot, At, Running, TypeOK, RunTypes
<1>2. /\ temp' \in [Proc -> Temps]
      /\ \A q \in Proc \ {p} : temp'[q] = temp[q]
      /\ temp'[p].stage = temp[p].stage /\ temp'[p].backup = temp[p].backup
      /\ UNCHANGED <<repository, commits, head, work, expected>>
  BY <1>1, PutsKeep DEF TypeOK
<1>3. ASSUME Went(p, mem[p]) PROVE Recorded(p)' /\ Watched(p)'
  <2>1. SUFFICES ASSUME Records(p) PROVE Recorded(p)' /\ Watched(p)'
    BY <1>3 DEF Recorded, Watched, Went
  <2>2. step[p] = 7
    BY <1>1, <2>1, RecordsAt DEF RunInv
  <2>3. Recorded(p)'
    BY <1>2, <1>3, <2>1, <2>2 DEF Recorded, RunInv, Went
  <2>4. Watched(p)'
    BY <1>3, <2>2 DEF Watched, Went
  <2> QED BY <2>3, <2>4
<1>4. ASSUME Went(p, mem[p]) PROVE Replaced(p)'
  BY <1>1, <1>4, ReplacesAt DEF RunInv, Replaced, Went
<1>5. ASSUME Went(p, mem[p]) PROVE Checked(p)'
  <2>1. SUFFICES ASSUME Checks(p) PROVE Checked(p)'
    BY <1>5 DEF Checked, Went
  <2>2. task[p].kind # "mcp" /\ Position(p) = 9
    BY <1>1, <2>1, ChecksAt DEF RunInv
  <2> QED BY <1>1, <1>2, <1>5, <2>1, <2>2 DEF RunInv, Checked, Compared, Inventoried, Went
<1>6. moved' \in [Proc -> BOOLEAN] /\ \A q \in Proc \ {p} : moved'[q] = moved[q]
  BY <1>1 DEF TypeOK, RunTypes
<1> QED BY <1>1, <1>2, <1>3, <1>4, <1>5, <1>6, StepKeeps DEF TypeOK

LEMMA StageKeeps ==
    ASSUME TypeOK, NEW p \in Proc, RunInv(p), Stage(p) PROVE Local(p)
<1> DEFINE free == published[Kind(p)] = None \/ task[p].what = "replace"
<1>1. /\ At(p, "stage") /\ Running(p) /\ mem[p] \in Memories /\ moved' = moved
      /\ Leave(p, "failing") \/ (Goes(p, mem[p]) /\ free)
      /\ Puts(p, "stage", IF free THEN Empty ELSE None)
  BY DEF Stage, Require, At, Running, TypeOK, RunTypes
<1> HIDE DEF free
<1>2. Empty \in Bundles
  BY DEF Empty, Bundles
<1>3. /\ temp' \in [Proc -> Temps]
      /\ \A q \in Proc \ {p} : temp'[q] = temp[q]
      /\ free => temp'[p].stage \in Bundles
      /\ temp'[p].snapshot = temp[p].snapshot /\ temp'[p].backup = temp[p].backup
      /\ UNCHANGED <<repository, commits, head, work, expected>>
  BY <1>1, <1>2, PutsKeep DEF TypeOK
<1>4. ASSUME Advances(p, mem[p]), Went(p, mem[p]) PROVE Recorded(p)' /\ Watched(p)'
  <2>1. SUFFICES ASSUME Records(p) PROVE Recorded(p)' /\ Watched(p)'
    BY <1>4 DEF Recorded, Watched, Went
  <2>2. step[p] = 12 /\ free
    BY <1>1, <1>4, <2>1, RecordsAt, NotBoth DEF RunInv, TypeOK
  <2>3. Recorded(p)'
    BY <1>3, <1>4, <2>1, <2>2 DEF Recorded, RunInv, Went
  <2>4. Watched(p)'
    BY <1>4, <2>2 DEF Watched, Went
  <2> QED BY <2>3, <2>4
<1>5. ASSUME Advances(p, mem[p]), Went(p, mem[p]) PROVE Replaced(p)'
  <2>1. SUFFICES ASSUME Replaces(p) PROVE Replaced(p)'
    BY <1>5 DEF Replaced, Went
  <2>2. step[p] = 9 /\ free
    BY <1>1, <1>5, <2>1, ReplacesAt, NotBoth DEF RunInv, TypeOK
  <2> QED BY <1>3, <1>5, <2>1, <2>2 DEF RunInv, Replaced, Went
<1>6. ASSUME Went(p, mem[p]) PROVE Checked(p)'
  BY <1>1, <1>6, ChecksAt DEF RunInv, Checked, Went
<1>7. moved' \in [Proc -> BOOLEAN] /\ \A q \in Proc \ {p} : moved'[q] = moved[q]
  BY <1>1 DEF TypeOK, RunTypes
<1> QED BY <1>1, <1>3, <1>4, <1>5, <1>6, <1>7, StepKeeps DEF TypeOK

LEMMA WriteManifestKeeps ==
    ASSUME TypeOK, NEW p \in Proc, RunInv(p), WriteManifest(p) PROVE Local(p)
<1> DEFINE value == [temp[p].stage EXCEPT !.manifest = BuildManifest(p)]
<1>1. /\ At(p, "manifest") /\ Running(p) /\ mem[p] \in Memories /\ moved' = moved
      /\ Goes(p, mem[p]) /\ Puts(p, "stage", value)
  BY DEF WriteManifest, At, Running, TypeOK, RunTypes
<1>2. /\ Records(p) => step[p] = 13
      /\ Replaces(p) => step[p] = 10
      /\ ~Checks(p)
      /\ Records(p) \/ Replaces(p)
  BY <1>1, RecordsAt, ReplacesAt, ChecksAt DEF RunInv, Records, Replaces, Checks
<1>3. temp[p].stage \in Bundles
  BY <1>2 DEF RunInv, Recorded, Replaced
<1>4. BuildManifest(p) \in Manifests /\ BuildManifest(p) # None
  BY <1>1, NoneAssumption DEF BuildManifest, Manifests, Memories
<1>5. value \in Bundles /\ value.manifest = BuildManifest(p) /\ value.receipt = temp[p].stage.receipt
  BY <1>3, <1>4 DEF Bundles
<1> HIDE DEF value
<1>6. /\ temp' \in [Proc -> Temps] /\ temp'[p].stage = value
      /\ \A q \in Proc \ {p} : temp'[q] = temp[q]
      /\ temp'[p].snapshot = temp[p].snapshot /\ temp'[p].backup = temp[p].backup
      /\ UNCHANGED <<repository, commits, head, work, expected>>
  BY <1>1, <1>5, PutsKeep DEF TypeOK
<1>7. ASSUME Went(p, mem[p]) PROVE Recorded(p)' /\ Watched(p)'
  <2>1. SUFFICES ASSUME Records(p) PROVE Recorded(p)' /\ Watched(p)'
    BY <1>7 DEF Recorded, Watched, Went
  <2>2. BuildManifest(p)' = BuildManifest(p)
    BY <1>7 DEF BuildManifest, Went
  <2>3. Recorded(p)'
    BY <1>2, <1>5, <1>6, <1>7, <2>1, <2>2 DEF Recorded, RunInv, Went
  <2>4. Watched(p)'
    BY <1>2, <1>7, <2>1 DEF Watched, Went
  <2> QED BY <2>3, <2>4
<1>8. ASSUME Went(p, mem[p]) PROVE Replaced(p)'
  BY <1>2, <1>4, <1>5, <1>6, <1>8 DEF Replaced, RunInv, Went
<1>9. ASSUME Went(p, mem[p]) PROVE Checked(p)'
  BY <1>2, <1>9 DEF Checked, Went
<1>10. moved' \in [Proc -> BOOLEAN] /\ \A q \in Proc \ {p} : moved'[q] = moved[q]
  BY <1>1 DEF TypeOK, RunTypes
<1> QED BY <1>1, <1>6, <1>7, <1>8, <1>9, <1>10, StepKeeps DEF TypeOK

LEMMA WriteReceiptKeeps ==
    ASSUME TypeOK, NEW p \in Proc, RunInv(p), WriteReceipt(p) PROVE Local(p)
<1> DEFINE value == [temp[p].stage EXCEPT !.receipt = mem[p].receipt]
<1>1. /\ At(p, "receipt") /\ Running(p) /\ mem[p] \in Memories /\ moved' = [moved EXCEPT ![p] = FALSE]
      /\ Goes(p, mem[p]) /\ Puts(p, "stage", value)
  BY DEF WriteReceipt, At, Running, TypeOK, RunTypes
<1>2. /\ Records(p) => step[p] = 14
      /\ Replaces(p) => step[p] = 11
      /\ ~Checks(p)
      /\ Records(p) \/ Replaces(p)
  BY <1>1, RecordsAt, ReplacesAt, ChecksAt DEF RunInv, Records, Replaces, Checks
<1>3. temp[p].stage \in Bundles
  BY <1>2 DEF RunInv, Recorded, Replaced
<1>4. value \in Bundles /\ value.manifest = temp[p].stage.manifest /\ value.receipt = mem[p].receipt
  BY <1>1, <1>3 DEF Bundles, Memories
<1> HIDE DEF value
<1>5. /\ temp' \in [Proc -> Temps] /\ temp'[p].stage = value
      /\ \A q \in Proc \ {p} : temp'[q] = temp[q]
      /\ temp'[p].snapshot = temp[p].snapshot /\ temp'[p].backup = temp[p].backup
      /\ UNCHANGED <<repository, commits, head, work, expected>>
  BY <1>1, <1>4, PutsKeep DEF TypeOK
<1>6. ASSUME Went(p, mem[p]) PROVE Recorded(p)' /\ Watched(p)'
  <2>1. SUFFICES ASSUME Records(p) PROVE Recorded(p)' /\ Watched(p)'
    BY <1>6 DEF Recorded, Watched, Went
  <2>2. BuildManifest(p)' = BuildManifest(p)
    BY <1>6 DEF BuildManifest, Went
  <2>3. Recorded(p)'
    BY <1>2, <1>4, <1>5, <1>6, <2>1, <2>2 DEF Recorded, RunInv, Went
  <2>4. Watched(p)'
    BY <1>2, <1>6, <2>1 DEF Watched, Went
  <2> QED BY <2>3, <2>4
<1>7. ASSUME Went(p, mem[p]) PROVE Replaced(p)'
  BY <1>2, <1>4, <1>5, <1>7 DEF Replaced, RunInv, Went
<1>8. ASSUME Went(p, mem[p]) PROVE Checked(p)'
  BY <1>2, <1>8 DEF Checked, Went
<1>9. moved' \in [Proc -> BOOLEAN] /\ \A q \in Proc \ {p} : moved'[q] = moved[q]
  BY <1>1 DEF TypeOK, RunTypes
<1> QED BY <1>1, <1>5, <1>6, <1>7, <1>8, <1>9, StepKeeps DEF TypeOK

-----------------------------------------------------------------------------
(* Starting, failing, and the last step of the MCP recorder *)

LEMMA BreaksKeeps ==
    ASSUME TypeOK, NEW p \in Proc, RunInv(p), Breaks(p) PROVE Local(p)
<1>1. Running(p) /\ Leave(p, "failing") /\ UNCHANGED <<temp, moved>> /\ RunTypes
  BY DEF Breaks, Running, Reads, TypeOK
<1>2. RunTypes'
  BY <1>1, LeaveTypes DEF RunTypes
<1>3. RunInv(p)' /\ (Holds(p) => Holds(p)' /\ temp'[p].backup = temp[p].backup)
  BY <1>1, LeaveKeeps DEF Holds
<1>4. OthersSame(p)
  BY <1>1 DEF OthersSame, Leave, RunTypes
<1> QED BY <1>2, <1>3, <1>4 DEF Local

LEMMA DiscardBackupKeeps ==
    ASSUME TypeOK, NEW p \in Proc, RunInv(p), DiscardBackup(p) PROVE Local(p)
<1>1. Running(p) /\ At(p, "discard") /\ Goes(p, mem[p]) /\ Puts(p, "backup", None) /\ moved' = moved /\ RunTypes
  BY DEF DiscardBackup, At, Running, TypeOK
<1>2. Replaces(p) /\ step[p] = Len(Scripts[task[p]]) /\ step[p] # 13
  <2>1. ~Records(p)
    BY <1>1, RecordsAt DEF RunInv
  <2>2. ~Checks(p)
    BY <1>1, ChecksAt DEF RunInv
  <2>3. Replaces(p)
    BY <1>1, <2>1, <2>2 DEF Records, Replaces, Checks
  <2>4. Len(Scripts[task[p]]) = 14 /\ step[p] = 14
    BY <1>1, <2>3, ReplacesAt DEF RunInv
  <2> QED BY <2>3, <2>4
<1>3. Leave(p, "ended")
  BY <1>1, <1>2 DEF Goes, Replaces
<1>4. /\ temp' \in [Proc -> Temps] /\ temp'[p].backup = None
      /\ \A q \in Proc \ {p} : temp'[q] = temp[q]
  BY <1>1, PutsKeep
<1>5. RunTypes'
  BY <1>1, <1>3, <1>4, LeaveTypes DEF RunTypes
<1>6. RunInv(p)'
  BY <1>1, <1>3, <1>4, LeaveKeeps
<1>7. OthersSame(p)
  BY <1>1, <1>3, <1>4 DEF OthersSame, Leave, RunTypes
<1>8. ~Holds(p)
  BY <1>1, <1>2 DEF Holds, Running
<1> QED BY <1>5, <1>6, <1>7, <1>8 DEF Local

LEMMA StartKeeps ==
    ASSUME TypeOK, NEW p \in Proc, RunInv(p), NEW t \in Started, Start(p, t) PROVE Local(p)
<1>1. RunTypes' /\ OthersSame(p)
  <2>1. t \in Tasks /\ RunTypes
    BY StartedAssumption DEF TypeOK
  <2> QED BY <2>1 DEF Start, OthersSame, RunTypes
<1>2. /\ Running(p)' /\ outcome'[p] = "running" /\ step'[p] = 1 /\ task'[p] = t /\ t \in Tasks
      /\ temp'[p] = NoTemp /\ mem'[p] = NoMemory /\ moved'[p] = FALSE
  BY StartedAssumption DEF Start, TypeOK, RunTypes, Running, RunInv, OnScript
<1>3. Len(Scripts[t]) \in 1..20
  <2>1. /\ t.kind \in {"trace", "handoff", "mcp"} /\ t.what \in {"record", "replace", "check", "fresh"}
        /\ Scripts[t] = Script(t)
    BY <1>2 DEF Scripts, Tasks
  <2>2. CASE t.what \in {"record", "replace"}
    <3>1. CASE t.kind = "trace"
      <4>1. Scripts[t] = TraceRecord
        BY <2>1, <2>2, <3>1 DEF Script
      <4> QED BY <4>1 DEF TraceRecord, Clean, Verify
    <3>2. CASE t.kind = "handoff"
      <4>1. Scripts[t] = HandoffRecord
        BY <2>1, <2>2, <3>2 DEF Script
      <4> QED BY <4>1 DEF HandoffRecord, TraceRecord, Clean, Verify
    <3>3. CASE t.kind = "mcp"
      <4>1. Scripts[t] = McpRecord
        BY <2>1, <2>2, <3>3 DEF Script
      <4> QED BY <4>1 DEF McpRecord
    <3> QED BY <2>1, <3>1, <3>2, <3>3
  <2>3. CASE t.what = "check"
    <3>1. CASE t.kind = "trace"
      <4>1. Scripts[t] = TraceCheck(FALSE)
        BY <2>1, <2>3, <3>1 DEF Script
      <4> QED BY <4>1 DEF TraceCheck, Fresh
    <3>2. CASE t.kind = "handoff"
      <4>1. Scripts[t] = HandoffCheck(FALSE)
        BY <2>1, <2>3, <3>2 DEF Script
      <4> QED BY <4>1 DEF HandoffCheck, TraceCheck, Fresh
    <3>3. CASE t.kind = "mcp"
      <4>1. Scripts[t] = McpCheck(FALSE)
        BY <2>1, <2>3, <3>3 DEF Script
      <4> QED BY <4>1 DEF McpCheck
    <3> QED BY <2>1, <3>1, <3>2, <3>3
  <2>4. CASE t.what = "fresh"
    <3>1. CASE t.kind = "trace"
      <4>1. Scripts[t] = TraceCheck(TRUE)
        BY <2>1, <2>4, <3>1 DEF Script
      <4> QED BY <4>1 DEF TraceCheck, Fresh
    <3>2. CASE t.kind = "handoff"
      <4>1. Scripts[t] = HandoffCheck(TRUE)
        BY <2>1, <2>4, <3>2 DEF Script
      <4> QED BY <4>1 DEF HandoffCheck, TraceCheck, Fresh
    <3>3. CASE t.kind = "mcp"
      <4>1. Scripts[t] = McpCheck(TRUE)
        BY <2>1, <2>4, <3>3 DEF Script
      <4> QED BY <4>1 DEF McpCheck
    <3> QED BY <2>1, <3>1, <3>2, <3>3
  <2> QED BY <2>1, <2>2, <2>3, <2>4
<1>4. OnScript(p)'
  BY <1>2, <1>3, SMTT(60) DEF OnScript, Running
<1>5. mem'[p].seen = <<>> /\ 0 < Files
  BY <1>2, RepositoryAssumption DEF NoMemory
<1>6. SeenSoFar(p)'
  BY <1>5 DEF SeenSoFar
<1>7. Recorded(p)' /\ Watched(p)' /\ Replaced(p)'
  BY <1>2 DEF Recorded, Watched, Replaced
<1>8. Position(p)' \in {0, 1}
  BY <1>2 DEF Position
<1>9. Checked(p)'
  BY <1>2, <1>8 DEF Checked, Compared, Inventoried
<1>10. SetAside(p)'
  BY <1>2 DEF SetAside, NoTemp
<1>11. ~Holds(p)
  BY DEF Start, Holds, Running
<1> QED BY <1>1, <1>4, <1>6, <1>7, <1>9, <1>10, <1>11 DEF Local, RunInv

LEMMA KillKeeps ==
    ASSUME TypeOK, NEW p \in Proc, RunInv(p), Kill(p) PROVE Local(p)
<1>1. NoMemory \in Memories
  BY EmptySeq DEF NoMemory, Memories
<1>2. RunTypes' /\ OthersSame(p)
  BY <1>1 DEF Kill, Reads, OthersSame, TypeOK, RunTypes
<1>3. outcome'[p] = "killed" /\ ~Running(p)' /\ temp' = temp
  BY DEF Kill, Reads, TypeOK, RunTypes, Running
<1>4. RunInv(p)'
  BY <1>3 DEF RunInv, OnScript, SeenSoFar, Recorded, Watched, Replaced, Checked, SetAside, Records, Replaces, Checks
<1>5. Holds(p) => Holds(p)' /\ temp'[p].backup = temp[p].backup
  BY <1>3 DEF Holds
<1> QED BY <1>2, <1>4, <1>5 DEF Local

-----------------------------------------------------------------------------
(* Publishing, setting aside and restoring *)

\* A step of one run keeps the whole invariant if it keeps what is its own and
\* what is shared.
LEMMA OwnStep ==
    ASSUME Inv, NEW p \in Proc, RunTypes', RunInv(p)', OthersSame(p), UNCHANGED <<commits, head, work>>,
           RepositoryTypes', AllProduced', Kept'
    PROVE  Inv'
<1>1. ASSUME NEW q \in Proc \ {p} PROVE RunInv(q)'
  BY <1>1, OthersKeep DEF Inv
<1> QED BY <1>1 DEF Inv, TypeOK

LEMMA LocalStep ==
    ASSUME Inv, NEW p \in Proc, Local(p), UNCHANGED <<repository, expected>> PROVE Inv'
<1>1. UNCHANGED <<commits, head, work, published, expected>>
  BY DEF repository
<1>2. RepositoryTypes' /\ AllProduced'
  BY <1>1 DEF Inv, TypeOK, RepositoryTypes, AllProduced, Produced
<1>3. \A q \in Proc : Holds(q) => Holds(q)' /\ temp'[q].backup = temp[q].backup
  BY DEF Local, OthersSame, Holds, Running
<1>4. Kept'
  BY <1>1, <1>3 DEF Inv, Kept
<1> QED BY <1>1, <1>2, <1>4, OwnStep DEF Local

\* What is published now is typed as before, given that the bundle is.
LEMMA PublishesTypes ==
    ASSUME RepositoryTypes, NEW p \in Proc, Kind(p) \in Kinds, NEW bundle \in Published \cup {None},
           Publishes(p, bundle)
    PROVE  /\ RepositoryTypes' /\ UNCHANGED <<commits, head, work, moved>>
           /\ published'[Kind(p)] = bundle
           /\ expected'[Kind(p)] = IF bundle # None /\ (expected[Kind(p)] = None \/ Kind(p) = "mcp")
                                    THEN bundle ELSE expected[Kind(p)]
           /\ \A k \in Kinds \ {Kind(p)} : published'[k] = published[k] /\ expected'[k] = expected[k]
BY DEF Publishes, RepositoryTypes

LEMMA RenameKeeps ==
    ASSUME Inv, NEW p \in Proc, Rename(p) PROVE Inv'
<1>1. CASE Breaks(p)
  <2>1. Local(p) /\ UNCHANGED <<repository, expected>>
    BY <1>1, BreaksKeeps DEF Inv, Breaks, Reads
  <2> QED BY <2>1, LocalStep
<1>2. CASE ~Breaks(p)
  <2>1. /\ At(p, "rename") /\ Running(p) /\ published[Kind(p)] = None
        /\ Goes(p, mem[p]) /\ Publishes(p, temp[p].stage)
        /\ temp' = [temp EXCEPT ![p].stage = None]
    BY <1>2 DEF Rename, Breaks, At, Running
  <2>2. RunTypes /\ RepositoryTypes /\ RunInv(p) /\ OnScript(p) /\ mem[p] \in Memories
    BY DEF Inv, TypeOK, RunInv, RunTypes
  <2>3. Records(p) /\ step[p] = 19 /\ Len(Scripts[task[p]]) = 20
    <3>1. ~Replaces(p)
      BY <2>1, <2>2, ReplacesAt
    <3>2. ~Checks(p)
      BY <2>1, <2>2, ChecksAt
    <3>3. Records(p)
      BY <2>1, <3>1, <3>2 DEF Records, Replaces, Checks
    <3> QED BY <2>1, <2>2, <3>3, RecordsAt
  <2>4. /\ temp' \in [Proc -> Temps] /\ temp'[p].backup = temp[p].backup
        /\ \A q \in Proc \ {p} : temp'[q] = temp[q]
    <3>1. temp' = [temp EXCEPT ![p] = [temp[p] EXCEPT !.stage = None]] /\ temp[p] \in Temps
      BY <2>1, <2>2 DEF RunTypes
    <3>2. [temp[p] EXCEPT !.stage = None] \in Temps
      BY <3>1 DEF Temps
    <3> QED BY <2>2, <3>1, <3>2 DEF RunTypes, Temps
  <2>5. Kind(p) \in Kinds \ {"mcp"}
    BY <2>1, <2>2, <2>3 DEF Records, Kind, Kinds, OnScript, Tasks, Running
  <2>6. /\ temp[p].stage \in Bundles
        /\ temp[p].stage.manifest = BuildManifest(p)
        /\ temp[p].stage.receipt = mem[p].receipt
        /\ mem[p].head \in 1..Len(commits) /\ mem[p].receipt = commits[mem[p].head].files
    BY <2>2, <2>3 DEF RunInv, Recorded
  <2>7. temp[p].stage \in Published /\ Produced(temp[p].stage)
    <3>1. commits[mem[p].head] \in CommitRecords
      BY <2>2, <2>6, ElementOfSeq DEF RepositoryTypes
    <3>2. mem[p].receipt # None
      BY <2>6, <3>1, NoneAssumption DEF CommitRecords
    <3>3. BuildManifest(p) # None
      BY <2>2, NoneAssumption DEF BuildManifest, Manifests, Memories
    <3>4. Produced(temp[p].stage)
      BY <2>6 DEF Produced, BuildManifest
    <3> QED BY <2>6, <3>2, <3>3, <3>4 DEF Published, Whole
  <2>8. /\ RepositoryTypes' /\ UNCHANGED <<commits, head, work, moved>>
        /\ published'[Kind(p)] = temp[p].stage
        /\ expected'[Kind(p)] = temp[p].stage \/ expected[Kind(p)] # None
        /\ \A k \in Kinds \ {Kind(p)} : published'[k] = published[k] /\ expected'[k] = expected[k]
    BY <2>1, <2>2, <2>5, <2>7, NoneAssumption, PublishesTypes DEF Published
  <2>9. AllProduced'
    BY <2>5, <2>7, <2>8, ZenonT(60) DEF Inv, AllProduced, Produced
  <2>10. RunTypes' /\ RunInv(p)' /\ OthersSame(p) /\ (Holds(p) => Holds(p)' /\ temp'[p].backup = temp[p].backup)
    <3>1. ASSUME Went(p, mem[p]) PROVE Recorded(p)' /\ Watched(p)' /\ Replaced(p)' /\ Checked(p)'
      <4>1. Recorded(p)'
        BY <2>2, <2>3, <2>8, <3>1 DEF Recorded, RunInv, Went
      <4>2. Watched(p)'
        BY <2>3, <3>1 DEF Watched, Went
      <4>3. Replaced(p)' /\ Checked(p)'
        BY <2>3, <3>1 DEF Replaced, Checked, Went, Records, Replaces, Checks
      <4> QED BY <4>1, <4>2, <4>3
    <3>2. moved' \in [Proc -> BOOLEAN] /\ \A q \in Proc \ {p} : moved'[q] = moved[q]
      BY <2>2, <2>8 DEF RunTypes
    <3>3. Local(p)
      BY <2>1, <2>2, <2>4, <3>1, <3>2, StepKeeps
    <3> QED BY <3>3 DEF Local
  <2>11. Kept'
    <3>1. \A q \in Proc : Holds(q) => Holds(q)' /\ temp'[q].backup = temp[q].backup
      BY <2>10 DEF OthersSame, Holds, Running
    <3>2. expected[Kind(p)] = None
      BY <2>1, <2>5 DEF Inv, Kept
    <3> QED BY <2>5, <2>8, <3>1, <3>2 DEF Inv, Kept, Kinds
  <2> QED BY <2>8, <2>9, <2>10, <2>11, OwnStep
<1> QED BY <1>1, <1>2

\* The two renames of the MCP recorder.
LEMMA ReplacesAdvance ==
    ASSUME RunTypes, NEW p \in Proc, RunInv(p), Replaces(p), NEW s \in {"retire", "settle"}, At(p, s),
           Advances(p, mem[p]), s = "retire" => temp'[p].stage = temp[p].stage
    PROVE  RunInv(p)'
<1>1. mem[p] \in Memories /\ Running(p)
  BY DEF RunTypes, Replaces
<1>2. Went(p, mem[p])
  BY <1>1, AdvancesWent
<1>3. OnScript(p)' /\ SeenSoFar(p)'
  BY <1>1, AdvanceKeeps
<1>4. (s = "retire" /\ step[p] = 12) \/ (s = "settle" /\ step[p] = 13)
  BY ReplacesAt DEF RunInv
<1>5. Replaced(p)'
  BY <1>2, <1>4 DEF RunInv, Replaced, Went
<1>6. SetAside(p)'
  <2>1. Running(p)' /\ Replaces(p)' /\ step'[p] \in 13..14
    BY <1>2, <1>4 DEF Went
  <2> QED BY <2>1 DEF SetAside, Running
<1>7. Recorded(p)' /\ Watched(p)' /\ Checked(p)'
  BY <1>2 DEF Went, Recorded, Watched, Checked, Records, Replaces, Checks
<1> QED BY <1>3, <1>5, <1>6, <1>7 DEF RunInv

LEMMA RetireKeeps ==
    ASSUME Inv, NEW p \in Proc, Retire(p) PROVE Inv'
<1>1. /\ At(p, "retire") /\ Running(p) /\ Goes(p, mem[p])
      /\ RunTypes /\ RepositoryTypes /\ RunInv(p) /\ OnScript(p) /\ mem[p] \in Memories
  BY DEF Retire, At, Running, Inv, TypeOK, RunInv, RunTypes
<1>2. Replaces(p) /\ step[p] = 12 /\ Len(Scripts[task[p]]) = 14 /\ Kind(p) = "mcp"
  <2>1. ~Records(p)
    BY <1>1, RecordsAt
  <2>2. ~Checks(p)
    BY <1>1, ChecksAt
  <2>3. Replaces(p)
    BY <1>1, <2>1, <2>2 DEF Records, Replaces, Checks
  <2> QED BY <1>1, <2>3, ReplacesAt DEF Replaces, Kind
<1>3. Advances(p, mem[p]) /\ Went(p, mem[p])
  <2>1. step[p] # Len(Scripts[task[p]])
    BY <1>2
  <2>2. Advances(p, mem[p])
    BY <1>1, <2>1, GoesCases
  <2> QED BY <1>1, <2>2, AdvancesWent
<1>4. CASE Reads
  <2>1. RunInv(p)'
    BY <1>1, <1>2, <1>3, <1>4, ReplacesAdvance DEF Reads
  <2>2. RunTypes' /\ OthersSame(p) /\ ~Holds(p)
    BY <1>1, <1>2, <1>3, <1>4, GoesTypes DEF Reads, RunTypes, OthersSame, Advances, Holds, Running
  <2>3. Local(p)
    BY <2>1, <2>2 DEF Local
  <2> QED BY <1>4, <2>3, LocalStep DEF Reads
<1>5. CASE ~Reads
  <2>1. /\ published["mcp"] # None /\ Publishes(p, None)
        /\ temp' = [temp EXCEPT ![p].backup = published["mcp"]]
    BY <1>5 DEF Retire
  <2>2. published["mcp"] \in Published /\ "mcp" \in Kinds
    BY <1>1, <2>1 DEF RepositoryTypes, Kinds
  <2>3. /\ temp' \in [Proc -> Temps] /\ temp'[p].backup = published["mcp"] /\ temp'[p].stage = temp[p].stage
        /\ \A q \in Proc \ {p} : temp'[q] = temp[q]
    <3>1. temp' = [temp EXCEPT ![p] = [temp[p] EXCEPT !.backup = published["mcp"]]] /\ temp[p] \in Temps
      BY <1>1, <2>1 DEF RunTypes
    <3>2. [temp[p] EXCEPT !.backup = published["mcp"]] \in Temps
      BY <2>2, <3>1 DEF Temps
    <3> QED BY <1>1, <3>1, <3>2 DEF RunTypes, Temps
  <2>4. /\ RepositoryTypes' /\ UNCHANGED <<commits, head, work, moved>>
        /\ published'["mcp"] = None /\ expected'["mcp"] = expected["mcp"]
        /\ \A k \in Kinds \ {"mcp"} : published'[k] = published[k] /\ expected'[k] = expected[k]
    BY <1>1, <1>2, <2>1, <2>2, PublishesTypes
  <2>5. RunInv(p)'
    BY <1>1, <1>2, <1>3, <2>3, ReplacesAdvance
  <2>6. RunTypes' /\ OthersSame(p)
    BY <1>1, <1>3, <2>3, <2>4, GoesTypes DEF RunTypes, OthersSame, Advances
  <2>7. AllProduced'
    BY <2>4 DEF Inv, AllProduced, Produced
  <2>8. Holds(p)'
    BY <1>2, <1>3, <2>1, <2>3 DEF Holds, Went
  <2>9. Kept'
    <3>1. temp'[p].backup = expected'["mcp"]
      BY <2>1, <2>3, <2>4 DEF Inv, Kept
    <3> QED BY <2>4, <2>8, <3>1 DEF Inv, Kept
  <2> QED BY <2>4, <2>5, <2>6, <2>7, <2>9, OwnStep
<1> QED BY <1>4, <1>5

LEMMA SettleKeeps ==
    ASSUME Inv, NEW p \in Proc, Settle(p) PROVE Inv'
<1>1. CASE Breaks(p)
  <2>1. Local(p) /\ UNCHANGED <<repository, expected>>
    BY <1>1, BreaksKeeps DEF Inv, Breaks, Reads
  <2> QED BY <2>1, LocalStep
<1>2. CASE ~Breaks(p)
  <2>1. /\ At(p, "settle") /\ Running(p)
        /\ Goes(p, mem[p]) /\ Publishes(p, temp[p].stage)
        /\ temp' = [temp EXCEPT ![p].stage = None]
        /\ RunTypes /\ RepositoryTypes /\ RunInv(p) /\ OnScript(p) /\ mem[p] \in Memories
    BY <1>2 DEF Settle, Breaks, At, Running, Inv, TypeOK, RunInv, RunTypes
  <2>2. Replaces(p) /\ step[p] = 13 /\ Len(Scripts[task[p]]) = 14 /\ Kind(p) = "mcp" /\ "mcp" \in Kinds
    <3>1. ~Records(p)
      BY <2>1, RecordsAt
    <3>2. ~Checks(p)
      BY <2>1, ChecksAt
    <3>3. Replaces(p)
      BY <2>1, <3>1, <3>2 DEF Records, Replaces, Checks
    <3> QED BY <2>1, <3>3, ReplacesAt DEF Replaces, Kind, Kinds
  <2>3. Advances(p, mem[p]) /\ Went(p, mem[p])
    <3>1. step[p] # Len(Scripts[task[p]])
      BY <2>2
    <3>2. Advances(p, mem[p])
      BY <2>1, <3>1, GoesCases
    <3> QED BY <2>1, <3>2, AdvancesWent
  <2>4. temp[p].stage \in Published /\ temp[p].stage # None
    BY <2>1, <2>2, NoneAssumption DEF RunInv, Replaced, Published, Whole
  <2>5. temp' \in [Proc -> Temps] /\ \A q \in Proc \ {p} : temp'[q] = temp[q]
    <3>1. temp' = [temp EXCEPT ![p] = [temp[p] EXCEPT !.stage = None]] /\ temp[p] \in Temps
      BY <2>1 DEF RunTypes
    <3>2. [temp[p] EXCEPT !.stage = None] \in Temps
      BY <3>1 DEF Temps
    <3> QED BY <2>1, <3>1, <3>2 DEF RunTypes
  <2>6. /\ RepositoryTypes' /\ UNCHANGED <<commits, head, work, moved>>
        /\ published'["mcp"] = temp[p].stage /\ expected'["mcp"] = temp[p].stage
        /\ \A k \in Kinds \ {"mcp"} : published'[k] = published[k] /\ expected'[k] = expected[k]
    BY <2>1, <2>2, <2>4, PublishesTypes
  <2>7. RunInv(p)'
    BY <2>1, <2>2, <2>3, ReplacesAdvance
  <2>8. RunTypes' /\ OthersSame(p)
    BY <2>1, <2>3, <2>5, <2>6, GoesTypes DEF RunTypes, OthersSame, Advances
  <2>9. AllProduced'
    BY <2>6 DEF Inv, AllProduced, Produced
  <2>10. Kept'
    BY <2>4, <2>6 DEF Inv, Kept
  <2> QED BY <2>6, <2>7, <2>8, <2>9, <2>10, OwnStep
<1> QED BY <1>1, <1>2

LEMMA CleanUpKeeps ==
    ASSUME Inv, NEW p \in Proc, CleanUp(p) PROVE Inv'
<1> DEFINE restores == temp[p].backup # None /\ published[Kind(p)] = None
           left == [NoTemp EXCEPT !.backup = IF restores THEN None ELSE temp[p].backup]
<1>1. /\ outcome[p] = "failing" /\ Leave(p, "ended") /\ temp' = [temp EXCEPT ![p] = left]
      /\ restores => Publishes(p, temp[p].backup)
      /\ ~restores => UNCHANGED <<repository, moves, moved, expected>>
  BY DEF CleanUp
<1>2. /\ RunTypes /\ RepositoryTypes /\ RunInv(p) /\ OnScript(p)
      /\ temp[p] \in Temps /\ task[p] \in Tasks /\ Kind(p) \in Kinds
  <2>1. RunTypes /\ RepositoryTypes /\ RunInv(p) /\ OnScript(p) /\ temp[p] \in Temps
    BY DEF Inv, TypeOK, RunInv, RunTypes
  <2>2. task[p] \in Tasks
    BY <1>1, <2>1 DEF OnScript
  <2> QED BY <2>1, <2>2 DEF Kind, Kinds, Tasks
<1>3. temp[p].backup # None => Kind(p) = "mcp"
  BY <1>1, <1>2 DEF RunInv, SetAside, Kind
<1>4. left \in Temps
  BY <1>2 DEF Temps, NoTemp
<1>5. "mcp" \in Kinds
  BY DEF Kinds
<1>6. restores => Kind(p) = "mcp" /\ temp[p].backup \in Published /\ temp[p].backup # None
  BY <1>2, <1>3 DEF Temps
<1>7. ~restores => temp[p].backup = None \/ published["mcp"] # None
  BY <1>3
<1> HIDE DEF left, restores
<1>8. outcome'[p] = "ended" /\ ~Running(p)'
  BY <1>1, <1>2 DEF Leave, Running, RunTypes
<1>9. UNCHANGED <<commits, head, work, moved>>
  BY <1>1 DEF Publishes, repository
<1>10. RunTypes' /\ OthersSame(p)
  BY <1>1, <1>2, <1>4, <1>9, LeaveTypes DEF RunTypes, OthersSame, Leave
<1>11. RunInv(p)'
  BY <1>8 DEF RunInv, OnScript, SeenSoFar, Recorded, Watched, Replaced, Checked, SetAside, Records, Replaces, Checks
<1>12. \A q \in Proc \ {p} : Holds(q) => Holds(q)' /\ temp'[q].backup = temp[q].backup
  BY <1>10 DEF OthersSame, Holds, Running
<1>13. CASE restores
  <2>1. /\ RepositoryTypes'
        /\ published'["mcp"] # None /\ expected'["mcp"] = published'["mcp"]
        /\ \A k \in Kinds \ {"mcp"} : published'[k] = published[k] /\ expected'[k] = expected[k]
    BY <1>1, <1>2, <1>5, <1>6, <1>13, PublishesTypes
  <2>2. AllProduced'
    BY <1>9, <2>1 DEF Inv, AllProduced, Produced
  <2>3. Kept'
    BY <2>1 DEF Inv, Kept
  <2> QED BY <1>9, <1>10, <1>11, <2>1, <2>2, <2>3, OwnStep
<1>14. CASE ~restores
  <2>1. UNCHANGED <<commits, head, work, published, expected>>
    BY <1>1, <1>14 DEF repository
  <2>2. RepositoryTypes' /\ AllProduced'
    BY <2>1 DEF Inv, TypeOK, RepositoryTypes, AllProduced, Produced
  <2>3. Kept'
    BY <1>7, <1>12, <1>14, <2>1 DEF Inv, Kept, Holds
  <2> QED BY <1>10, <1>11, <2>1, <2>2, <2>3, OwnStep
<1> QED BY <1>13, <1>14

LEMMA RunKeeps ==
    ASSUME Inv, NEW p \in Proc, RunNext(p) PROVE Inv'
<1>1. TypeOK /\ RunInv(p)
  BY DEF Inv
<1>2. CASE \E t \in Started : Start(p, t)
  BY <1>1, <1>2, StartKeeps, LocalStep DEF Start
<1>3. CASE ReadHead(p) \/ ReadTree(p) \/ CleanTree(p) \/ Inventory(p)
  <2>1. Local(p)
    BY <1>1, <1>3, ReadHeadKeeps, ReadTreeKeeps, CleanTreeKeeps, InventoryKeeps
  <2>2. Reads
    BY <1>3 DEF ReadHead, ReadTree, CleanTree, Inventory
  <2> QED BY <2>1, <2>2, LocalStep DEF Reads
<1>4. CASE TakeSnapshot(p) \/ DropSnapshot(p) \/ Stage(p) \/ WriteManifest(p) \/ WriteReceipt(p) \/ DiscardBackup(p)
  <2>1. Local(p)
    BY <1>1, <1>4, TakeSnapshotKeeps, DropSnapshotKeeps, StageKeeps, WriteManifestKeeps, WriteReceiptKeeps,
       DiscardBackupKeeps
  <2>2. UNCHANGED <<repository, expected>>
    BY <1>4 DEF TakeSnapshot, DropSnapshot, Stage, WriteManifest, WriteReceipt, DiscardBackup, Puts
  <2> QED BY <2>1, <2>2, LocalStep
<1>5. CASE Capture(p) \/ ReadManifest(p) \/ ReadReceipt(p) \/ VerifyObject(p) \/ Compare(p)
  <2>1. Local(p)
    BY <1>1, <1>5, CaptureKeeps, ReadManifestKeeps, ReadReceiptKeeps, VerifyObjectKeeps, CompareKeeps
  <2>2. Reads
    BY <1>5 DEF Capture, ReadManifest, ReadReceipt, VerifyObject, Compare
  <2> QED BY <2>1, <2>2, LocalStep DEF Reads
<1>6. CASE Sync(p) \/ Breaks(p) \/ Kill(p)
  <2>1. Local(p)
    BY <1>1, <1>6, SyncKeeps, BreaksKeeps, KillKeeps
  <2>2. Reads
    BY <1>6 DEF Sync, Breaks, Kill
  <2> QED BY <2>1, <2>2, LocalStep DEF Reads
<1>7. CASE Rename(p) \/ Retire(p) \/ Settle(p) \/ CleanUp(p)
  BY <1>7, RenameKeeps, RetireKeeps, SettleKeeps, CleanUpKeeps
<1> QED BY <1>2, <1>3, <1>4, <1>5, <1>6, <1>7 DEF RunNext

-----------------------------------------------------------------------------
(* The developer *)

\* He only adds commits, and publishes nothing that did not come from one.
Extends ==
    /\ commits' \in Seq(CommitRecords) /\ Len(commits') >= Len(commits)
    /\ \A c \in 1..Len(commits) : commits'[c] = commits[c]
    /\ head' \in 1..Len(commits') /\ work' \in Contents
    /\ published' \in [Kinds -> Published \cup {None}]
    /\ temp' = temp
    /\ AllProduced'

\* Where he adds no commit, what he publishes has to be looked at.
LEMMA SameCommits ==
    ASSUME RepositoryTypes, AllProduced, commits' = commits, head' \in 1..Len(commits), work' \in Contents,
           published' \in [Kinds -> Published \cup {None}], temp' = temp,
           \A k \in Kinds \ {"mcp"} : Produced(published'[k])
    PROVE  Extends
<1>1. Len(commits) \in Nat
  BY DEF RepositoryTypes
<1>2. AllProduced'
  BY DEF AllProduced, Produced
<1> QED BY <1>1, <1>2 DEF Extends, RepositoryTypes

LEMMA EditExtends ==
    ASSUME RepositoryTypes, AllProduced, NEW f \in Source, Edit(f) PROVE Extends
<1>1. work' = [work EXCEPT ![f] = 3 - @] /\ UNCHANGED <<commits, head, published, temp>>
  BY DEF Edit
<1>2. 3 - work[f] \in Version
  BY DEF RepositoryTypes, Contents, Version
<1>3. work' \in Contents
  BY <1>1, <1>2 DEF RepositoryTypes, Contents
<1>4. \A k \in Kinds \ {"mcp"} : Produced(published'[k])
  BY <1>1 DEF AllProduced
<1> QED BY <1>1, <1>3, <1>4, SameCommits DEF RepositoryTypes

LEMMA CheckoutExtends ==
    ASSUME RepositoryTypes, AllProduced, NEW c \in DOMAIN commits, Checkout(c) PROVE Extends
<1>1. /\ head' = c /\ work' = commits[c].files
      /\ published' = [k \in Kinds |-> IF published[k] = commits[head].bundles[k]
                                       THEN commits[c].bundles[k] ELSE published[k]]
      /\ UNCHANGED <<commits, temp>>
  BY DEF Checkout
<1>2. c \in 1..Len(commits) /\ commits[c] \in CommitRecords
  BY ElementOfSeq DEF RepositoryTypes
<1>3. commits[c].files \in Contents /\ commits[c].bundles \in [Kinds -> Published \cup {None}]
  BY <1>2 DEF CommitRecords
<1>4. published' \in [Kinds -> Published \cup {None}]
  BY <1>1, <1>3 DEF RepositoryTypes
<1>5. \A k \in Kinds \ {"mcp"} : Produced(published'[k])
  BY <1>1, <1>2 DEF AllProduced
<1> QED BY <1>1, <1>2, <1>3, <1>4, <1>5, SameCommits

LEMMA PruneExtends ==
    ASSUME RepositoryTypes, AllProduced, NEW c \in DOMAIN commits, Prune(c) PROVE Extends
<1>1. UNCHANGED <<commits, head, work, published, temp>>
  BY DEF Prune
<1>2. \A k \in Kinds \ {"mcp"} : Produced(published'[k])
  BY <1>1 DEF AllProduced
<1> QED BY <1>1, <1>2, SameCommits DEF RepositoryTypes

LEMMA DiscardExtends ==
    ASSUME RepositoryTypes, AllProduced, NEW k \in Kinds, Discard(k) PROVE Extends
<1>1. published' = [published EXCEPT ![k] = None] /\ UNCHANGED <<commits, head, work, temp>>
  BY DEF Discard
<1>2. \A l \in Kinds \ {"mcp"} : Produced(published'[l])
  BY <1>1 DEF AllProduced, RepositoryTypes, Produced
<1> QED BY <1>1, <1>2, SameCommits DEF RepositoryTypes

LEMMA HandEditExtends ==
    ASSUME RepositoryTypes, AllProduced, NEW k \in Kinds, HandEdit(k) PROVE Extends
<1> DEFINE edited == [f \in Source |-> 3 - published[k].receipt[f]]
           bundle == [published[k] EXCEPT !.receipt = edited]
<1>1. published[k] # None /\ UNCHANGED <<commits, head, work, temp>>
      /\ published' = [published EXCEPT ![k].receipt = [f \in Source |-> 3 - @[f]]]
  BY DEF HandEdit
<1>2. published[k] \in Published /\ published[k] \in Bundles /\ published[k].receipt \in Contents
  BY <1>1 DEF RepositoryTypes, Published, Whole, Bundles
<1>3. published' = [published EXCEPT ![k] = bundle] /\ published \in [Kinds -> Published \cup {None}]
  BY <1>1 DEF RepositoryTypes
<1>4. edited \in Contents
  BY <1>2 DEF Contents, Version
<1>5. bundle \in Bundles /\ bundle.receipt = edited /\ bundle.manifest = published[k].manifest
  <2> HIDE DEF edited
  <2> QED BY <1>2, <1>4 DEF Bundles
<1>6. bundle \in Published
  BY <1>2, <1>4, <1>5, NoneAssumption DEF Published, Whole
<1>7. Produced(published[k]) => Produced(bundle)
  BY <1>1, <1>5 DEF Produced
<1> HIDE DEF edited, bundle
<1>8. published' \in [Kinds -> Published \cup {None}]
  BY <1>3, <1>6
<1>9. \A l \in Kinds \ {"mcp"} : Produced(published'[l])
  BY <1>3, <1>7 DEF AllProduced
<1> QED BY <1>1, <1>8, <1>9, SameCommits DEF RepositoryTypes

LEMMA CommitExtends ==
    ASSUME RepositoryTypes, AllProduced, Commit PROVE Extends
<1> DEFINE new == [files |-> work, bundles |-> published]
<1>1. /\ commits' = Append(commits, new) /\ head' = Len(commits')
      /\ UNCHANGED <<work, published, temp>>
  BY DEF Commit
<1>2. new \in CommitRecords /\ new.bundles = published
  BY DEF CommitRecords, RepositoryTypes
<1> HIDE DEF new
<1>3. /\ commits' \in Seq(CommitRecords) /\ Len(commits') = Len(commits) + 1 /\ Len(commits) \in Nat
      /\ \A c \in 1..Len(commits) : commits'[c] = commits[c]
      /\ commits'[Len(commits) + 1] = new
  BY <1>1, <1>2, AppendProperties DEF RepositoryTypes
<1>4. ASSUME NEW b, Produced(b) PROVE Produced(b)'
  BY <1>3, <1>4 DEF Produced
<1>5. AllProduced'
  <2>1. SUFFICES ASSUME NEW k \in Kinds \ {"mcp"}
                 PROVE  /\ Produced(published[k])'
                        /\ \A c \in 1..Len(commits') : Produced(commits[c].bundles[k])'
    BY DEF AllProduced
  <2>2. Produced(published[k])'
    BY <1>1, <1>3 DEF AllProduced, Produced
  <2>3. ASSUME NEW c \in 1..Len(commits') PROVE Produced(commits[c].bundles[k])'
    <3>1. CASE c \in 1..Len(commits)
      BY <1>3, <3>1 DEF AllProduced, Produced
    <3>2. CASE c = Len(commits) + 1
      BY <1>1, <1>2, <1>3, <2>2, <3>2 DEF Produced
    <3> QED BY <1>3, <3>1, <3>2
  <2> QED BY <2>2, <2>3
<1> QED BY <1>1, <1>3, <1>5 DEF Extends, RepositoryTypes

LEMMA DeveloperExtends ==
    ASSUME RepositoryTypes, AllProduced, Developer PROVE Extends
BY CommitExtends, EditExtends, CheckoutExtends, PruneExtends, DiscardExtends, HandEditExtends DEF Developer

\* What a run has found out stays true of the commits there were, and where
\* it depends on HEAD or on the worktree the mark is set.
LEMMA DeveloperLeavesRuns ==
    ASSUME RunTypes, Len(commits) \in Nat, Extends, UNCHANGED run,
           moved' = [p \in Proc |-> outcome[p] = "running" /\ Watches(p)],
           NEW p \in Proc, RunInv(p)
    PROVE  RunInv(p)'
<1>1. /\ task' = task /\ step' = step /\ outcome' = outcome /\ mem' = mem /\ temp' = temp
      /\ moved'[p] = (Running(p) /\ Watches(p))
      /\ mem[p].head \in 1..Len(commits) =>
            mem[p].head \in 1..Len(commits') /\ commits'[mem[p].head] = commits[mem[p].head]
  BY DEF run, Running, Extends
<1>2. /\ Running(p)' <=> Running(p)
      /\ Records(p)' <=> Records(p)
      /\ Replaces(p)' <=> Replaces(p)
      /\ Checks(p)' <=> Checks(p)
      /\ BuildManifest(p)' = BuildManifest(p) /\ Position(p)' = Position(p)
  BY <1>1 DEF Running, Records, Replaces, Checks, Checking, BuildManifest, Position
<1>3. Checks(p) => moved'[p]
  BY <1>1 DEF Checks, Watches
<1>4. Records(p) /\ step[p] \in 16..19 => moved'[p]
  <2>1. SUFFICES ASSUME Records(p), step[p] \in 16..19 PROVE moved'[p]
    OBVIOUS
  <2>2. /\ temp[p].stage \in Bundles /\ temp[p].stage.receipt = mem[p].receipt
        /\ mem[p].receipt = commits[mem[p].head].files /\ mem[p].head \in 1..Len(commits)
    BY <2>1 DEF RunInv, Recorded
  <2>3. mem[p].receipt # None
    <3>1. commits'[mem[p].head] \in CommitRecords
      BY <1>1, <2>2, ElementOfSeq DEF Extends
    <3> QED BY <1>1, <2>2, <3>1, NoneAssumption DEF CommitRecords
  <2> QED BY <1>1, <2>1, <2>2, <2>3, NoneAssumption DEF Watches, Records
<1>5. OnScript(p)' /\ SetAside(p)'
  BY <1>1, <1>2 DEF RunInv, OnScript, SetAside, Running
<1>6. SeenSoFar(p)'
  <2>1. At(p, "inventory")' <=> At(p, "inventory")
    BY <1>1 DEF At
  <2>2. step[p] = 17 /\ Running(p) => Records(p) /\ step[p] \in 16..19
    <3>1. SUFFICES ASSUME step[p] = 17, Running(p) PROVE Records(p)
      OBVIOUS
    <3>2. ~Replaces(p)
      BY <3>1, ReplacesAt, SMTT(60) DEF RunInv
    <3>3. ~Checks(p)
      <4>1. SUFFICES ASSUME Checks(p) PROVE FALSE
        OBVIOUS
      <4>2. Position(p) \in 0..CheckLength(task[p]) /\ Position(p) \in {16, 17}
        BY <3>1, <4>1, ChecksAt DEF RunInv, Position
      <4>3. CheckLength(task[p]) \in {4, 5, 6, 10}
        BY <4>1 DEF CheckLength, Checks, Checking
      <4> QED BY <4>2, <4>3
    <3> QED BY <3>1, <3>2, <3>3 DEF Records, Replaces, Checks
  <2> QED BY <1>1, <1>2, <1>3, <1>4, <2>1, <2>2 DEF RunInv, SeenSoFar
<1>7. Recorded(p)'
  <2>1. SUFFICES ASSUME Records(p) PROVE Recorded(p)'
    BY <1>2 DEF Recorded
  <2>2. step[p] \in Nat /\ Recorded(p) /\ Records(p)'
    BY <1>2, <2>1 DEF RunTypes, RunInv
  <2>3. CASE step[p] > 1
    BY <1>1, <1>2, <2>1, <2>2, <2>3 DEF Recorded
  <2>4. CASE step[p] \in {0, 1}
    BY <1>1, <2>2, <2>4 DEF Recorded
  <2> QED BY <2>2, <2>3, <2>4
<1>8. Watched(p)'
  <2>1. Records(p) => step[p] \in Nat
    BY DEF RunTypes
  <2> QED BY <1>1, <1>2, <1>4, <2>1 DEF Watched
<1>9. Replaced(p)'
  BY <1>1, <1>2 DEF RunInv, Replaced
<1>10. Checked(p)'
  BY <1>1, <1>2, <1>3 DEF RunInv, Checked, Compared, Inventoried
<1> QED BY <1>5, <1>6, <1>7, <1>8, <1>9, <1>10 DEF RunInv

LEMMA DeveloperKeeps ==
    ASSUME Inv, DeveloperNext PROVE Inv'
<1>1. /\ Developer /\ UNCHANGED run
      /\ expected' = [k \in Kinds |-> IF published'[k] # published[k] THEN published'[k] ELSE expected[k]]
      /\ moved' = [p \in Proc |-> outcome[p] = "running" /\ Watches(p)]
  BY DEF DeveloperNext
<1>2. RepositoryTypes /\ RunTypes /\ AllProduced
  BY DEF Inv, TypeOK
<1>3. Extends
  BY <1>1, <1>2, DeveloperExtends
<1>4. expected' \in [Kinds -> Published \cup {None}]
  BY <1>1, <1>2, <1>3 DEF Extends, RepositoryTypes
<1>5. RepositoryTypes' /\ AllProduced'
  BY <1>3, <1>4 DEF Extends, RepositoryTypes
<1>6. RunTypes'
  <2>1. moved' \in [Proc -> BOOLEAN]
    BY <1>1
  <2> QED BY <1>1, <1>2, <1>3, <2>1 DEF RunTypes, run, Extends
<1>7. ASSUME NEW p \in Proc PROVE RunInv(p)'
  <2>1. RunInv(p) /\ Len(commits) \in Nat
    BY <1>2 DEF Inv, RepositoryTypes
  <2> QED BY <1>1, <1>2, <1>3, <2>1, DeveloperLeavesRuns
<1>8. \A p \in Proc : (Holds(p)' <=> Holds(p)) /\ temp'[p].backup = temp[p].backup
  BY <1>1, <1>3 DEF Holds, Running, run, Extends
<1>9. Kept'
  <2>1. \A k \in Kinds : \/ published'[k] = published[k] /\ expected'[k] = expected[k]
                         \/ expected'[k] = published'[k]
    BY <1>1
  <2>2. "mcp" \in Kinds
    BY DEF Kinds
  <2> QED BY <1>8, <2>1, <2>2 DEF Inv, Kept
<1> QED BY <1>5, <1>6, <1>7, <1>9 DEF Inv, TypeOK

-----------------------------------------------------------------------------
(* The theorems *)

LEMMA InitKeeps == Init => Inv
<1> SUFFICES ASSUME Init PROVE Inv
  OBVIOUS
<1> DEFINE files2 == [f \in Source |-> 2]
           c1 == [files |-> First, bundles |-> [k \in Kinds |-> None]]
           c2 == [files |-> First, bundles |-> Adopted]
           c3 == [files |-> files2, bundles |-> Adopted]
<1>1. /\ commits = <<c1, c2, c3>> /\ head = 2
      /\ work = commits[head].files /\ published = commits[head].bundles /\ expected = published
      /\ temp = [p \in Proc |-> NoTemp]
  BY DEF Init, RepositoryInit
<1>2. First \in Contents /\ files2 \in Contents /\ First # None
  BY NoneAssumption DEF First, Contents, Version
<1>3. /\ Bundle(1, First) \in Published
      /\ Bundle(1, First).manifest.commit = 1 /\ Bundle(1, First).manifest.hash = First
  <2>1. Bundle(1, First).manifest \in Manifests /\ Bundle(1, First).receipt = First
    BY <1>2 DEF Bundle, Manifests
  <2>2. Bundle(1, First).manifest # None
    BY <2>1, NoneAssumption
  <2>3. Bundle(1, First) \in Bundles
    BY <1>2, <2>1 DEF Bundle, Bundles
  <2> QED BY <1>2, <2>1, <2>2, <2>3 DEF Published, Whole, Bundle
<1> HIDE DEF files2
<1>4. /\ Adopted \in [Kinds -> Published \cup {None}]
      /\ \A k \in Kinds : Adopted[k] \in {None, Bundle(1, First)}
  BY <1>3 DEF Adopted
<1>5. c1 \in CommitRecords /\ c2 \in CommitRecords /\ c3 \in CommitRecords
  BY <1>2, <1>4 DEF CommitRecords
<1>6. /\ commits \in Seq(CommitRecords) /\ Len(commits) = 3
      /\ commits[1] = c1 /\ commits[2] = c2 /\ commits[3] = c3
  BY <1>1, <1>5
<1>7. c1.files = First /\ c2.files = First /\ c2.bundles = Adopted /\ c3.bundles = Adopted
      /\ \A k \in Kinds : c1.bundles[k] = None
  OBVIOUS
<1> HIDE DEF c1, c2, c3
<1>8. RepositoryTypes
  BY <1>1, <1>2, <1>4, <1>6, <1>7 DEF RepositoryTypes
<1>9. RunTypes
  <2>1. NoTemp \in Temps /\ NoMemory \in Memories
    BY EmptySeq DEF NoTemp, Temps, NoMemory, Memories
  <2> QED BY <1>1, <2>1 DEF Init, RunTypes
<1>10. AllProduced
  <2>1. Produced(Bundle(1, First)) /\ Produced(None)
    BY <1>3, <1>6, <1>7 DEF Produced
  <2>2. published = Adopted
    BY <1>1, <1>6, <1>7
  <2> QED BY <1>4, <1>6, <1>7, <2>1, <2>2 DEF AllProduced
<1>11. Kept
  BY <1>1 DEF Kept
<1>12. \A p \in Proc : RunInv(p)
  BY <1>1 DEF Init, RunInv, OnScript, SeenSoFar, Recorded, Watched, Replaced, Checked, SetAside,
              Running, Records, Replaces, Checks, NoTemp
<1> QED BY <1>8, <1>9, <1>10, <1>11, <1>12 DEF Inv, TypeOK

LEMMA Unchanged == Inv /\ UNCHANGED vars => Inv'
<1> SUFFICES ASSUME Inv, UNCHANGED vars PROVE Inv'
  OBVIOUS
<1>1. UNCHANGED <<commits, head, work, published, temp, task, step, outcome, mem, moved, expected>>
  BY DEF vars, run, repository
<1>2. TypeOK' /\ AllProduced' /\ Kept'
  BY <1>1 DEF Inv, TypeOK, RepositoryTypes, RunTypes, AllProduced, Produced, Kept, Holds, Running
<1>3. ASSUME NEW p \in Proc PROVE RunInv(p)'
  <2>1. RunInv(p)
    BY DEF Inv
  <2>2. OnScript(p)' /\ SeenSoFar(p)' /\ SetAside(p)'
    BY <1>1, <2>1 DEF RunInv, OnScript, SeenSoFar, SetAside, Running, Checks, Replaces, Checking, At
  <2>3. Recorded(p)' /\ Watched(p)'
    BY <1>1, <2>1 DEF RunInv, Recorded, Watched, Running, Records, Checking, BuildManifest, Tree
  <2>4. Replaced(p)' /\ Checked(p)'
    BY <1>1, <2>1 DEF RunInv, Replaced, Checked, Running, Checks, Replaces, Checking, Position, Compared,
                      Inventoried
  <2> QED BY <2>2, <2>3, <2>4 DEF RunInv
<1> QED BY <1>2, <1>3 DEF Inv

LEMMA NextKeeps == Inv /\ [Next]_vars => Inv'
BY DeveloperKeeps, RunKeeps, Unchanged DEF Next

THEOREM InductiveInvariant == Spec => []Inv
BY InitKeeps, NextKeeps, PTL DEF Spec

\* Whatever the runs and the developer do, each variable stays in its type: in
\* particular what is published is a whole bundle.
THEOREM TypesKept == Spec => []TypeOK
BY InductiveInvariant, PTL DEF Inv

\* "The source commit in each manifest produced its bundle": for any number of
\* files, runs, moves and kills.
THEOREM ProducedByCommit == Spec => []CommitProducedBundle
<1>1. Inv => CommitProducedBundle
  BY DEF Inv, TypeOK, RepositoryTypes, AllProduced, Produced, CommitProducedBundle, Published
<1> QED BY <1>1, InductiveInvariant, PTL

\* Whoever else runs and wherever a run fails or is killed, a trace or handoff
\* bundle stays as it was published until the developer acts, and a run deletes
\* an MCP bundle only once a later one has been published.
THEOREM NoBundleLost == Spec => []BundleSurvives
<1>1. Inv => BundleSurvives
  BY DEF Inv, Kept, Holds, Running, BundleSurvives, Kinds
<1> QED BY <1>1, InductiveInvariant, PTL

-----------------------------------------------------------------------------
(* The steps that publish and the steps that verify *)

\* A step of a run is one of its script, or it starts, breaks, cleans up or is
\* killed; it moves no other run.
LEMMA OneMoves ==
    ASSUME RunTypes, NEW q \in Proc, RunNext(q), NEW p \in Proc \ {q}
    PROVE  step'[p] = step[p] /\ outcome'[p] = outcome[p]
<1>1. ASSUME NEW how, Leave(q, how) PROVE step'[p] = step[p] /\ outcome'[p] = outcome[p]
  BY <1>1 DEF Leave, RunTypes
<1>2. ASSUME NEW m, Goes(q, m) PROVE step'[p] = step[p] /\ outcome'[p] = outcome[p]
  BY <1>1, <1>2 DEF Goes, RunTypes
<1>3. CASE \E t \in Started : Start(q, t)
  BY <1>3 DEF Start, RunTypes
<1>4. CASE ReadHead(q) \/ ReadTree(q) \/ CleanTree(q) \/ Capture(q) \/ TakeSnapshot(q) \/ Stage(q)
  BY <1>1, <1>2, <1>4 DEF ReadHead, ReadTree, CleanTree, Capture, TakeSnapshot, Stage, Require
<1>5. CASE Inventory(q)
  BY <1>1, <1>2, <1>5 DEF Inventory, Require
<1>6. CASE ReadManifest(q) \/ ReadReceipt(q) \/ VerifyObject(q) \/ Compare(q)
  BY <1>1, <1>2, <1>6 DEF ReadManifest, ReadReceipt, VerifyObject, Compare, Require
<1>7. CASE DropSnapshot(q) \/ WriteManifest(q) \/ WriteReceipt(q) \/ Sync(q) \/ Retire(q) \/ DiscardBackup(q)
  BY <1>2, <1>7 DEF DropSnapshot, WriteManifest, WriteReceipt, Sync, Retire, DiscardBackup
<1>8. CASE Rename(q) \/ Settle(q) \/ Breaks(q) \/ CleanUp(q)
  BY <1>1, <1>2, <1>8 DEF Rename, Settle, Breaks, CleanUp
<1>9. CASE Kill(q)
  BY <1>9 DEF Kill, RunTypes
<1> QED BY <1>3, <1>4, <1>5, <1>6, <1>7, <1>8, <1>9 DEF RunNext

\* A running run that has not failed took the step it was at.
LEMMA ActionAt ==
    ASSUME RunTypes, NEW p \in Proc, RunNext(p), Running(p), outcome'[p] \in {"running", "verified"}
    PROVE  /\ At(p, "rename") => Rename(p)
           /\ At(p, "compare") => Compare(p)
           /\ At(p, "capture") => Capture(p)
<1>1. ~(\E t \in Started : Start(p, t)) /\ ~CleanUp(p)
  BY DEF Start, CleanUp, Running
<1>2. ~Breaks(p) /\ ~Kill(p)
  BY DEF Breaks, Kill, Leave, RunTypes
<1>3. At(p, "rename") \/ At(p, "compare") \/ At(p, "capture") =>
          /\ ~ReadHead(p) /\ ~ReadTree(p) /\ ~CleanTree(p) /\ ~Inventory(p)
          /\ ~TakeSnapshot(p) /\ ~DropSnapshot(p) /\ ~Stage(p) /\ ~WriteManifest(p) /\ ~WriteReceipt(p)
          /\ ~Sync(p) /\ ~Retire(p) /\ ~Settle(p) /\ ~DiscardBackup(p)
          /\ ~ReadManifest(p) /\ ~ReadReceipt(p) /\ ~VerifyObject(p)
  <2>1. SUFFICES ASSUME NEW s \in {"rename", "compare", "capture"}, At(p, s)
                 PROVE  /\ ~ReadHead(p) /\ ~ReadTree(p) /\ ~CleanTree(p) /\ ~Inventory(p)
                        /\ ~TakeSnapshot(p) /\ ~DropSnapshot(p) /\ ~Stage(p) /\ ~WriteManifest(p)
                        /\ ~WriteReceipt(p) /\ ~Sync(p) /\ ~Retire(p) /\ ~Settle(p) /\ ~DiscardBackup(p)
                        /\ ~ReadManifest(p) /\ ~ReadReceipt(p) /\ ~VerifyObject(p)
    OBVIOUS
  <2>2. \A other : At(p, other) => other \in {"rename", "compare", "capture"}
    BY <2>1, SMTT(60) DEF At
  <2>3. ~ReadHead(p) /\ ~ReadTree(p) /\ ~CleanTree(p) /\ ~Inventory(p) /\ ~TakeSnapshot(p) /\ ~DropSnapshot(p)
    BY <2>2, SMTT(60) DEF ReadHead, ReadTree, CleanTree, Inventory, TakeSnapshot, DropSnapshot
  <2>4. ~Stage(p) /\ ~WriteManifest(p) /\ ~WriteReceipt(p) /\ ~Sync(p) /\ ~Retire(p) /\ ~Settle(p)
    BY <2>2, SMTT(60) DEF Stage, WriteManifest, WriteReceipt, Sync, Retire, Settle
  <2>5. ~DiscardBackup(p) /\ ~ReadManifest(p) /\ ~ReadReceipt(p) /\ ~VerifyObject(p)
    BY <2>2 DEF DiscardBackup, ReadManifest, ReadReceipt, VerifyObject
  <2> QED BY <2>3, <2>4, <2>5
<1>4. /\ At(p, "rename") => ~Compare(p) /\ ~Capture(p)
      /\ At(p, "compare") => ~Rename(p) /\ ~Capture(p)
      /\ At(p, "capture") => ~Rename(p) /\ ~Compare(p)
  BY DEF At, Rename, Compare, Capture
<1> QED BY <1>1, <1>2, <1>3, <1>4 DEF RunNext

\* What the rename publishes is what the run read, and that is the repository
\* if the developer did nothing.
LEMMA RenamePublishes ==
    ASSUME Inv, NEW p \in Proc, Rename(p), outcome'[p] = "running", ~moved[p]
    PROVE  LET m == published'[Kind(p)].manifest IN
           /\ m.commit = head /\ m.tree = Tree(head)
           /\ m.files = commits[head].files /\ work = commits[head].files
<1>1. RunTypes /\ RepositoryTypes /\ RunInv(p) /\ OnScript(p)
  BY DEF Inv, TypeOK, RunInv
<1>2. At(p, "rename") /\ Running(p) /\ Publishes(p, temp[p].stage)
  <2>1. ~Leave(p, "failing")
    BY <1>1 DEF Leave, RunTypes
  <2> QED BY <2>1 DEF Rename, At, Running
<1>3. Records(p)
  <2>1. ~Replaces(p)
    BY <1>1, <1>2, ReplacesAt
  <2>2. ~Checks(p)
    BY <1>1, <1>2, ChecksAt
  <2> QED BY <1>2, <2>1, <2>2 DEF Records, Replaces, Checks
<1>4. step[p] = 19
  BY <1>1, <1>2, <1>3, RecordsAt
<1>5. Kind(p) \in Kinds
  BY <1>1, <1>3 DEF Records, Kind, Kinds, OnScript, Tasks, Running
<1>6. published'[Kind(p)] = temp[p].stage
  BY <1>1, <1>2, <1>5 DEF Publishes, RepositoryTypes
<1>7. temp[p].stage.manifest = BuildManifest(p)
  BY <1>1, <1>3, <1>4 DEF RunInv, Recorded
<1>8. /\ mem[p].head = head /\ mem[p].tree = Tree(head)
      /\ mem[p].files = commits[head].files /\ mem[p].files = work
  BY <1>1, <1>3, <1>4 DEF RunInv, Watched
<1> QED BY <1>6, <1>7, <1>8 DEF BuildManifest

\* A check that ends with "verified" has made its last comparison.
LEMMA VerifiedCompared ==
    ASSUME Inv, NEW p \in Proc, RunNext(p), Running(p), outcome'[p] = "verified"
    PROVE  LET m == mem[p] IN
           /\ m.receipt = m.manifest.hash
           /\ ~moved[p] => /\ m.manifest.files = commits[head].files
                           /\ m.manifest.files = work
                           /\ task[p].what = "fresh" => m.manifest.hash = work
<1>1. RunTypes /\ RunInv(p) /\ OnScript(p) /\ Checked(p)
  BY DEF Inv, TypeOK, RunInv
<1>2. ASSUME NEW m, Goes(p, m) PROVE Checks(p) /\ step[p] = Len(Scripts[task[p]])
  BY <1>1, <1>2 DEF Goes, Leave, Checks, RunTypes, Running
<1>3. ~Leave(p, "failing")
  BY <1>1 DEF Leave, RunTypes
<1>4. Checks(p) /\ step[p] = Len(Scripts[task[p]])
  <2>1. CASE ReadHead(p) \/ ReadTree(p) \/ CleanTree(p) \/ Capture(p) \/ TakeSnapshot(p) \/ Stage(p)
    BY <1>2, <1>3, <2>1 DEF ReadHead, ReadTree, CleanTree, Capture, TakeSnapshot, Stage, Require
  <2>2. CASE Inventory(p)
    BY <1>2, <1>3, <2>2 DEF Inventory, Require, Running
  <2>3. CASE ReadManifest(p) \/ ReadReceipt(p) \/ VerifyObject(p) \/ Compare(p)
    BY <1>2, <1>3, <2>3 DEF ReadManifest, ReadReceipt, VerifyObject, Compare, Require
  <2>4. CASE DropSnapshot(p) \/ WriteManifest(p) \/ WriteReceipt(p) \/ Sync(p) \/ Retire(p) \/ DiscardBackup(p)
    BY <1>2, <2>4 DEF DropSnapshot, WriteManifest, WriteReceipt, Sync, Retire, DiscardBackup
  <2>5. CASE Rename(p) \/ Settle(p) \/ Breaks(p)
    BY <1>2, <1>3, <2>5 DEF Rename, Settle, Breaks
  <2>6. ~Kill(p) /\ ~CleanUp(p) /\ ~(\E t \in Started : Start(p, t))
    BY <1>1 DEF Kill, CleanUp, Start, RunTypes, Running
  <2> QED BY <2>1, <2>2, <2>3, <2>4, <2>5, <2>6 DEF RunNext
<1>5. Position(p) = CheckLength(task[p]) /\ task[p] \in Tasks /\ task[p].what \in {"check", "fresh"}
  BY <1>1, <1>4, ChecksAt DEF Checks, Checking, OnScript, Running
<1>6. CASE task[p].kind # "mcp"
  <2>1. CASE task[p].what = "check"
    <3>1. Position(p) = 6
      BY <1>5, <1>6, <2>1 DEF CheckLength
    <3> QED BY <1>1, <1>4, <1>6, <2>1, <3>1 DEF Checked, Compared, Inventoried
  <2>2. CASE task[p].what = "fresh"
    <3>1. Position(p) = 10
      BY <1>5, <1>6, <2>2 DEF CheckLength
    <3> QED BY <1>1, <1>4, <1>6, <2>2, <3>1 DEF Checked, Compared, Inventoried
  <2> QED BY <1>5, <2>1, <2>2
<1>7. CASE task[p].kind = "mcp" /\ task[p].what = "check"
  <2>1. Position(p) = 4 /\ At(p, "compare")
    BY <1>1, <1>4, <1>5, <1>7, ChecksAt DEF CheckLength
  <2>2. mem[p].files = mem[p].manifest.files /\ mem[p].receipt = mem[p].manifest.hash
    BY <1>1, <1>3, <2>1, ActionAt DEF Compare, Require, ArtifactsMatch
  <2> QED BY <1>1, <1>4, <1>7, <2>1, <2>2 DEF Checked, Inventoried
<1>8. CASE task[p].kind = "mcp" /\ task[p].what = "fresh"
  <2>1. Position(p) = 5 /\ At(p, "capture")
    BY <1>1, <1>4, <1>5, <1>8, ChecksAt DEF CheckLength
  <2>2. mem[p].receipt = work
    BY <1>1, <1>3, <1>4, <1>8, <2>1, ActionAt
       DEF Capture, Require, FreshDiffers, Captured, CapturedInWorktree, Kind, Checks
  <2> QED BY <1>1, <1>4, <1>8, <2>1, <2>2 DEF Checked, Compared, Inventoried
<1> QED BY <1>5, <1>6, <1>7, <1>8

\* A trace or handoff bundle is published as HEAD and the worktree have it,
\* unless the developer acts after the last verification: for any number of
\* runs beside it.
THEOREM PublicationAsserted == Spec => PublishedAsCommitted
<1>1. ASSUME Inv, [Next]_vars, NEW p \in Proc,
             At(p, "rename") /\ step'[p] # step[p] /\ outcome'[p] = "running" /\ ~moved[p]
      PROVE  LET m == published'[Kind(p)].manifest IN
             /\ m.commit = head /\ m.tree = Tree(head)
             /\ m.files = commits[head].files /\ work = commits[head].files
  <2>1. RunTypes /\ Running(p)
    BY <1>1 DEF Inv, TypeOK, At, Running
  <2>2. PICK q \in Proc : RunNext(q)
    BY <1>1 DEF Next, DeveloperNext, run, vars
  <2>3. q = p
    BY <1>1, <2>1, <2>2, OneMoves
  <2> QED BY <1>1, <2>1, <2>2, <2>3, ActionAt, RenamePublishes
<1>2. Inv /\ [Next]_vars =>
        [\A p \in Proc :
          At(p, "rename") /\ step'[p] # step[p] /\ outcome'[p] = "running" /\ ~moved[p] =>
            LET m == published'[Kind(p)].manifest IN
            /\ m.commit = head /\ m.tree = Tree(head)
            /\ m.files = commits[head].files /\ work = commits[head].files]_vars
  BY <1>1
<1> QED BY <1>2, InductiveInvariant, PTL DEF Spec, PublishedAsCommitted

\* A check reports "verified" of one bundle nobody edited, which is that of
\* HEAD and the worktree if the developer did nothing: for every interleaving
\* with recorders.
THEOREM VerificationSound == Spec => VerifiedMeansSo
<1>1. ASSUME Inv, [Next]_vars, NEW p \in Proc, outcome[p] = "running" /\ outcome'[p] = "verified"
      PROVE  LET m == mem[p] IN
             /\ m.receipt = m.manifest.hash
             /\ ~moved[p] => /\ m.manifest.files = commits[head].files
                             /\ m.manifest.files = work
                             /\ task[p].what = "fresh" => m.manifest.hash = work
  <2>1. RunTypes /\ Running(p)
    BY <1>1 DEF Inv, TypeOK, Running
  <2>2. PICK q \in Proc : RunNext(q)
    BY <1>1 DEF Next, DeveloperNext, run, vars
  <2>3. q = p
    BY <1>1, <2>1, <2>2, OneMoves
  <2> QED BY <1>1, <2>1, <2>2, <2>3, VerifiedCompared
<1>2. Inv /\ [Next]_vars =>
        [\A p \in Proc :
          outcome[p] = "running" /\ outcome'[p] = "verified" =>
            LET m == mem[p] IN
            /\ m.receipt = m.manifest.hash
            /\ ~moved[p] => /\ m.manifest.files = commits[head].files
                            /\ m.manifest.files = work
                            /\ task[p].what = "fresh" => m.manifest.hash = work]_vars
  BY <1>1
<1> QED BY <1>2, InductiveInvariant, PTL DEF Spec, VerifiedMeansSo

=============================================================================
