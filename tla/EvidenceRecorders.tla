-------------------------- MODULE EvidenceRecorders --------------------------
(***************************************************************************)
(* The three evidence recorders (k2do/labs/trace_evidence_recorder.py,     *)
(* handoff_evidence_recorder.py and mcp_evidence_recorder.py): `record`    *)
(* captures the receipt of a lab and publishes it with a manifest of the   *)
(* commit it comes from, `check` verifies a published bundle.              *)
(*                                                                         *)
(* A run is a process: a sequence of steps, each one git command, one      *)
(* source file, one capture or one change of a directory, between which    *)
(* the developer and the other runs act.  A command may fail or time out   *)
(* (Breaks), a check of the code may fail (Require); then the `finally`    *)
(* clauses clean up.  A run may be killed at any point and then does not.  *)
(***************************************************************************)
EXTENDS EvidenceRepository

Tasks == [kind : {"trace", "handoff"}, what : {"record", "check", "fresh"}]
         \cup [kind : {"mcp"}, what : {"record", "replace", "check", "fresh"}]

CONSTANTS
    Started,    \* the tasks that are started
    MaxKills    \* bound on runs killed

ASSUME StartedAssumption == Started \subseteq Tasks /\ MaxKills \in Nat

VARIABLES
    task,       \* what each run was started for
    step,       \* where it is in its script
    outcome,    \* none, running, failing (it cleans up), ended, verified or killed
    mem,        \* what it has read so far
    kills,      \* history: how many were killed
    moved,      \* history: the developer acted since the run set its mark
    expected    \* history: the bundles that should be there, as the developer left them

run == <<task, step, outcome, mem, kills>>
vars == <<repository, temp, moves, run, moved, expected>>

Kind(p) == task[p].kind
Checking(p) == task[p].what \in {"check", "fresh"}

NoMemory == [head |-> None, tree |-> None, files |-> None, seen |-> <<>>,
             manifest |-> None, receipt |-> None]

-----------------------------------------------------------------------------
(* The scripts *)

Clean == <<"head", "tree", "status">>

\* Before the rename.
Verify == <<"head", "tree", "inventory", "status">>

\* Publishing what was clean after the capture.
TraceRecordUnverified ==
    Clean \o <<"inventory", "snapshot", "capture", "drop", "inventory">>
    \o Clean \o <<"stage", "manifest", "receipt", "rename", "sync">>

TraceRecord ==
    Clean \o <<"inventory", "snapshot", "capture", "drop", "inventory">>
    \o Clean \o <<"stage", "manifest", "receipt">> \o Verify \o <<"rename", "sync">>

HandoffRecord == TraceRecord

\* Mutant: the old bundle is deleted before the new one is in its place.
McpRecordDeletingFirst ==
    <<"status", "head", "tree", "inventory", "capture", "head", "tree", "inventory",
      "stage", "manifest", "receipt", "retire", "discard", "settle">>

McpRecord == <<"status", "head", "tree", "inventory", "capture", "head", "tree", "inventory",
               "stage", "manifest", "receipt", "retire", "settle", "discard">>

Fresh == <<"head", "snapshot", "capture", "drop">>

TraceCheck(fresh) == <<"readManifest", "readReceipt", "object", "inventory", "compare">>
                     \o (IF fresh THEN Fresh ELSE <<>>) \o <<"inventory">>

\* It reads HEAD once more, for the list of its source files.
HandoffCheck(fresh) == <<"head">> \o TraceCheck(fresh)

McpCheck(fresh) == <<"readManifest", "readReceipt", "inventory", "compare">>
                   \o (IF fresh THEN <<"capture">> ELSE <<>>)

Script(t) ==
    LET fresh == t.what = "fresh"
        checks == fresh \/ t.what = "check"
    IN  CASE ~checks /\ t.kind = "trace" -> TraceRecord
          [] ~checks /\ t.kind = "handoff" -> HandoffRecord
          [] ~checks /\ t.kind = "mcp" -> McpRecord
          [] checks /\ t.kind = "trace" -> TraceCheck(fresh)
          [] checks /\ t.kind = "handoff" -> HandoffCheck(fresh)
          [] checks /\ t.kind = "mcp" -> McpCheck(fresh)

Scripts == [t \in Tasks |-> Script(t)]

At(p, s) == outcome[p] = "running" /\ Scripts[task[p]][step[p]] = s

\* A run that fails with nothing on disk has nothing to clean up.
Leave(p, how) ==
    LET end == IF how = "failing" /\ temp[p] = NoTemp THEN "ended" ELSE how IN
    /\ outcome' = [outcome EXCEPT ![p] = end]
    /\ step' = [step EXCEPT ![p] = 0]
    /\ task' = [task EXCEPT ![p] = IF end = "failing" THEN @ ELSE None]
    /\ mem' = [mem EXCEPT ![p] = NoMemory]
    /\ UNCHANGED kills

\* The step is done, with m in memory.
Goes(p, m) ==
    IF step[p] = Len(Scripts[task[p]]) THEN Leave(p, IF Checking(p) THEN "verified" ELSE "ended")
    ELSE /\ step' = [step EXCEPT ![p] = @ + 1]
         /\ mem' = [mem EXCEPT ![p] = m]
         /\ UNCHANGED <<task, outcome, kills>>

Require(p, condition, m) == IF condition THEN Goes(p, m) ELSE Leave(p, "failing")

Reads == UNCHANGED <<repository, temp, moves, moved, expected>>

\* Only the hidden directory d of the run changes.
Puts(p, d, value) ==
    /\ temp' = [temp EXCEPT ![p][d] = value]
    /\ UNCHANGED <<repository, moves, expected>>

\* The first bundle of the trace or the handoff recorder is to stay; one of
\* the MCP recorder may give way, but only to another.
Publishes(p, bundle) ==
    /\ published' = [published EXCEPT ![Kind(p)] = bundle]
    /\ expected' = [expected EXCEPT ![Kind(p)] =
           IF bundle # None /\ (@ = None \/ Kind(p) = "mcp") THEN bundle ELSE @]
    /\ UNCHANGED <<commits, gone, head, work, moves, moved>>

-----------------------------------------------------------------------------
(* Looking at the repository *)

ReadHead(p) ==
    /\ At(p, "head") /\ Reads
    /\ LET m == mem[p] IN
       Require(p, Checking(p) \/ m.head \in {None, head}, [m EXCEPT !.head = head])

ReadTree(p) ==
    /\ At(p, "tree") /\ Reads
    /\ LET m == mem[p] IN Require(p, m.tree \in {None, Tree(head)}, [m EXCEPT !.tree = Tree(head)])

CleanTree(p) ==
    /\ At(p, "status") /\ Reads
    /\ Require(p, Status = (IF temp[p].stage = None THEN {} ELSE {<<"stage", p>>}), mem[p])

InHead(f) == commits[head].files[f]

InWorktree(f) == work[f]

\* One source file after the other: committed and worktree content must be
\* the same, and the whole the same as the last time.
Inventory(p) ==
    LET m == mem[p]
        f == Len(m.seen) + 1
        seen == Append(m.seen, InHead(f))
    IN  /\ At(p, "inventory") /\ Reads
        /\ IF InWorktree(f) # InHead(f) THEN Leave(p, "failing")
           ELSE IF f < Files THEN /\ mem' = [mem EXCEPT ![p].seen = seen]
                                  /\ UNCHANGED <<task, step, outcome, kills>>
           ELSE Require(p, m.files \in {None, seen}, [m EXCEPT !.files = seen, !.seen = <<>>])

-----------------------------------------------------------------------------
(* Capturing *)

\* The package of a commit, by the ids of its objects.
PackageOf(c) == IF Available(c) THEN commits[c].files ELSE None

\* Of the commit read as HEAD, wherever HEAD is by now.
TakeSnapshot(p) ==
    LET package == PackageOf(mem[p].head) IN
    /\ At(p, "snapshot") /\ UNCHANGED moved
    /\ Require(p, package # None, mem[p])
    /\ Puts(p, "snapshot", package)

CapturedInWorktree(p) == work

\* The sources the lab runs from.
Captured(p) == IF Kind(p) = "mcp" THEN CapturedInWorktree(p) ELSE temp[p].snapshot

FreshIgnored(p) == FALSE

\* A checker compares what it captures with the published receipt.
FreshDiffers(p) == Checking(p) /\ Captured(p) # mem[p].receipt

Capture(p) ==
    /\ At(p, "capture") /\ Reads
    /\ Require(p, ~FreshDiffers(p), [mem[p] EXCEPT !.receipt = Captured(p)])

DropSnapshot(p) ==
    /\ At(p, "drop") /\ UNCHANGED moved
    /\ Puts(p, "snapshot", None) /\ Goes(p, mem[p])

-----------------------------------------------------------------------------
(* Publishing *)

BuildManifest(p) ==
    LET m == mem[p] IN
    [commit |-> m.head, tree |-> m.tree, files |-> m.files, hash |-> m.receipt]

\* The destination must be absent, or for --replace may be there.
Stage(p) ==
    LET free == published[Kind(p)] = None \/ task[p].what = "replace" IN
    /\ At(p, "stage") /\ UNCHANGED moved
    /\ Require(p, free, mem[p])
    /\ Puts(p, "stage", IF free THEN Empty ELSE None)

WriteManifest(p) ==
    /\ At(p, "manifest") /\ Goes(p, mem[p]) /\ UNCHANGED moved
    /\ Puts(p, "stage", [temp[p].stage EXCEPT !.manifest = BuildManifest(p)])

\* The stage is complete: from here the run watches the developer.
WriteReceipt(p) ==
    /\ At(p, "receipt") /\ Goes(p, mem[p])
    /\ moved' = [moved EXCEPT ![p] = FALSE]
    /\ Puts(p, "stage", [temp[p].stage EXCEPT !.receipt = mem[p].receipt])

\* renameat2 with RENAME_NOREPLACE.
Rename(p) ==
    /\ At(p, "rename")
    /\ IF published[Kind(p)] # None
       THEN Leave(p, "failing") /\ Reads
       ELSE /\ Goes(p, mem[p])
            /\ Publishes(p, temp[p].stage)
            /\ temp' = [temp EXCEPT ![p].stage = None]

Sync(p) == At(p, "sync") /\ Goes(p, mem[p]) /\ Reads

\* The MCP recorder looks at the destination again, and moves away what is
\* there, with or without --replace.
Retire(p) ==
    /\ At(p, "retire") /\ Goes(p, mem[p])
    /\ IF published["mcp"] = None THEN Reads
       ELSE /\ temp' = [temp EXCEPT ![p].backup = published["mcp"]]
            /\ Publishes(p, None)

\* A rename on a directory that is not empty fails.
Settle(p) ==
    /\ At(p, "settle")
    /\ IF published["mcp"] # None
       THEN Leave(p, "failing") /\ Reads
       ELSE /\ Goes(p, mem[p])
            /\ Publishes(p, temp[p].stage)
            /\ temp' = [temp EXCEPT ![p].stage = None]

DiscardBackup(p) ==
    /\ At(p, "discard") /\ UNCHANGED moved
    /\ Puts(p, "backup", None) /\ Goes(p, mem[p])

-----------------------------------------------------------------------------
(* Checking *)

\* A manifest has exactly the entries a recorder writes.
Strict(manifest) ==
    manifest \in [commit : DOMAIN commits, tree : DOMAIN commits,
                  files : [Source -> Version], hash : [Source -> Version]]

ReadManifest(p) ==
    LET b == published[Kind(p)] IN
    /\ At(p, "readManifest") /\ Reads
    /\ IF b = None THEN Leave(p, "failing")
       ELSE Require(p, Whole(b) /\ Strict(b.manifest), [mem[p] EXCEPT !.manifest = b.manifest])

\* The trace and handoff checkers read every file in the directory they
\* opened, the MCP checker goes by its path: another bundle may be there.
SameDirectory(p) == Kind(p) = "mcp" \/ published[Kind(p)].manifest = mem[p].manifest

ReadReceipt(p) ==
    LET b == published[Kind(p)] IN
    /\ At(p, "readReceipt") /\ Reads
    /\ IF b = None THEN Leave(p, "failing")
       ELSE Require(p, SameDirectory(p), [mem[p] EXCEPT !.receipt = b.receipt])

\* The commit of the manifest, or its tree, if the repository still has it.
VerifyObject(p) ==
    LET m == mem[p].manifest
        right == IF Available(m.commit)
                 THEN Tree(m.commit) = m.tree /\ commits[m.commit].files = m.files
                 ELSE TreeAvailable(m.tree) => commits[m.tree].files = m.files
    IN  /\ At(p, "object") /\ Reads
        /\ Require(p, right, mem[p])

\* The artifacts are the receipt and what is rendered from it.
ArtifactsMatch(m) == m.receipt = m.manifest.hash

Compare(p) ==
    LET m == mem[p] IN
    /\ At(p, "compare") /\ Reads
    /\ Require(p, m.files = m.manifest.files /\ ArtifactsMatch(m), m)

-----------------------------------------------------------------------------
(* Starting and ending *)

Start(p, t) ==
    /\ outcome[p] = "none"
    /\ outcome' = [outcome EXCEPT ![p] = "running"]
    /\ task' = [task EXCEPT ![p] = t]
    /\ step' = [step EXCEPT ![p] = 1]
    /\ moved' = [moved EXCEPT ![p] = FALSE]
    /\ UNCHANGED <<repository, temp, moves, mem, kills, expected>>

\* A command fails, times out or prints too much, a file cannot be written.
Breaks(p) == outcome[p] = "running" /\ Leave(p, "failing") /\ Reads

\* A failed run removes its snapshot and its stage.  The MCP recorder moves
\* the old bundle back unless something is in its place.
CleanUp(p) ==
    LET restores == temp[p].backup # None /\ published[Kind(p)] = None IN
    /\ outcome[p] = "failing" /\ Leave(p, "ended")
    /\ temp' = [temp EXCEPT ![p] = [NoTemp EXCEPT !.backup = IF restores THEN None
                                                             ELSE temp[p].backup]]
    /\ IF restores THEN Publishes(p, temp[p].backup)
       ELSE UNCHANGED <<repository, moves, moved, expected>>

\* Killed with nothing on disk, a run is one that failed.
Kill(p) ==
    /\ outcome[p] \in {"running", "failing"} /\ temp[p] # NoTemp
    /\ kills < MaxKills /\ kills' = kills + 1
    /\ outcome' = [outcome EXCEPT ![p] = "killed"]
    /\ task' = [task EXCEPT ![p] = None]
    /\ step' = [step EXCEPT ![p] = 0]
    /\ mem' = [mem EXCEPT ![p] = NoMemory]
    /\ Reads

Init ==
    /\ RepositoryInit
    /\ task = [p \in Proc |-> None]
    /\ step = [p \in Proc |-> 0]
    /\ outcome = [p \in Proc |-> "none"]
    /\ mem = [p \in Proc |-> NoMemory]
    /\ kills = 0
    /\ moved = [p \in Proc |-> FALSE]
    /\ expected = published

\* What he does matters to a check, and to a run whose stage is complete.
Watches(p) == Checking(p) \/ (temp[p].stage # None /\ temp[p].stage.receipt # None)

\* What he takes away is not missed.
DeveloperNext ==
    /\ Developer
    /\ expected' = [k \in Kinds |-> IF published'[k] # published[k] THEN published'[k] ELSE expected[k]]
    /\ moved' = [p \in Proc |-> outcome[p] = "running" /\ Watches(p)]
    /\ UNCHANGED run

RunNext(p) ==
    \/ \E t \in Started : Start(p, t)
    \/ ReadHead(p) \/ ReadTree(p) \/ CleanTree(p) \/ Inventory(p)
    \/ TakeSnapshot(p) \/ Capture(p) \/ DropSnapshot(p)
    \/ Stage(p) \/ WriteManifest(p) \/ WriteReceipt(p) \/ Rename(p) \/ Sync(p)
    \/ Retire(p) \/ Settle(p) \/ DiscardBackup(p)
    \/ ReadManifest(p) \/ ReadReceipt(p) \/ VerifyObject(p) \/ Compare(p)
    \/ Breaks(p) \/ CleanUp(p) \/ Kill(p)

Next == DeveloperNext \/ \E p \in Proc : RunNext(p)

Spec == Init /\ [][Next]_vars
-----------------------------------------------------------------------------
(* Properties *)

\* "The source commit in each manifest produced its bundle" (docs/evidence.md):
\* whatever the developer and other runs do meanwhile, and whoever is killed,
\* a bundle of the trace or the handoff recorder is complete and its receipt
\* was made by the commit its manifest names.
CommitProducedBundle ==
    \A k \in Kinds \ {"mcp"} : published[k] # None =>
        /\ Whole(published[k])
        /\ published[k].manifest.hash = commits[published[k].manifest.commit].files

\* A trace or handoff bundle is published only while HEAD is the commit of
\* its manifest and nothing in the worktree differs from it, unless the
\* developer acts between the moment the stage is complete, just before the
\* final verification, and the rename: what he did earlier is noticed, unless
\* he has undone it (_assert_publication_state).
PublishedAsCommitted ==
    [][\A p \in Proc :
        At(p, "rename") /\ step'[p] # step[p] /\ outcome'[p] = "running" /\ ~moved[p] =>
            LET m == published'[Kind(p)].manifest IN
            /\ m.commit = head /\ m.tree = Tree(head)
            /\ m.files = commits[head].files /\ work = commits[head].files]_vars

\* A trace or handoff bundle stays as it was published until the developer
\* does something about it ("deliberately one-shot", docs/evidence.md), also
\* when two recorders race (_rename_noreplace).  Of the MCP bundles only the
\* one published last is safe: a run deletes a bundle, even one that a racing
\* run has just published and without --replace, but only once its own is in
\* place; and where there is none in place, as after a kill between the two
\* renames, the last one is in the directory of a run (_publish).
BundleSurvives ==
    \A k \in Kinds : expected[k] # None =>
        \/ published[k] = expected[k]
        \/ k = "mcp" /\ published[k] = None
              /\ \E p \in Proc : /\ outcome[p] \in {"running", "failing", "killed"}
                                 /\ temp[p].backup = expected[k]

\* A check that reports "verified" read manifest and receipt of one bundle
\* nobody edited; and if the developer did nothing meanwhile, the bundle's
\* sources are those of HEAD and of the worktree, and a freshly captured
\* receipt is theirs (check).
VerifiedMeansSo ==
    [][\A p \in Proc :
        outcome[p] = "running" /\ outcome'[p] = "verified" =>
            LET m == mem[p] IN
            /\ m.receipt = m.manifest.hash
            /\ ~moved[p] => /\ m.manifest.files = commits[head].files
                            /\ m.manifest.files = work
                            /\ task[p].what = "fresh" => m.manifest.hash = work]_vars
=============================================================================
