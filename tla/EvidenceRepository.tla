------------------------- MODULE EvidenceRepository -------------------------
(***************************************************************************)
(* The git repository the evidence recorders (k2do/labs/*_recorder.py)     *)
(* work in: commits, HEAD, the worktree, the published bundles under docs/ *)
(* and what the recorders leave beside them.  A developer edits, commits,  *)
(* checks out, prunes and deletes while recorders and checkers run.        *)
(*                                                                         *)
(* The content of a source file is a version.  The receipt a lab prints    *)
(* depends on nothing but the sources it ran, so a receipt is modelled by  *)
(* the versions of these sources, and a hash by what was hashed.           *)
(***************************************************************************)
EXTENDS Naturals, Sequences

CONSTANTS
    Files,      \* how many source files a manifest records, named 1..Files
    Proc,       \* runs of recorders and checkers
    Bundled,    \* the kinds of which the repository has a published bundle
    MaxMoves,   \* bound on what the developer does
    None

Kinds == {"trace", "handoff", "mcp"}

ASSUME RepositoryAssumption ==
    Files \in Nat \ {0} /\ Bundled \subseteq Kinds /\ MaxMoves \in Nat

VARIABLES
    commits,    \* the commits by number: the source files, the bundles under docs/
    gone,       \* the commits whose objects are no longer in the repository
    head,       \* HEAD
    work,       \* the source files of the worktree
    published,  \* docs/<bundle directory>, by kind
    temp,       \* the hidden directories of each run: stage, snapshot, backup
    moves       \* history: what the developer did so far, bounded

repository == <<commits, gone, head, work, published>>

Source == 1..Files
Version == {1, 2}
Contents == [Source -> Version]

\* What a manifest may say, and a bundle: each file None as long as it is not
\* written.
Manifests == [commit : Nat \cup {None}, tree : Nat \cup {None},
              files : Contents \cup {None}, hash : Contents \cup {None}]
Bundles == [manifest : Manifests \cup {None}, receipt : Contents \cup {None}]

ASSUME NoneAssumption == None \notin Nat \cup Contents \cup Manifests \cup Bundles

Empty == [manifest |-> None, receipt |-> None]
Whole(bundle) == bundle.manifest # None /\ bundle.receipt # None

NoTemp == [stage |-> None, snapshot |-> None, backup |-> None]

\* Git names a tree by its content.
Tree(c) == CHOOSE d \in DOMAIN commits :
    /\ commits[d] = commits[c]
    /\ \A e \in DOMAIN commits : commits[e] = commits[c] => d <= e

Available(c) == c \notin gone
TreeAvailable(t) == \E c \in DOMAIN commits : Available(c) /\ Tree(c) = t

\* git status --porcelain --untracked-files=all: an empty directory is not
\* listed, a directory with a file is.
Status ==
    {<<"source", f>> : f \in {f \in Source : work[f] # commits[head].files[f]}}
    \cup {<<"bundle", k>> : k \in {k \in Kinds : published[k] # commits[head].bundles[k]}}
    \cup {<<"stage", p>> : p \in {p \in Proc : temp[p].stage \notin {None, Empty}}}
    \cup {<<"snapshot", p>> : p \in {p \in Proc : temp[p].snapshot # None}}
    \cup {<<"backup", p>> : p \in {p \in Proc : temp[p].backup # None}}

\* The repository has a first commit, one that publishes its bundles, which is
\* checked out, and one on another branch that changes the sources.
First == [f \in Source |-> 1]
Bundle(c, files) ==
    [manifest |-> [commit |-> c, tree |-> c, files |-> files, hash |-> files], receipt |-> files]

Adopted == [k \in Kinds |-> IF k \in Bundled THEN Bundle(1, First) ELSE None]

RepositoryInit ==
    /\ commits = << [files |-> First, bundles |-> [k \in Kinds |-> None]],
                    [files |-> First, bundles |-> Adopted],
                    [files |-> [f \in Source |-> 2], bundles |-> Adopted] >>
    /\ head = 2
    /\ gone = {}
    /\ work = commits[head].files
    /\ published = commits[head].bundles
    /\ temp = [p \in Proc |-> NoTemp]
    /\ moves = 0

-----------------------------------------------------------------------------
(* The developer *)

Move ==
    /\ moves < MaxMoves
    /\ moves' = moves + 1

Edit(f) ==
    /\ Move
    /\ work' = [work EXCEPT ![f] = 3 - @]
    /\ UNCHANGED <<commits, gone, head, published, temp>>

\* Sources and bundles, not the hidden directories of a run.
Commit ==
    /\ Move
    /\ [files |-> work, bundles |-> published] # commits[head]
    /\ commits' = Append(commits, [files |-> work, bundles |-> published])
    /\ head' = Len(commits')
    /\ UNCHANGED <<gone, work, published, temp>>

\* Git refuses to overwrite what is not committed.
Checkout(c) ==
    /\ Move
    /\ c # head /\ Available(c)
    /\ work = commits[head].files
    /\ \A k \in Kinds : published[k] # commits[head].bundles[k] =>
                            commits[c].bundles[k] = commits[head].bundles[k]
    /\ head' = c
    /\ work' = commits[c].files
    /\ published' = [k \in Kinds |-> IF published[k] = commits[head].bundles[k]
                                     THEN commits[c].bundles[k] ELSE published[k]]
    /\ UNCHANGED <<commits, gone, temp>>

\* After a squash the old commits are collected.
Prune(c) ==
    /\ Move
    /\ c < head /\ Available(c)
    /\ gone' = gone \cup {c}
    /\ UNCHANGED <<commits, head, work, published, temp>>

Discard(k) ==
    /\ Move
    /\ published[k] # None
    /\ published' = [published EXCEPT ![k] = None]
    /\ UNCHANGED <<commits, gone, head, work, temp>>

\* "Generated bundle files must never be hand-edited."
HandEdit(k) ==
    /\ Move
    /\ published[k] # None
    /\ published' = [published EXCEPT ![k].receipt = [f \in Source |-> 3 - @[f]]]
    /\ UNCHANGED <<commits, gone, head, work, temp>>

Developer ==
    \/ Commit
    \/ \E f \in Source : Edit(f)
    \/ \E c \in DOMAIN commits : Checkout(c) \/ Prune(c)
    \/ \E k \in Kinds : Discard(k) \/ HandEdit(k)
=============================================================================
