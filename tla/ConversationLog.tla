--------------------------- MODULE ConversationLog ---------------------------
(***************************************************************************)
(* What the session store promises the agent (the docstring of Session,    *)
(* k2do/session/manager.py): the conversation under a key is append-only.  *)
(* A turn adds a question and its answer at the end, in one step, and a    *)
(* new session empties it; nothing else ever changes it, and a restart     *)
(* finds it as it was.                                                     *)
(***************************************************************************)
EXTENDS Sequences

CONSTANTS Key, Turn

VARIABLE conv   \* the conversation under each key

Pair(n) == <<<<n, "user">>, <<n, "assistant">>>>

Init == conv = [k \in Key |-> <<>>]

Answer(k, n) == conv' = [conv EXCEPT ![k] = @ \o Pair(n)]

Clear(k) == conv' = [conv EXCEPT ![k] = <<>>]

Next == \E k \in Key : Clear(k) \/ \E n \in Turn : Answer(k, n)

Spec == Init /\ [][Next]_conv
=============================================================================
