----------------------------- MODULE ChatService -----------------------------
(***************************************************************************)
(* What the assistant promises to those who write to it, and to those who  *)
(* wait for a subagent: what they are owed an answer to is accepted in     *)
(* some order, and as long as the service is open each of it is answered,  *)
(* once and in that order.  Only the announcement of a subagent may be     *)
(* given up.  When the service closes, what is owed then is lost.          *)
(***************************************************************************)
EXTENDS Naturals, Sequences

CONSTANT Message    \* the numbers of the messages, given as they are accepted

VARIABLES
    open,       \* the service has not begun to close
    owed,       \* accepted and not answered, in the order of acceptance
    answered    \* answered, in the order of the answers

Init == open = TRUE /\ owed = <<>> /\ answered = <<>>

Accept ==
    \E m \in Message, from \in {"user", "subagent"} :
        /\ \A i \in DOMAIN owed : owed[i].id < m
        /\ \A i \in DOMAIN answered : answered[i] < m
        /\ owed' = Append(owed, [id |-> m, from |-> from])
        /\ UNCHANGED <<open, answered>>

Answer ==
    /\ open /\ owed # <<>>
    /\ owed' = Tail(owed) /\ answered' = Append(answered, Head(owed).id)
    /\ UNCHANGED open

GiveUp ==
    /\ open /\ owed # <<>> /\ Head(owed).from = "subagent"
    /\ owed' = Tail(owed) /\ UNCHANGED <<open, answered>>

Close == open' = FALSE /\ UNCHANGED <<owed, answered>>

Lose == ~open /\ owed # <<>> /\ owed' = Tail(owed) /\ UNCHANGED <<open, answered>>

vars == <<open, owed, answered>>

Next == Accept \/ Answer \/ GiveUp \/ Close \/ Lose

Safety == Init /\ [][Next]_vars
Spec == Safety /\ WF_vars(Answer \/ GiveUp)
=============================================================================
