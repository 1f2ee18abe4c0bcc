---------------------------- MODULE AnswerService ----------------------------
(***************************************************************************)
(* What an asker may rely on, whatever goes on behind it: a request ends   *)
(* once, with one answer or with the asker's own cancellation, an asker    *)
(* that was cancelled gets nothing else, and every request ends.           *)
(***************************************************************************)
VARIABLES
    withdrawn,  \* the asker has been cancelled
    reply       \* "unasked", "open", then "answer" or "cancelled"

Init == withdrawn = FALSE /\ reply = "unasked"

Ask == reply = "unasked" /\ reply' = "open" /\ UNCHANGED withdrawn
Withdraw == reply = "open" /\ withdrawn' = TRUE /\ UNCHANGED reply
Answer == reply = "open" /\ ~withdrawn /\ reply' = "answer" /\ UNCHANGED withdrawn
GiveUp == reply = "open" /\ withdrawn /\ reply' = "cancelled" /\ UNCHANGED withdrawn

Next == Ask \/ Withdraw \/ Answer \/ GiveUp

vars == <<withdrawn, reply>>

Safety == Init /\ [][Next]_vars

Spec == Safety /\ WF_vars(Answer \/ GiveUp)
=============================================================================
