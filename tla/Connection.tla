----------------------------- MODULE Connection -----------------------------
(***************************************************************************)
(* What a connection promises to the gobjs above it.  It opens             *)
(* (EV_CONNECTED); when it ends, everything that was in progress is        *)
(* stopped first, which may take time (it is `dying': nothing is sent or   *)
(* read); and then it is announced closed (EV_DISCONNECTED), once.  A      *)
(* dying connection never comes back to life, and always closes.           *)
(*                                                                         *)
(* The promise may become void, and from then on anything may happen.      *)
(***************************************************************************)

VARIABLES
    link,       \* "closed", "open" or "dying"
    void        \* nothing is promised any more

Init == link = "closed" /\ void = FALSE

Open == link = "closed" /\ link' = "open"

\* It may die in the handler that opened it.
Die == link \in {"closed", "open"} /\ link' = "dying"

Close == link \in {"open", "dying"} /\ link' = "closed"

Keeps == void = FALSE /\ void' = FALSE

Next ==
    \/ Keeps /\ (Open \/ Die \/ Close)
    \/ void' = TRUE

\* What it never does, and that it closes.
SafeSpec == Init /\ [][Next]_<<link, void>>

Spec == SafeSpec /\ WF_<<link, void>>(link = "dying" /\ Keeps /\ Close)
=============================================================================
