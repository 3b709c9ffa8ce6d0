------------------------------ MODULE YevEvent ------------------------------
(***************************************************************************)
(* The events of the io_uring loop, kernel/c/yev_loop/src/yev_loop.c, that *)
(* a gobj owns: the state of each, and the completions that wait in the    *)
(* ring.  A module that uses it keeps these in fields of a record s:       *)
(*   s.yev[e]  the state of event e, "none" before it is created           *)
(*   s.armed   the events with an operation in the kernel                  *)
(*   s.cq      the completions not reaped yet, each [ev, res]              *)
(*                                                                         *)
(* An operation that is cancelled gives two completions: the result of the *)
(* cancel, 0, and its own error, in this order (the kernel ends a cancel   *)
(* as it submits it, and what it cancelled from then on).  One that had    *)
(* completed already gives its own, whatever it is, and then the cancel's  *)
(* -ENOENT.  The state CANCELING waits for the negative one.               *)
(***************************************************************************)
EXTENDS Naturals, Sequences

YevStates == {"none", "IDLE", "RUNNING", "CANCELING", "STOPPED"}

\* A positive result, 0 and a negative one.
Results == {"some", "zero", "error"}

\* yev_start_event(), refused to an event that is running or canceling
YevStart(s, e) ==
    IF s.yev[e] \in {"IDLE", "STOPPED"}
    THEN [s EXCEPT !.yev[e] = "RUNNING", !.armed = @ \cup {e}]
    ELSE s

\* yev_stop_event(): a running event is cancelled, an idle one just stops.
YevStop(s, e) ==
    CASE s.yev[e] = "RUNNING" ->
           [s EXCEPT !.yev[e] = "CANCELING",
                     !.armed = @ \ {e},
                     !.cq = @ \o (IF e \in s.armed
                                  THEN <<[ev |-> e, res |-> "zero"]>>
                                  ELSE <<>>)
                              \o <<[ev |-> e, res |-> "error"]>>]
      [] s.yev[e] = "IDLE" -> [s EXCEPT !.yev[e] = "STOPPED"]
      [] OTHER -> s

YevStopped(s, e) == s.yev[e] \in {"none", "STOPPED"}

\* Mutant of Reaped: a cancelled event stops at the first completion.
ReapedAtOnce(state, e, res) ==
    CASE state = "RUNNING" /\ res = "error" -> "STOPPED"
      [] state = "RUNNING" /\ res = "zero" /\ e = "read" -> "STOPPED"
      [] state = "RUNNING" -> "IDLE"
      [] OTHER -> "STOPPED"

\* callback_cqe(): the state of an event after a completion of it
Reaped(state, e, res) ==
    CASE state = "RUNNING" /\ res = "error" -> "STOPPED"
      [] state = "RUNNING" /\ res = "zero" /\ e = "read" -> "STOPPED"
      [] state = "RUNNING" -> "IDLE"
      [] state = "CANCELING" /\ res = "error" -> "STOPPED"
      [] OTHER -> state

\* callback_cqe() calls the event's callback only if the completion counts:
\* not while a cancelled event waits for its error, nor once it is stopped.
CallsBack(state, res) ==
    \/ state = "RUNNING"
    \/ state = "CANCELING" /\ res = "error"
=============================================================================
