------------------------------ MODULE AuthBff ------------------------------
(***************************************************************************)
(* C_AUTH_BFF, kernel/c/root-linux/src/c_auth_bff.c, with the C_TASK it    *)
(* creates for each round-trip (c_task.c): a browser's requests wait in a  *)
(* queue; one at a time becomes a task that asks the identity provider     *)
(* (IdP) and hands its reply to the browser.  The next browser comes in    *)
(* through the same gobj.  The endpoints of the IdP may first have to be   *)
(* discovered, by a task of their own.                                     *)
(*                                                                         *)
(* Two timers bound the wait: C_TASK's, armed when the query is sent, and  *)
(* a watchdog of the gobj over the time without a connection to the IdP.   *)
(*                                                                         *)
(* The connection to the IdP (C_PROT_HTTP_CL over C_TCP) is a Connection:  *)
(* stopped, it is "dying" until the loop has stopped its events.  The gobj *)
(* is a record; each handler below is a function of it to its next value.  *)
(***************************************************************************)
EXTENDS Naturals, Sequences

CONSTANTS
    Issuers,        \* endpoints to discover (TRUE), configured, or both
    QueueSize,      \* pending_queue_size
    CloseDelimited, \* the end of its connection may end a reply of the IdP
    LateReplies,    \* the IdP may reply although another query came after
    MaxReqs,        \* bound: requests of the browsers
    MaxBrowsers,    \* bound: connections from browsers
    MaxFaults       \* bound: failures of the IdP and of its connection

ASSUME AuthBffAssumption ==
    /\ Issuers \subseteq BOOLEAN
    /\ QueueSize \in Nat \ {0}
    /\ {CloseDelimited, LateReplies} \subseteq BOOLEAN
    /\ {MaxReqs, MaxBrowsers, MaxFaults} \subseteq Nat

VARIABLES
    bff,        \* the gobj, its task and its connection to the IdP: see Init
    online,     \* a browser is connected
    browser,    \* which one, or was the last
    asker,      \* history: the browser of each request
    answers,    \* history: what was written to browsers, see Answer
    faults      \* how many faults happened

vars == <<bff, online, browser, asker, answers, faults>>

Requests == DOMAIN asker

Discovery == 0              \* the task that discovers, its query and reply
NoTask == MaxReqs + 1       \* no task
Error == MaxReqs + 1        \* an answer that the gobj makes up itself

-----------------------------------------------------------------------------
(* Operators over s, the value of bff, and out, that of answers. *)

\* An answer goes to the browser that is connected now, if one is: the
\* request it is for, the request that the IdP replied to, who gets it.
Answer(out, req, reply) ==
    IF online THEN Append(out, [req |-> req, reply |-> reply, to |-> browser])
    ELSE out

\* Mutant of Execute: the timer is armed only if the query went out.
ExecuteIfSent(s) ==
    IF s.link = "open"
    THEN [s EXCEPT !.execTimer = TRUE, !.atIdp = Append(@, s.task)]
    ELSE s

\* execute_action(): the query goes out if the connection takes it; the
\* timer is armed in any case.
Execute(s) ==
    [s EXCEPT !.execTimer = TRUE,
              !.atIdp = IF s.link = "open" THEN Append(@, s.task) ELSE @]

\* arm_connect_watchdog(), with idp_connect_timeout_ms > 0
ArmWatchdog(s) == IF s.connected THEN s ELSE [s EXCEPT !.watchdog = TRUE]

\* A C_TASK is created and started, and the connection to the IdP with it.
StartTask(s, req) ==
    LET t == [s EXCEPT !.task = req]
        started == IF t.connected THEN Execute(t) ELSE t
    IN  ArmWatchdog([started EXCEPT !.running = TRUE])

\* process_next(), with start_oidc_discovery() and dequeue()
ProcessNext(s) ==
    CASE s.processing \/ s.pending = <<>> -> s
      [] ~s.processing /\ s.pending # <<>> /\ ~s.discovered ->
           IF s.task = Discovery THEN s ELSE StartTask(s, Discovery)
      [] OTHER ->
           StartTask([s EXCEPT !.pending = Tail(@), !.processing = TRUE,
                               !.taskValid = TRUE],
                     Head(s.pending))

\* gobj_stop() of the connection to the IdP
StopIdp(s) ==
    [s EXCEPT !.running = FALSE, !.connected = FALSE,
              !.link = IF @ = "open" THEN "dying" ELSE @]

NoMoreTask(s) ==
    [s EXCEPT !.task = NoTask, !.execTimer = FALSE, !.watchdog = FALSE]

\* Mutant of AfterDiscovery: a failure drops the queue without a word.
DropsQueue(s, out) ==
    IF s.discovered THEN <<ProcessNext(s), out>>
    ELSE <<[s EXCEPT !.pending = <<>>], out>>

\* ac_end_task() of the discovery, with flush_pending_with_error()
AfterDiscovery(s, out) ==
    IF s.discovered THEN <<ProcessNext(s), out>>
    ELSE <<[s EXCEPT !.pending = <<>>],
           IF online
           THEN out \o [i \in DOMAIN s.pending |->
                    [req |-> s.pending[i], reply |-> Error, to |-> browser]]
           ELSE out>>

\* Mutant of AfterRequest: the queue is not looked at.
NobodyNext(s, out, result, req) ==
    <<[s EXCEPT !.processing = FALSE, !.taskValid = FALSE],
      IF result = "timeout" /\ s.taskValid THEN Answer(out, req, Error) ELSE out>>

\* ac_end_task() of a request: one that ends by a timeout (result -2) is
\* answered here, and the connection to the IdP is given up.
AfterRequest(s, out, result, req) ==
    LET late == result = "timeout"
        t == IF late /\ s.connected THEN StopIdp(s) ELSE s
    IN  <<ProcessNext([t EXCEPT !.processing = FALSE, !.taskValid = FALSE]),
          IF late /\ s.taskValid THEN Answer(out, req, Error) ELSE out>>

\* stop_task(): EV_END_TASK, and the task is destroyed.
EndTask(s, out, result) ==
    IF s.task = Discovery THEN AfterDiscovery(NoMoreTask(s), out)
    ELSE AfterRequest(NoMoreTask(s), out, result, s.task)

(***************************************************************************)
(* EV_ON_MESSAGE: whatever the connection delivers is the reply that the   *)
(* task of the moment waits for (c_task.c ac_on_message); its result goes  *)
(* to save_oidc_discovery(), send_token_to_browser() or                    *)
(* send_logout_to_browser().  usable: the reply gives the endpoints.       *)
(***************************************************************************)
OnMessage(s, out, reply, usable) ==
    CASE s.task = NoTask -> <<s, out>>
      [] s.task = Discovery ->
           EndTask([s EXCEPT !.discovered = reply = Discovery /\ usable],
                   out, "ended")
      [] OTHER ->
           EndTask(s,
                   IF s.taskValid THEN Answer(out, s.task, reply) ELSE out,
                   "ended")

Becomes(pair) == bff' = pair[1] /\ answers' = pair[2]

-----------------------------------------------------------------------------

Idle == [pending |-> <<>>, processing |-> FALSE, taskValid |-> FALSE,
         discovered |-> TRUE,
         task |-> NoTask, execTimer |-> FALSE,
         watchdog |-> FALSE,
         running |-> FALSE,     \* the connection to the IdP is started
         connected |-> FALSE,   \* its attribute "connected"
         link |-> "closed",     \* what it has announced
         atIdp |-> <<>>,        \* the queries that the IdP has not answered
         partial |-> FALSE]     \* its reply to the first has begun

\* After mt_create() and mt_start(), which launches the discovery.
Init ==
    /\ \E issuer \in Issuers :
         bff = IF issuer
               THEN StartTask([Idle EXCEPT !.discovered = FALSE], Discovery)
               ELSE Idle
    /\ online = FALSE
    /\ browser = 0
    /\ asker = <<>>
    /\ answers = <<>>
    /\ faults = 0

Fault == faults < MaxFaults /\ faults' = faults + 1

\* EV_ON_OPEN from a browser
BrowserOpens ==
    /\ ~online /\ browser < MaxBrowsers
    /\ online' = TRUE
    /\ browser' = browser + 1
    /\ UNCHANGED <<bff, asker, answers, faults>>

\* Mutant of Full: one request too many.
FullTooLate(s) == Len(s.pending) > QueueSize

Full(s) == Len(s.pending) >= QueueSize

\* EV_ON_MESSAGE from the browser: most errors are answered at once, as are
\* OPTIONS and /auth/token; the rest is queued, if the queue is not full.
BrowserAsks ==
    LET req == Len(asker) + 1
    IN  /\ online /\ Len(asker) < MaxReqs
        /\ asker' = Append(asker, browser)
        /\ \/ Becomes(<<bff, Answer(answers, req, Error)>>)
           \/ /\ Full(bff)
              /\ Becomes(<<bff, Answer(answers, req, Error)>>)
           \/ /\ ~Full(bff)
              /\ Becomes(<<ProcessNext([bff EXCEPT !.pending = Append(@, req)]),
                           answers>>)
        /\ UNCHANGED <<online, browser, faults>>

\* Mutant of Forget: the queue of a browser that left goes on.  The task in
\* flight is stopped; the watchdog stays armed.
ForgetTask(s) ==
    IF s.processing
    THEN [StopIdp(s) EXCEPT !.taskValid = FALSE, !.processing = FALSE,
                            !.task = NoTask, !.execTimer = FALSE]
    ELSE s

\* What a browser that leaves takes along: the queue and the task in flight
Forget(s) == ForgetTask([s EXCEPT !.pending = <<>>])

\* EV_ON_CLOSE from the browser
BrowserCloses ==
    /\ online
    /\ online' = FALSE
    /\ bff' = Forget(bff)
    /\ UNCHANGED <<browser, asker, answers, faults>>

-----------------------------------------------------------------------------
(* The connection to the IdP. *)

\* C_TCP is connected, but for the handshake.
IdpConnects ==
    /\ bff.running /\ bff.link = "closed" /\ ~bff.connected
    /\ bff' = [bff EXCEPT !.connected = TRUE]
    /\ UNCHANGED <<online, browser, asker, answers, faults>>

HandshakeFails ==
    /\ bff.link = "closed" /\ bff.connected
    /\ Fault
    /\ bff' = [bff EXCEPT !.connected = FALSE]
    /\ UNCHANGED <<online, browser, asker, answers>>

\* EV_ON_OPEN from the IdP, to the gobj and then to its task, which sends
\* its query, again if it did so on another connection
IdpOpens ==
    LET s == [bff EXCEPT !.link = "open", !.watchdog = FALSE]
    IN  /\ bff.running /\ bff.link = "closed" /\ bff.connected
        /\ bff' = IF s.task # NoTask THEN Execute(s) ELSE s
        /\ UNCHANGED <<online, browser, asker, answers, faults>>

\* The IdP replies in the order it was asked; to the discovery perhaps with
\* nothing usable.  A discovery that times out leaves its query there.
IdpReplies ==
    /\ bff.link = "open" /\ bff.atIdp # <<>>
    /\ LateReplies \/ Len(bff.atIdp) = 1
    /\ \E usable \in BOOLEAN :
         /\ IF usable THEN UNCHANGED faults
            ELSE Head(bff.atIdp) = Discovery /\ Fault
         /\ Becomes(OnMessage([bff EXCEPT !.atIdp = Tail(@), !.partial = FALSE],
                              answers, Head(bff.atIdp), usable))
    /\ UNCHANGED <<online, browser, asker>>

\* A part of the reply arrives.
ReplyBegins ==
    /\ bff.link = "open" /\ bff.atIdp # <<>>
    /\ bff' = [bff EXCEPT !.partial = TRUE]
    /\ UNCHANGED <<online, browser, asker, answers, faults>>

\* The connection breaks with writes in progress.
IdpDies ==
    /\ bff.link = "open"
    /\ Fault
    /\ bff' = [bff EXCEPT !.link = "dying"]
    /\ UNCHANGED <<online, browser, asker, answers>>

(***************************************************************************)
(* EV_DISCONNECTED: ghttp_parser_finish() ends a reply that had begun and  *)
(* that has no length of its own, and EV_ON_CLOSE follows; with no browser *)
(* the connection is not made again.                                       *)
(***************************************************************************)
IdpCloses ==
    LET s == [bff EXCEPT !.link = "closed", !.connected = FALSE,
                         !.atIdp = <<>>, !.partial = FALSE]
        told == IF bff.partial /\ CloseDelimited
                THEN OnMessage(s, answers, Head(bff.atIdp), TRUE)
                ELSE <<s, answers>>
        stopped == IF ~online /\ told[1].running THEN StopIdp(told[1])
                   ELSE told[1]
    IN  /\ \/ bff.link = "dying" /\ UNCHANGED faults
           \/ bff.link = "open" /\ Fault
        /\ Becomes(<<stopped, told[2]>>)
        /\ UNCHANGED <<online, browser, asker>>

-----------------------------------------------------------------------------
(* The timers. *)

\* EV_TIMEOUT of the task: c_task.c ac_timeout()
ExecTimeout ==
    /\ bff.execTimer
    /\ Becomes(EndTask(bff, answers, "timeout"))
    /\ UNCHANGED <<online, browser, asker, faults>>

\* The watchdog fails the task, if there is one: c_auth_bff.c ac_timeout()
WatchdogTimeout ==
    LET s == [bff EXCEPT !.watchdog = FALSE]
    IN  /\ bff.watchdog
        /\ Becomes(IF s.task = NoTask THEN <<s, answers>>
                   ELSE EndTask(s, answers, "timeout"))
        /\ UNCHANGED <<online, browser, asker, faults>>

Next ==
    \/ BrowserOpens \/ BrowserAsks \/ BrowserCloses
    \/ IdpConnects \/ HandshakeFails \/ IdpOpens
    \/ IdpReplies \/ ReplyBegins \/ IdpDies \/ IdpCloses
    \/ ExecTimeout \/ WatchdogTimeout

Spec == Init /\ [][Next]_vars

\* Timers fire.  Nothing is asked of the IdP, nor of the network.
FairSpec == Spec /\ WF_vars(ExecTimeout) /\ WF_vars(WatchdogTimeout)

-----------------------------------------------------------------------------
(* Properties. *)

Tasks == 0..(MaxReqs + 1)

TypeOK ==
    /\ bff \in [pending : Seq(1..MaxReqs), processing : BOOLEAN,
                taskValid : BOOLEAN, discovered : BOOLEAN, task : Tasks,
                execTimer : BOOLEAN, watchdog : BOOLEAN, running : BOOLEAN,
                connected : BOOLEAN, link : {"closed", "open", "dying"},
                atIdp : Seq(0..MaxReqs), partial : BOOLEAN]
    /\ Len(bff.pending) <= QueueSize
    /\ online \in BOOLEAN
    /\ browser \in 0..MaxBrowsers
    /\ asker \in Seq(1..MaxBrowsers) /\ Len(asker) <= MaxReqs
    /\ answers \in Seq([req : 1..MaxReqs, reply : Tasks, to : 1..MaxBrowsers])
    /\ faults \in 0..MaxFaults

(***************************************************************************)
(* What a browser is told is the answer to a request of its own, and what  *)
(* the IdP replied to that request, whoever was connected when it was      *)
(* asked, timed out or cancelled before (c_auth_bff.c ac_on_close,         *)
(* send_token_to_browser: a reply must not reach another browser).         *)
(***************************************************************************)
AnswersTheAsker ==
    \A i \in DOMAIN answers :
      LET a == answers[i]
      IN  asker[a.req] = a.to /\ a.reply \in {a.req, Error}

(***************************************************************************)
(* A request is answered once, or it waits in the queue or in the task, or *)
(* its browser has left: never two of them and never none (c_auth_bff.c    *)
(* process_next, ac_end_task, flush_pending_with_error).                   *)
(***************************************************************************)
Answered(req) == {i \in DOMAIN answers : answers[i].req = req}

Waiting(req) ==
    {i \in DOMAIN bff.pending : bff.pending[i] = req}
      \cup {0 : t \in {bff.task} \cap {req}}

AnsweredOnce ==
    \A req \in Requests :
      /\ \A i, j \in Answered(req) \cup Waiting(req) : i = j
      /\ Answered(req) = {} \/ Waiting(req) = {}
      /\ online /\ asker[req] = browser => Answered(req) \cup Waiting(req) # {}

(***************************************************************************)
(* No task waits without a timer, whatever became of the connection in     *)
(* the meantime: the watchdog hands over to the task's own timer without a *)
(* gap (c_auth_bff.c arm_connect_watchdog, ac_on_open; c_task.c            *)
(* execute_action).                                                        *)
(***************************************************************************)
TaskIsTimed == bff.task # NoTask => bff.watchdog \/ bff.execTimer

(***************************************************************************)
(* Every request is answered while its browser waits, even if the IdP      *)
(* never connects, never replies or always fails (c_auth_bff.c ac_timeout, *)
(* ac_end_task, process_next).                                             *)
(***************************************************************************)
Owed(req) ==
    /\ req \in Requests /\ Answered(req) = {}
    /\ online /\ browser = asker[req]

EveryoneIsAnswered == \A req \in 1..MaxReqs : Owed(req) ~> ~Owed(req)

=============================================================================
