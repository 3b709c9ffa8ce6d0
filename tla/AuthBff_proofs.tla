--------------------------- MODULE AuthBff_proofs ---------------------------
(***************************************************************************)
(* Proofs about AuthBff: whatever the timers, the connection to the IdP    *)
(* and the browsers do, and in any order, a task has a timer and a request *)
(* is answered exactly once and to the browser that asked.  That the       *)
(* answer is the IdP's to that very request needs more: that nothing but   *)
(* its own end delimits a reply, and that no reply comes after another     *)
(* query (CloseDelimited, LateReplies).                                    *)
(*                                                                         *)
(* As the handlers are functions of the gobj's record, so are the lemmas:  *)
(* each says what a function makes of a sound record.                      *)
(***************************************************************************)
EXTENDS AuthBff, SequenceTheorems, TLAPS

-----------------------------------------------------------------------------
(* The types. *)

Reqs == 1..MaxReqs

Bff == [pending : Seq(Reqs), processing : BOOLEAN,
        taskValid : BOOLEAN, discovered : BOOLEAN, task : Tasks,
        execTimer : BOOLEAN, watchdog : BOOLEAN, running : BOOLEAN,
        connected : BOOLEAN, link : {"closed", "open", "dying"},
        atIdp : Seq(0..MaxReqs), partial : BOOLEAN]

Reply == [req : Reqs, reply : Tasks, to : 1..MaxBrowsers]

\* The task of a request is marked twice, every task has a timer, no timer is
\* without its task, and a reply that has begun is to a query.
Fits(s) ==
    /\ s \in Bff
    /\ Len(s.pending) <= QueueSize
    /\ s.taskValid <=> s.processing
    /\ s.processing <=> s.task \in Reqs
    /\ s.task # NoTask => s.watchdog \/ s.execTimer
    /\ s.execTimer => s.task # NoTask
    /\ s.partial => s.atIdp # <<>>

LEMMA TaskNames ==
  /\ MaxReqs \in Nat /\ MaxBrowsers \in Nat /\ MaxFaults \in Nat
  /\ QueueSize \in Nat \ {0}
  /\ Discovery \in Tasks /\ NoTask \in Tasks /\ Error \in Tasks
  /\ Reqs \subseteq Tasks /\ Reqs \subseteq 0..MaxReqs
  /\ Discovery \notin Reqs /\ NoTask \notin Reqs /\ NoTask # Discovery
  /\ Discovery \in 0..MaxReqs
  /\ \A t \in 0..MaxReqs : t \in Tasks /\ t # NoTask
  /\ \A t \in Tasks : t = Discovery \/ t = NoTask \/ t \in Reqs
BY AuthBffAssumption DEF Discovery, NoTask, Error, Tasks, Reqs

\* What is asked is there.
LEMMA AskedIsThere ==
  ASSUME NEW asked \in Seq(0..MaxReqs), NEW query \in 0..MaxReqs
  PROVE  /\ Append(asked, query) \in Seq(0..MaxReqs)
         /\ Append(asked, query) # <<>>
<1>1. /\ Append(asked, query) \in Seq(0..MaxReqs)
      /\ Len(Append(asked, query)) = Len(asked) + 1
      /\ Len(asked) \in Nat
  BY AppendProperties, LenProperties
<1> QED
  BY <1>1, EmptySeq

-----------------------------------------------------------------------------
(* What the functions of the record do. *)

\* execute_action() arms the timer and asks, if the connection is open.
LEMMA ExecuteDoes ==
  ASSUME NEW s \in Bff, s.task # NoTask
  PROVE  LET r == Execute(s)
         IN  /\ r \in Bff
             /\ r.execTimer
             /\ r.atIdp = IF s.link = "open" THEN Append(s.atIdp, s.task)
                          ELSE s.atIdp
             /\ r = [s EXCEPT !.execTimer = TRUE, !.atIdp = r.atIdp]
<1>1. s.task \in 0..MaxReqs
  BY TaskNames DEF Bff
<1>2. Append(s.atIdp, s.task) \in Seq(0..MaxReqs)
  BY <1>1, AskedIsThere DEF Bff
<1> QED
  BY <1>2 DEF Execute, Bff

\* A task that starts has a timer, the query goes out on an open connection
\* and nothing else of the record changes but that the connection runs.
LEMMA StartTaskDoes ==
  ASSUME NEW s \in Bff, NEW req \in 0..MaxReqs
  PROVE  LET r == StartTask(s, req)
         IN  /\ r \in Bff
             /\ r.task = req /\ r.running
             /\ r.watchdog \/ r.execTimer
             /\ r.atIdp = IF s.connected /\ s.link = "open"
                          THEN Append(s.atIdp, req) ELSE s.atIdp
             /\ r.pending = s.pending
             /\ r.processing = s.processing /\ r.taskValid = s.taskValid
             /\ r.discovered = s.discovered
             /\ r.connected = s.connected /\ r.link = s.link
             /\ r.partial = s.partial
<1> DEFINE t == [s EXCEPT !.task = req]
           started == IF t.connected THEN Execute(t) ELSE t
           going == [started EXCEPT !.running = TRUE]
<1>1. t \in Bff /\ t.task = req /\ req # NoTask
  BY TaskNames DEF Bff
<1>2. started \in Bff
  BY <1>1, ExecuteDoes
<1>3. /\ started.task = req
      /\ s.connected => started.execTimer
      /\ started.atIdp = IF s.connected /\ s.link = "open"
                         THEN Append(s.atIdp, req) ELSE s.atIdp
      /\ started.pending = s.pending
      /\ started.processing = s.processing /\ started.taskValid = s.taskValid
      /\ started.discovered = s.discovered
      /\ started.connected = s.connected /\ started.link = s.link
      /\ started.partial = s.partial
  BY <1>1 DEF Execute, Bff
<1>4. StartTask(s, req) = ArmWatchdog(going)
  BY DEF StartTask
<1> HIDE DEF started
<1>5. /\ going \in Bff /\ going.running
      /\ going.task = started.task /\ going.execTimer = started.execTimer
      /\ going.atIdp = started.atIdp /\ going.pending = started.pending
      /\ going.processing = started.processing
      /\ going.taskValid = started.taskValid
      /\ going.discovered = started.discovered
      /\ going.connected = started.connected /\ going.link = started.link
      /\ going.partial = started.partial
  BY ONLY <1>2 DEF Bff
<1> HIDE DEF going
<1> DEFINE r == ArmWatchdog(going)
<1>6. /\ r \in Bff /\ r.task = going.task /\ r.running = going.running
      /\ r.execTimer = going.execTimer /\ (r.watchdog \/ going.connected)
      /\ r.atIdp = going.atIdp /\ r.pending = going.pending
      /\ r.processing = going.processing /\ r.taskValid = going.taskValid
      /\ r.discovered = going.discovered /\ r.connected = going.connected
      /\ r.link = going.link /\ r.partial = going.partial
  <2>1. CASE going.connected
    BY ONLY <1>5, <2>1 DEF ArmWatchdog
  <2>2. CASE ~going.connected
    <3>1. r = [going EXCEPT !.watchdog = TRUE]
      BY ONLY <2>2 DEF ArmWatchdog
    <3> HIDE DEF r
    <3>2. r \in Bff /\ r.watchdog
      BY ONLY <1>5, <3>1 DEF Bff
    <3> QED
      BY ONLY <1>5, <3>1, <3>2 DEF Bff
  <2> QED
    BY ONLY <2>1, <2>2
<1> HIDE DEF r
<1>7. /\ r \in Bff /\ r.task = req /\ r.running /\ (r.watchdog \/ r.execTimer)
      /\ r.pending = s.pending
      /\ r.processing = s.processing /\ r.taskValid = s.taskValid
      /\ r.discovered = s.discovered
      /\ r.connected = s.connected /\ r.link = s.link
      /\ r.partial = s.partial
  BY ONLY <1>3, <1>5, <1>6
<1>8. r.atIdp = IF s.connected /\ s.link = "open"
                THEN Append(s.atIdp, req) ELSE s.atIdp
  BY <1>3, <1>5, <1>6, Zenon
<1> QED
  BY <1>4, <1>7, <1>8, Zenon DEF r

\* process_next() leaves things as they are, launches the discovery, or makes
\* the head of the queue the task.
LEMMA ProcessNextDoes ==
  ASSUME NEW s, Fits(s)
  PROVE  LET r == ProcessNext(s)
         IN  /\ Fits(r)
             /\ r.discovered = s.discovered
             /\ r.connected = s.connected /\ r.link = s.link
             /\ r.partial = s.partial
             /\ \/ r = s
                \/ /\ ~s.processing /\ ~s.discovered
                   /\ r.task = Discovery /\ r.pending = s.pending
                \/ /\ ~s.processing /\ s.discovered /\ s.pending # <<>>
                   /\ r.task = Head(s.pending) /\ r.pending = Tail(s.pending)
             /\ r = s \/ r.atIdp = IF s.connected /\ s.link = "open"
                                   THEN Append(s.atIdp, r.task) ELSE s.atIdp
<1> DEFINE r == ProcessNext(s)
           t == [s EXCEPT !.pending = Tail(@), !.processing = TRUE,
                          !.taskValid = TRUE]
<1>1. CASE s.processing \/ s.pending = <<>>
  <2>1. r = s
    BY <1>1 DEF ProcessNext
  <2> QED
    BY <2>1
<1>2. CASE ~s.processing /\ s.pending # <<>> /\ ~s.discovered
  <2>1. CASE s.task = Discovery
    BY <1>2, <2>1 DEF ProcessNext
  <2>2. CASE s.task # Discovery
    <3>1. r = StartTask(s, Discovery)
      BY <1>2, <2>2 DEF ProcessNext
    <3> QED
      <4>1. Append(s.atIdp, Discovery) # <<>>
        <5>1. s.atIdp \in Seq(0..MaxReqs)
          BY DEF Fits, Bff
        <5> QED
          BY <5>1, TaskNames, AskedIsThere
      <4>2. /\ r \in Bff
            /\ r.task = Discovery /\ r.pending = s.pending
            /\ r.watchdog \/ r.execTimer
            /\ r.processing = s.processing /\ r.taskValid = s.taskValid
            /\ r.discovered = s.discovered
            /\ r.connected = s.connected /\ r.link = s.link
            /\ r.partial = s.partial
            /\ r.atIdp = IF s.connected /\ s.link = "open"
                         THEN Append(s.atIdp, Discovery) ELSE s.atIdp
        BY <3>1, StartTaskDoes, TaskNames DEF Fits
      <4> HIDE DEF r
      <4>3. Fits(r)
        BY <1>2, <4>1, <4>2, TaskNames DEF Fits
      <4> QED
        BY <1>2, <4>2, <4>3 DEF r
  <2> QED
    BY <2>1, <2>2
<1>3. CASE ~s.processing /\ s.pending # <<>> /\ s.discovered
  <2>1. /\ Head(s.pending) \in Reqs /\ Tail(s.pending) \in Seq(Reqs)
        /\ Len(Tail(s.pending)) <= QueueSize
    <3>1. s.pending \in Seq(Reqs) /\ s.pending # <<>>
      BY <1>3 DEF Fits, Bff
    <3>2. Len(Tail(s.pending)) = Len(s.pending) - 1
      BY <3>1, HeadTailProperties
    <3>3. Len(s.pending) <= QueueSize /\ Len(s.pending) \in Nat
      BY <3>1, LenProperties DEF Fits
    <3> QED
      BY <3>1, <3>2, <3>3, HeadTailProperties, TaskNames
  <2>2. /\ t \in Bff
        /\ t.pending = Tail(s.pending) /\ t.processing /\ t.taskValid
        /\ t.discovered = s.discovered /\ t.atIdp = s.atIdp
        /\ t.connected = s.connected /\ t.link = s.link
        /\ t.partial = s.partial
    BY <2>1 DEF Fits, Bff
  <2>3. r = StartTask(t, Head(s.pending))
    BY <1>3 DEF ProcessNext
  <2>4. Head(s.pending) \in 0..MaxReqs
    BY <2>1, TaskNames
  <2>5. /\ r \in Bff
        /\ r.task = Head(s.pending) /\ r.pending = Tail(s.pending)
        /\ r.watchdog \/ r.execTimer
        /\ r.processing /\ r.taskValid
        /\ r.discovered = s.discovered
        /\ r.connected = s.connected /\ r.link = s.link
        /\ r.partial = s.partial
        /\ r.atIdp = IF s.connected /\ s.link = "open"
                     THEN Append(s.atIdp, r.task) ELSE s.atIdp
    <3> HIDE DEF t, r
    <3> QED
      BY <2>2, <2>3, <2>4, StartTaskDoes
  <2> HIDE DEF r
  <2>6. Fits(r)
    <3>1. Append(s.atIdp, r.task) # <<>>
      BY <2>4, <2>5, AskedIsThere DEF Fits, Bff
    <3>2. r.task # NoTask
      BY <2>4, <2>5, TaskNames
    <3> QED
      BY <2>1, <2>5, <3>1, <3>2 DEF Fits
  <2> QED
    BY <1>3, <2>5, <2>6 DEF r
<1> QED
  BY <1>1, <1>2, <1>3 DEF Fits, Bff

\* The end of a task leaves neither it nor a timer.
LEMMA NoMoreTaskDoes ==
  ASSUME NEW s \in Bff
  PROVE  LET r == NoMoreTask(s)
         IN  /\ r \in Bff
             /\ r.task = NoTask /\ r.pending = s.pending
             /\ ~r.execTimer
             /\ r.processing = s.processing /\ r.taskValid = s.taskValid
             /\ r.discovered = s.discovered
             /\ r.connected = s.connected /\ r.link = s.link
             /\ r.atIdp = s.atIdp /\ r.partial = s.partial
BY TaskNames DEF NoMoreTask, Bff

\* A connection that is stopped is not open; nothing else of the record
\* changes.
LEMMA StopIdpDoes ==
  ASSUME NEW s \in Bff
  PROVE  LET r == StopIdp(s)
         IN  /\ r \in Bff
             /\ r.task = s.task /\ r.pending = s.pending
             /\ r.processing = s.processing /\ r.taskValid = s.taskValid
             /\ r.execTimer = s.execTimer /\ r.watchdog = s.watchdog
             /\ r.discovered = s.discovered
             /\ ~r.connected
             /\ r.link = IF s.link = "open" THEN "dying" ELSE s.link
             /\ r.atIdp = s.atIdp /\ r.partial = s.partial
BY DEF StopIdp, Bff

-----------------------------------------------------------------------------
(***************************************************************************)
(* The ledger: each request is in the queue, in the task or among the      *)
(* answers, at most in one place and there once; the queue and the task    *)
(* are the connected browser's, an answer went to who asked, and none of   *)
(* the connected browser's requests is missing.                            *)
(***************************************************************************)
Places(pending, task, out) ==
    /\ \A i, j \in DOMAIN pending : pending[i] = pending[j] => i = j
    /\ \A i, j \in DOMAIN out : out[i].req = out[j].req => i = j
    /\ \A i \in DOMAIN pending : pending[i] # task
    /\ \A i \in DOMAIN out : out[i].req # task
    /\ \A i \in DOMAIN out, j \in DOMAIN pending : out[i].req # pending[j]

Owners(pending, task, out, on, who, asks) ==
    /\ pending # <<>> \/ task \in Reqs => on
    /\ \A i \in DOMAIN pending :
         pending[i] \in DOMAIN asks /\ asks[pending[i]] = who
    /\ task \in Reqs => task \in DOMAIN asks /\ asks[task] = who
    /\ \A i \in DOMAIN out :
         out[i].req \in DOMAIN asks /\ asks[out[i].req] = out[i].to

\* A request of the browser that is connected is in one of the places.
Kept(pending, task, out, on, who, asks) ==
    on => \A req \in DOMAIN asks :
            asks[req] = who => \/ \E i \in DOMAIN pending : pending[i] = req
                               \/ task = req
                               \/ \E i \in DOMAIN out : out[i].req = req

Ledger(pending, task, out, on, who, asks) ==
    /\ Places(pending, task, out)
    /\ Owners(pending, task, out, on, who, asks)
    /\ Kept(pending, task, out, on, who, asks)

\* The browsers, and who asked what.
Askers(on, who, asks) ==
    /\ on \in BOOLEAN /\ who \in 0..MaxBrowsers
    /\ on => who \in 1..MaxBrowsers
    /\ asks \in Seq(1..MaxBrowsers) /\ Len(asks) <= MaxReqs
    /\ \A req \in DOMAIN asks : asks[req] <= who

LEMMA ReplyFields ==
  ASSUME NEW out \in Seq(Reply), NEW i \in DOMAIN out
  PROVE  /\ out[i].req \in Reqs
         /\ out[i].reply \in Tasks
         /\ out[i].to \in 1..MaxBrowsers
<1>1. out[i] \in Reply
  OBVIOUS
<1> QED
  BY <1>1 DEF Reply

\* What was asked for is a request, of those that are queued too.
LEMMA AskedReqs ==
  ASSUME NEW asks \in Seq(1..MaxBrowsers), Len(asks) <= MaxReqs
  PROVE  DOMAIN asks \subseteq Reqs
<1>1. Len(asks) \in Nat /\ DOMAIN asks = 1..Len(asks) /\ MaxReqs \in Nat
  BY TaskNames, LenProperties
<1> QED
  BY ONLY <1>1, Len(asks) <= MaxReqs DEF Reqs

\* A task that is not a request's is replaced by another.
LEMMA TaskReplaced ==
  ASSUME NEW pending \in Seq(Reqs), NEW out \in Seq(Reply),
         NEW task \in Tasks, task \notin Reqs,
         NEW task2 \in Tasks, task2 \notin Reqs,
         NEW on, NEW who, NEW asks \in Seq(1..MaxBrowsers),
         Len(asks) <= MaxReqs,
         Ledger(pending, task, out, on, who, asks)
  PROVE  Ledger(pending, task2, out, on, who, asks)
<1>1. DOMAIN asks \subseteq Reqs
  BY AskedReqs
<1>2. \A i \in DOMAIN pending : pending[i] \in Reqs
  OBVIOUS
<1>3. \A i \in DOMAIN out : out[i].req \in Reqs
  BY ReplyFields
<1>4. Places(pending, task2, out)
  BY <1>2, <1>3 DEF Ledger, Places
<1>5. Owners(pending, task2, out, on, who, asks)
  BY DEF Ledger, Owners
<1>6. Kept(pending, task2, out, on, who, asks)
  BY <1>1 DEF Ledger, Kept
<1> QED
  BY <1>4, <1>5, <1>6 DEF Ledger

\* The head of the queue becomes the task.
LEMMA HeadTaken ==
  ASSUME NEW pending \in Seq(Reqs), pending # <<>>, NEW out \in Seq(Reply),
         NEW task \in Tasks, task \notin Reqs,
         NEW on, NEW who, NEW asks \in Seq(1..MaxBrowsers),
         Len(asks) <= MaxReqs,
         Ledger(pending, task, out, on, who, asks)
  PROVE  Ledger(Tail(pending), Head(pending), out, on, who, asks)
<1> DEFINE rest == Tail(pending)
<1>1. /\ rest \in Seq(Reqs) /\ Len(rest) = Len(pending) - 1
      /\ \A i \in 1..Len(rest) : rest[i] = pending[i + 1]
      /\ Head(pending) = pending[1]
      /\ Len(pending) \in Nat /\ Len(pending) > 0
  BY HeadTailProperties, LenProperties, EmptySeq
<1> HIDE DEF rest
<1>2. DOMAIN rest = 1..Len(rest) /\ DOMAIN pending = 1..Len(pending)
  BY <1>1, LenProperties
<1>3. /\ 1 \in DOMAIN pending
      /\ \A i \in DOMAIN rest : i + 1 \in DOMAIN pending /\ i + 1 # 1
      /\ \A i \in DOMAIN pending : i # 1 => i - 1 \in DOMAIN rest
  BY <1>1, <1>2
<1>4. /\ \A i \in DOMAIN rest : rest[i] = pending[i + 1]
      /\ \A i \in DOMAIN pending : i # 1 => pending[i] = rest[i - 1]
  BY <1>1, <1>2
<1>5. DOMAIN asks \subseteq Reqs
  BY AskedReqs
<1>6. Places(rest, pending[1], out)
  <2>1. ASSUME NEW i \in DOMAIN rest, NEW j \in DOMAIN rest, rest[i] = rest[j]
        PROVE  i = j
    <3>1. i + 1 = j + 1
      BY <1>3, <1>4, <2>1 DEF Ledger, Places
    <3> QED
      BY <1>2, <3>1
  <2>2. \A i \in DOMAIN rest : rest[i] # pending[1]
    BY <1>3, <1>4 DEF Ledger, Places
  <2> QED
    BY <1>3, <1>4, <2>1, <2>2 DEF Ledger, Places
<1>7. Owners(rest, pending[1], out, on, who, asks)
  BY <1>3, <1>4 DEF Ledger, Owners
<1>8. Kept(rest, pending[1], out, on, who, asks)
  <2>1. \A req \in DOMAIN asks : req # task
    BY <1>5
  <2>2. Kept(pending, task, out, on, who, asks)
    BY DEF Ledger
  <2>3. ASSUME on, NEW req \in DOMAIN asks, asks[req] = who
        PROVE  \/ \E i \in DOMAIN rest : rest[i] = req
               \/ pending[1] = req
               \/ \E i \in DOMAIN out : out[i].req = req
    <3>1. ASSUME NEW i \in DOMAIN pending, pending[i] = req
          PROVE  (\E j \in DOMAIN rest : rest[j] = req) \/ pending[1] = req
      BY ONLY <1>3, <1>4, <3>1
    <3> QED
      BY ONLY <2>1, <2>2, <2>3, <3>1 DEF Kept
  <2> QED
    BY ONLY <2>3 DEF Kept
<1> QED
  BY <1>1, <1>6, <1>7, <1>8 DEF Ledger, rest

\* The task is answered and ends; its browser is connected.
LEMMA TaskAnswered ==
  ASSUME NEW pending \in Seq(Reqs), NEW out \in Seq(Reply),
         NEW task \in Reqs, NEW a \in Reply, a.req = task,
         NEW on, NEW who, NEW asks \in Seq(1..MaxBrowsers), a.to = who,
         Len(asks) <= MaxReqs,
         Ledger(pending, task, out, on, who, asks)
  PROVE  Ledger(pending, NoTask, Append(out, a), on, who, asks)
<1> DEFINE all == Append(out, a)
<1>1. /\ Len(out) \in Nat /\ DOMAIN out = 1..Len(out)
      /\ Len(all) = Len(out) + 1 /\ DOMAIN all = 1..Len(all)
      /\ \A i \in 1..Len(out) : all[i] = out[i]
      /\ all[Len(out) + 1] = a
  BY AppendProperties, LenProperties
<1>2. /\ DOMAIN asks \subseteq Reqs /\ NoTask \notin Reqs
      /\ \A i \in DOMAIN pending : pending[i] \in Reqs
      /\ \A i \in DOMAIN out : out[i].req \in Reqs
  BY TaskNames, AskedReqs, ReplyFields
<1> HIDE DEF all
<1>3. /\ Len(out) + 1 \in DOMAIN all
      /\ \A i \in DOMAIN out : i \in DOMAIN all /\ all[i] = out[i]
      /\ \A i \in DOMAIN all : i \in DOMAIN out \/ i = Len(out) + 1
  BY <1>1
<1>4. Places(pending, NoTask, all)
  <2>1. ASSUME NEW i \in DOMAIN all, NEW j \in DOMAIN all,
               all[i].req = all[j].req
        PROVE  i = j
    BY <1>1, <1>3, <2>1 DEF Ledger, Places
  <2>2. \A i \in DOMAIN all : all[i].req \in Reqs
    BY <1>1, <1>2, <1>3
  <2>3. \A i \in DOMAIN all, j \in DOMAIN pending : all[i].req # pending[j]
    BY <1>1, <1>3 DEF Ledger, Places
  <2> QED
    BY <1>2, <2>1, <2>2, <2>3 DEF Ledger, Places
<1>5. Owners(pending, NoTask, all, on, who, asks)
  BY <1>1, <1>2, <1>3 DEF Ledger, Owners
<1>6. Kept(pending, NoTask, all, on, who, asks)
  BY <1>1, <1>2, <1>3 DEF Ledger, Kept
<1> QED
  BY <1>4, <1>5, <1>6 DEF Ledger, all

\* flush_pending_with_error() answers all that wait.
LEMMA QueueAnswered ==
  ASSUME NEW pending \in Seq(Reqs), NEW out \in Seq(Reply),
         NEW on, NEW who \in 1..MaxBrowsers, NEW asks \in Seq(1..MaxBrowsers),
         Len(asks) <= MaxReqs,
         Ledger(pending, NoTask, out, on, who, asks)
  PROVE  LET errors == [i \in DOMAIN pending |->
                          [req |-> pending[i], reply |-> Error, to |-> who]]
         IN  /\ out \o errors \in Seq(Reply)
             /\ Ledger(<<>>, NoTask, out \o errors, on, who, asks)
<1> DEFINE errors == [i \in DOMAIN pending |->
                        [req |-> pending[i], reply |-> Error, to |-> who]]
           all == out \o errors
<1>1. /\ Len(pending) \in Nat /\ DOMAIN pending = 1..Len(pending)
      /\ Len(out) \in Nat /\ DOMAIN out = 1..Len(out)
  BY LenProperties
<1>2. \A i \in DOMAIN pending :
        [req |-> pending[i], reply |-> Error, to |-> who] \in Reply
  BY TaskNames DEF Reply
<1>3. errors \in Seq(Reply) /\ Len(errors) = Len(pending)
  <2> HIDE DEF Reply
  <2>1. errors \in [1..Len(pending) -> Reply]
    BY <1>1, <1>2
  <2>2. errors \in Seq(Reply)
    BY <1>1, <2>1, SeqDef
  <2>3. DOMAIN errors = 1..Len(pending)
    BY <1>1
  <2> HIDE DEF errors
  <2> QED
    BY <1>1, <2>2, <2>3, LenProperties
<1>4. \A i \in 1..Len(pending) :
        errors[i].req = pending[i] /\ errors[i].to = who
  BY <1>1
<1> HIDE DEF errors
<1>5. /\ all \in Seq(Reply) /\ Len(all) = Len(out) + Len(pending)
      /\ DOMAIN all = 1..Len(all)
      /\ \A i \in 1..Len(all) :
           all[i] = IF i <= Len(out) THEN out[i] ELSE errors[i - Len(out)]
  <2> HIDE DEF Reply
  <2>1. /\ all \in Seq(Reply) /\ Len(all) = Len(out) + Len(errors)
        /\ \A i \in 1..(Len(out) + Len(errors)) :
             all[i] = IF i <= Len(out) THEN out[i] ELSE errors[i - Len(out)]
    BY <1>3, ConcatProperties
  <2>2. DOMAIN all = 1..Len(all)
    BY <2>1, LenProperties
  <2> QED
    BY <1>3, <2>1, <2>2
<1> HIDE DEF all
<1>6. /\ \A i \in DOMAIN out : i \in DOMAIN all /\ all[i] = out[i]
      /\ \A i \in DOMAIN pending :
           i + Len(out) \in DOMAIN all /\ all[i + Len(out)].req = pending[i]
      /\ \A i \in DOMAIN all :
           \/ i \in DOMAIN out /\ all[i] = out[i]
           \/ /\ i - Len(out) \in DOMAIN pending
              /\ all[i].req = pending[i - Len(out)] /\ all[i].to = who
  <2>1. \A i \in DOMAIN out : i \in DOMAIN all /\ all[i] = out[i]
    BY <1>1, <1>5
  <2>2. ASSUME NEW i \in DOMAIN pending
        PROVE  i + Len(out) \in DOMAIN all /\ all[i + Len(out)].req = pending[i]
    <3>1. /\ i + Len(out) \in 1..Len(all) /\ ~(i + Len(out) <= Len(out))
          /\ (i + Len(out)) - Len(out) = i
      BY <1>1, <1>5
    <3> QED
      BY <1>1, <1>4, <1>5, <3>1
  <2>3. ASSUME NEW i \in DOMAIN all, i \notin DOMAIN out
        PROVE  /\ i - Len(out) \in DOMAIN pending
               /\ all[i].req = pending[i - Len(out)] /\ all[i].to = who
    <3>1. i \in 1..Len(all) /\ ~(i <= Len(out)) /\ i - Len(out) \in 1..Len(pending)
      BY <1>1, <1>5, <2>3
    <3> QED
      BY <1>1, <1>4, <1>5, <3>1
  <2> QED
    BY <2>1, <2>2, <2>3
<1>7. /\ DOMAIN asks \subseteq Reqs /\ NoTask \notin Reqs
      /\ \A i \in DOMAIN pending : pending[i] \in Reqs
      /\ \A i \in DOMAIN out : out[i].req \in Reqs
  <2>1. DOMAIN asks \subseteq Reqs
    BY AskedReqs
  <2>2. \A i \in DOMAIN pending : pending[i] \in Reqs
    BY ONLY pending \in Seq(Reqs)
  <2>3. NoTask \notin Reqs
    BY TaskNames
  <2> QED
    BY <2>1, <2>2, <2>3, ReplyFields
<1>8. Places(<<>>, NoTask, all)
  <2>1. ASSUME NEW i \in DOMAIN all, NEW j \in DOMAIN all,
               all[i].req = all[j].req
        PROVE  i = j
    <3>1. i \in Nat /\ j \in Nat
      BY <1>5
    <3>2. CASE i \in DOMAIN out /\ j \in DOMAIN out
      BY <1>6, <2>1, <3>2 DEF Ledger, Places
    <3>3. CASE i \notin DOMAIN out /\ j \notin DOMAIN out
      <4>1. i - Len(out) = j - Len(out)
        BY <1>6, <2>1, <3>3 DEF Ledger, Places
      <4> QED
        BY <1>1, <3>1, <4>1
    <3>4. CASE i \in DOMAIN out /\ j \notin DOMAIN out
      BY <1>6, <2>1, <3>4 DEF Ledger, Places
    <3>5. CASE i \notin DOMAIN out /\ j \in DOMAIN out
      BY <1>6, <2>1, <3>5 DEF Ledger, Places
    <3> QED
      BY <3>2, <3>3, <3>4, <3>5
  <2>2. \A i \in DOMAIN all : all[i].req # NoTask
    BY <1>6, <1>7
  <2> QED
    BY <2>1, <2>2 DEF Places
<1>9. Owners(<<>>, NoTask, all, on, who, asks)
  <2>1. \A i \in DOMAIN all :
          all[i].req \in DOMAIN asks /\ asks[all[i].req] = all[i].to
    BY <1>6 DEF Ledger, Owners
  <2> QED
    BY <1>7, <2>1 DEF Owners
<1>10. Kept(<<>>, NoTask, all, on, who, asks)
  <2>1. ASSUME on, NEW req \in DOMAIN asks, asks[req] = who
        PROVE  \E i \in DOMAIN all : all[i].req = req
    <3>1. \/ \E i \in DOMAIN pending : pending[i] = req
          \/ \E i \in DOMAIN out : out[i].req = req
      <4>1. req # NoTask
        BY <1>7, <2>1
      <4> QED
        BY <2>1, <4>1 DEF Ledger, Kept
    <3>2. ASSUME NEW i \in DOMAIN pending, pending[i] = req
          PROVE  \E j \in DOMAIN all : all[j].req = req
      BY <1>6, <3>2
    <3>3. ASSUME NEW i \in DOMAIN out, out[i].req = req
          PROVE  \E j \in DOMAIN all : all[j].req = req
      BY <1>6, <3>3
    <3> QED
      BY <3>1, <3>2, <3>3
  <2> QED
    BY ONLY <2>1 DEF Kept
<1> QED
  BY <1>5, <1>8, <1>9, <1>10 DEF Ledger, all, errors

\* A request that arrives is the last one.
LEMMA RequestArrives ==
  ASSUME NEW who \in 1..MaxBrowsers, NEW asks \in Seq(1..MaxBrowsers),
         Len(asks) < MaxReqs
  PROVE  LET req == Len(asks) + 1
             more == Append(asks, who)
         IN  /\ more \in Seq(1..MaxBrowsers) /\ Len(more) <= MaxReqs
             /\ req \in Reqs /\ req \notin DOMAIN asks
             /\ DOMAIN more = DOMAIN asks \cup {req}
             /\ more[req] = who
             /\ \A r \in DOMAIN asks : more[r] = asks[r]
<1> DEFINE more == Append(asks, who)
<1>1. /\ Len(asks) \in Nat /\ DOMAIN asks = 1..Len(asks)
      /\ more \in Seq(1..MaxBrowsers) /\ Len(more) = Len(asks) + 1
      /\ DOMAIN more = 1..Len(more)
      /\ \A i \in 1..Len(asks) : more[i] = asks[i]
      /\ more[Len(asks) + 1] = who
  BY AppendProperties, LenProperties
<1> HIDE DEF more
<1> QED
  BY <1>1, TaskNames DEF Reqs, more

\* A request that arrives joins the queue.
LEMMA RequestQueued ==
  ASSUME NEW pending \in Seq(Reqs), NEW out \in Seq(Reply), NEW task \in Tasks,
         NEW on, on, NEW who \in 1..MaxBrowsers,
         NEW asks \in Seq(1..MaxBrowsers), Len(asks) < MaxReqs,
         Ledger(pending, task, out, on, who, asks)
  PROVE  LET req == Len(asks) + 1
         IN  Ledger(Append(pending, req), task, out, on, who, Append(asks, who))
<1> DEFINE req == Len(asks) + 1
           more == Append(asks, who)
           queue == Append(pending, req)
<1>1. /\ req \in Reqs /\ req \notin DOMAIN asks
      /\ DOMAIN more = DOMAIN asks \cup {req}
      /\ more[req] = who
      /\ \A r \in DOMAIN asks : more[r] = asks[r]
  BY RequestArrives
<1>2. /\ Len(pending) \in Nat /\ DOMAIN pending = 1..Len(pending)
      /\ Len(queue) = Len(pending) + 1 /\ DOMAIN queue = 1..Len(queue)
      /\ \A i \in 1..Len(pending) : queue[i] = pending[i]
      /\ queue[Len(pending) + 1] = req
  <2>1. queue \in Seq(Reqs)
    BY <1>1, AppendProperties
  <2> QED
    BY <1>1, <2>1, AppendProperties, LenProperties
<1> HIDE DEF req, more, queue
<1>3. /\ Len(pending) + 1 \in DOMAIN queue /\ queue[Len(pending) + 1] = req
      /\ \A i \in DOMAIN pending : i \in DOMAIN queue /\ queue[i] = pending[i]
      /\ \A i \in DOMAIN queue : i \in DOMAIN pending \/ i = Len(pending) + 1
  BY <1>2
<1>4. /\ \A i \in DOMAIN pending : pending[i] # req
      /\ \A i \in DOMAIN out : out[i].req # req
      /\ task # req
  BY <1>1 DEF Ledger, Owners
<1>5. Places(queue, task, out)
  <2>1. \A i, j \in DOMAIN queue : queue[i] = queue[j] => i = j
    BY <1>3, <1>4 DEF Ledger, Places
  <2>2. \A i \in DOMAIN out, j \in DOMAIN queue : out[i].req # queue[j]
    BY <1>3, <1>4 DEF Ledger, Places
  <2>3. \A i \in DOMAIN queue : queue[i] # task
    BY <1>3, <1>4 DEF Ledger, Places
  <2> QED
    BY <2>1, <2>2, <2>3 DEF Ledger, Places
<1>6. Owners(queue, task, out, on, who, more)
  BY <1>1, <1>3 DEF Ledger, Owners
<1>7. Kept(queue, task, out, on, who, more)
  BY <1>1, <1>3 DEF Ledger, Kept
<1> QED
  BY <1>5, <1>6, <1>7 DEF Ledger, req, more, queue

\* A request that arrives is answered at once.
LEMMA RequestAnswered ==
  ASSUME NEW pending \in Seq(Reqs), NEW out \in Seq(Reply), NEW task \in Tasks,
         NEW on, on, NEW who \in 1..MaxBrowsers,
         NEW asks \in Seq(1..MaxBrowsers), Len(asks) < MaxReqs,
         Ledger(pending, task, out, on, who, asks),
         NEW a \in Reply, a.req = Len(asks) + 1, a.to = who
  PROVE  Ledger(pending, task, Append(out, a), on, who, Append(asks, who))
<1> DEFINE req == Len(asks) + 1
           more == Append(asks, who)
           all == Append(out, a)
<1>1. /\ req \in Reqs /\ req \notin DOMAIN asks
      /\ DOMAIN more = DOMAIN asks \cup {req}
      /\ more[req] = who
      /\ \A r \in DOMAIN asks : more[r] = asks[r]
  BY RequestArrives
<1>2. /\ Len(out) \in Nat /\ DOMAIN out = 1..Len(out)
      /\ Len(all) = Len(out) + 1 /\ DOMAIN all = 1..Len(all)
      /\ \A i \in 1..Len(out) : all[i] = out[i]
      /\ all[Len(out) + 1] = a
  BY AppendProperties, LenProperties
<1>3. a.req = req
  OBVIOUS
<1> HIDE DEF req, more, all
<1>4. /\ Len(out) + 1 \in DOMAIN all
      /\ \A i \in DOMAIN out : i \in DOMAIN all /\ all[i] = out[i]
      /\ \A i \in DOMAIN all : i \in DOMAIN out \/ i = Len(out) + 1
  BY <1>2
<1>5. /\ \A i \in DOMAIN pending : pending[i] # req
      /\ \A i \in DOMAIN out : out[i].req # req
      /\ task # req
  BY <1>1 DEF Ledger, Owners
<1>6. Places(pending, task, all)
  <2>1. \A i, j \in DOMAIN all : all[i].req = all[j].req => i = j
    BY <1>2, <1>3, <1>4, <1>5 DEF Ledger, Places
  <2>2. \A i \in DOMAIN all, j \in DOMAIN pending : all[i].req # pending[j]
    BY <1>2, <1>3, <1>4, <1>5 DEF Ledger, Places
  <2>3. \A i \in DOMAIN all : all[i].req # task
    BY <1>2, <1>3, <1>4, <1>5 DEF Ledger, Places
  <2> QED
    BY <2>1, <2>2, <2>3 DEF Ledger, Places
<1>7. Owners(pending, task, all, on, who, more)
  BY <1>1, <1>2, <1>3, <1>4 DEF Ledger, Owners
<1>8. Kept(pending, task, all, on, who, more)
  BY <1>1, <1>2, <1>3, <1>4 DEF Ledger, Kept
<1> QED
  BY <1>6, <1>7, <1>8 DEF Ledger, more, all

\* A browser that leaves takes the queue and its task along.
LEMMA AllForgotten ==
  ASSUME NEW pending \in Seq(Reqs), NEW out \in Seq(Reply),
         NEW task, NEW task2 \in Tasks, task2 \notin Reqs,
         NEW on, NEW who, NEW asks \in Seq(1..MaxBrowsers),
         Len(asks) <= MaxReqs,
         Ledger(pending, task, out, on, who, asks)
  PROVE  Ledger(<<>>, task2, out, FALSE, who, asks)
<1>1. \A i \in DOMAIN out : out[i].req \in Reqs
  BY ReplyFields
<1> QED
  BY <1>1 DEF Ledger, Places, Owners, Kept

\* The next browser has not asked anything yet.
LEMMA NextBrowser ==
  ASSUME NEW pending \in Seq(Reqs), NEW out \in Seq(Reply), NEW task,
         NEW who \in Nat, NEW asks \in Seq(1..MaxBrowsers),
         \A req \in DOMAIN asks : asks[req] <= who,
         Ledger(pending, task, out, FALSE, who, asks)
  PROVE  Ledger(pending, task, out, TRUE, who + 1, asks)
<1>1. \A req \in DOMAIN asks : asks[req] # who + 1
  <2>1. \A req \in DOMAIN asks : asks[req] \in 1..MaxBrowsers
    BY LenProperties
  <2> QED
    BY <2>1, TaskNames
<1> QED
  BY <1>1 DEF Ledger, Places, Owners, Kept

-----------------------------------------------------------------------------
(* What the handlers keep. *)

Sound(s, out, on, who, asks) ==
    /\ Fits(s)
    /\ out \in Seq(Reply)
    /\ Askers(on, who, asks)
    /\ Ledger(s.pending, s.task, out, on, who, asks)

\* The same for the browsers as they are.
Now(s, out) == Sound(s, out, online, browser, asker)

\* process_next() moves at most the head of the queue to the task.
LEMMA ProcessNextSound ==
  ASSUME NEW s, NEW out, NEW on, NEW who, NEW asks,
         Sound(s, out, on, who, asks)
  PROVE  Sound(ProcessNext(s), out, on, who, asks)
<1> DEFINE r == ProcessNext(s)
<1>1. /\ Fits(s) /\ s.pending \in Seq(Reqs) /\ s.task \in Tasks
      /\ out \in Seq(Reply)
      /\ asks \in Seq(1..MaxBrowsers) /\ Len(asks) <= MaxReqs
      /\ Ledger(s.pending, s.task, out, on, who, asks)
  BY DEF Sound, Fits, Bff, Askers
<1>2. /\ Fits(r)
      /\ \/ r = s
         \/ /\ ~s.processing /\ r.task = Discovery /\ r.pending = s.pending
         \/ /\ ~s.processing /\ s.pending # <<>>
            /\ r.task = Head(s.pending) /\ r.pending = Tail(s.pending)
  BY <1>1, ProcessNextDoes
<1> HIDE DEF r
<1>3. ~s.processing => s.task \notin Reqs
  BY <1>1 DEF Fits
<1>4. Ledger(r.pending, r.task, out, on, who, asks)
  <2>1. CASE r = s
    BY <1>1, <2>1
  <2>2. CASE ~s.processing /\ r.task = Discovery /\ r.pending = s.pending
    BY <1>1, <1>3, <2>2, TaskReplaced, TaskNames
  <2>3. CASE /\ ~s.processing /\ s.pending # <<>>
             /\ r.task = Head(s.pending) /\ r.pending = Tail(s.pending)
    BY <1>1, <1>3, <2>3, HeadTaken
  <2> QED
    BY <1>2, <2>1, <2>2, <2>3
<1> QED
  BY <1>2, <1>4 DEF Sound, r

\* The end of a discovery starts the next task or answers the whole queue.
LEMMA AfterDiscoverySound ==
  ASSUME NEW s, NEW out, Now(s, out), s.task = NoTask
  PROVE  LET p == AfterDiscovery(s, out) IN Now(p[1], p[2])
<1>1. CASE s.discovered
  <2>1. AfterDiscovery(s, out) = <<ProcessNext(s), out>>
    BY <1>1 DEF AfterDiscovery
  <2> QED
    BY <2>1, ProcessNextSound DEF Now
<1>2. CASE ~s.discovered
  <2> DEFINE t == [s EXCEPT !.pending = <<>>]
             errors == [i \in DOMAIN s.pending |->
                         [req |-> s.pending[i], reply |-> Error, to |-> browser]]
  <2>1. /\ s.pending \in Seq(Reqs) /\ out \in Seq(Reply)
        /\ asker \in Seq(1..MaxBrowsers) /\ Len(asker) <= MaxReqs
        /\ Ledger(s.pending, NoTask, out, online, browser, asker)
    BY DEF Now, Sound, Fits, Bff, Askers
  <2>2. Fits(t) /\ t.pending = <<>> /\ t.task = NoTask
    <3>1. t \in Bff
      <4>1. s \in Bff /\ <<>> \in Seq(Reqs)
        BY EmptySeq DEF Now, Sound, Fits
      <4> QED
        BY <4>1 DEF Bff
    <3> QED
      BY <3>1, EmptySeq, TaskNames DEF Now, Sound, Fits, Bff
  <2>3. CASE online
    <3>1. browser \in 1..MaxBrowsers
      BY <2>3 DEF Now, Sound, Askers
    <3>2. /\ out \o errors \in Seq(Reply)
          /\ Ledger(<<>>, NoTask, out \o errors, online, browser, asker)
      BY <2>1, <3>1, QueueAnswered
    <3>3. AfterDiscovery(s, out) = <<t, out \o errors>>
      BY <1>2, <2>3 DEF AfterDiscovery
    <3> HIDE DEF t, errors
    <3> QED
      BY <2>2, <3>2, <3>3 DEF Now, Sound
  <2>4. CASE ~online
    <3>1. s.pending = <<>>
      BY <2>1, <2>4 DEF Ledger, Owners
    <3>2. AfterDiscovery(s, out) = <<t, out>>
      BY <1>2, <2>4 DEF AfterDiscovery
    <3> HIDE DEF t
    <3> QED
      BY <2>1, <2>2, <3>1, <3>2 DEF Now, Sound
  <2> QED
    BY <2>3, <2>4
<1> QED
  BY <1>1, <1>2

\* The end of a request's task, which is answered, starts the next one.
LEMMA RequestEnds ==
  ASSUME NEW s, NEW t \in Bff, NEW out, Now(s, out), s.task \in Reqs,
         t.task = NoTask, t.pending = s.pending,
         ~t.processing, ~t.taskValid, ~t.execTimer,
         t.partial = s.partial, t.atIdp = s.atIdp, NEW reply \in Tasks
  PROVE  Now(ProcessNext(t), Answer(out, s.task, reply))
<1> DEFINE a == [req |-> s.task, reply |-> reply, to |-> browser]
<1>1. /\ s.pending \in Seq(Reqs) /\ out \in Seq(Reply)
      /\ Len(s.pending) <= QueueSize
      /\ asker \in Seq(1..MaxBrowsers) /\ Len(asker) <= MaxReqs
      /\ Ledger(s.pending, s.task, out, online, browser, asker)
  BY DEF Now, Sound, Fits, Bff, Askers
<1>2. online /\ browser \in 1..MaxBrowsers
  BY <1>1 DEF Ledger, Owners, Now, Sound, Askers
<1>3. Answer(out, s.task, reply) = Append(out, a)
  BY <1>2 DEF Answer
<1>4. a \in Reply /\ a.req = s.task /\ a.to = browser
  BY <1>2 DEF Reply
<1>5. Append(out, a) \in Seq(Reply)
  BY <1>1, <1>4, AppendProperties
<1> HIDE DEF a
<1>6. Ledger(s.pending, NoTask, Append(out, a), online, browser, asker)
  BY <1>1, <1>4, TaskAnswered
<1>7. Fits(t)
  BY <1>1, TaskNames DEF Fits, Now, Sound
<1>8. Now(t, Append(out, a))
  BY <1>5, <1>6, <1>7 DEF Now, Sound
<1> QED
  BY <1>3, <1>8, ProcessNextSound DEF Now

\* A task that times out ends, and something else may start.
LEMMA TimeoutSound ==
  ASSUME NEW s, NEW out, Now(s, out), s.task # NoTask
  PROVE  LET p == EndTask(s, out, "timeout") IN Now(p[1], p[2])
<1> DEFINE n == NoMoreTask(s)
<1>1. /\ n \in Bff /\ n.task = NoTask /\ n.pending = s.pending
      /\ n.processing = s.processing /\ n.taskValid = s.taskValid
      /\ ~n.execTimer /\ n.partial = s.partial /\ n.atIdp = s.atIdp
  BY NoMoreTaskDoes DEF Now, Sound, Fits
<1>2. s \in Bff /\ s.task \in Tasks
  BY DEF Now, Sound, Fits, Bff
<1> HIDE DEF n
<1>3. CASE s.task = Discovery
  <2>1. Ledger(n.pending, n.task, out, online, browser, asker)
    BY <1>1, <1>2, <1>3, TaskReplaced, TaskNames
       DEF Now, Sound, Askers, Bff
  <2>2. Fits(n)
    BY <1>1, <1>3, TaskNames DEF Fits, Now, Sound
  <2>3. Now(n, out)
    BY <2>1, <2>2 DEF Now, Sound
  <2>4. EndTask(s, out, "timeout") = AfterDiscovery(n, out)
    BY <1>3 DEF EndTask, n
  <2> QED
    BY <1>1, <2>3, <2>4, AfterDiscoverySound
<1>4. CASE s.task \in Reqs
  <2> DEFINE u == IF n.connected THEN StopIdp(n) ELSE n
             t == [u EXCEPT !.processing = FALSE, !.taskValid = FALSE]
  <2>1. /\ u \in Bff /\ u.task = NoTask /\ u.pending = s.pending
        /\ ~u.execTimer /\ u.partial = s.partial /\ u.atIdp = s.atIdp
    BY <1>1, StopIdpDoes
  <2>2. s.taskValid
    BY <1>4 DEF Now, Sound, Fits
  <2>3. EndTask(s, out, "timeout")
          = <<ProcessNext(t), Answer(out, s.task, Error)>>
    BY <1>1, <1>4, <2>2, TaskNames DEF EndTask, AfterRequest, n
  <2> HIDE DEF u
  <2>4. /\ t \in Bff /\ t.task = NoTask /\ t.pending = s.pending
        /\ ~t.processing /\ ~t.taskValid /\ ~t.execTimer
        /\ t.partial = s.partial /\ t.atIdp = s.atIdp
    BY <2>1 DEF Bff
  <2> HIDE DEF t
  <2> QED
    BY <1>4, <2>3, <2>4, RequestEnds, TaskNames
<1> QED
  BY <1>2, <1>3, <1>4, TaskNames

\* A reply ends the task of the moment, if there is one.
LEMMA OnMessageSound ==
  ASSUME NEW s, NEW out, Now(s, out),
         NEW reply \in 0..MaxReqs, NEW usable \in BOOLEAN
  PROVE  LET p == OnMessage(s, out, reply, usable) IN Now(p[1], p[2])
<1>1. s \in Bff /\ s.task \in Tasks
  BY DEF Now, Sound, Fits, Bff
<1>2. CASE s.task = NoTask
  <2>1. OnMessage(s, out, reply, usable) = <<s, out>>
    BY <1>2, TaskNames DEF OnMessage
  <2> QED
    BY <2>1
<1>3. CASE s.task = Discovery
  <2> DEFINE t == [s EXCEPT !.discovered = reply = Discovery /\ usable]
             n == NoMoreTask(t)
  <2>1. /\ t \in Bff /\ t.task = s.task /\ t.pending = s.pending
        /\ t.processing = s.processing /\ t.taskValid = s.taskValid
        /\ t.partial = s.partial /\ t.atIdp = s.atIdp
    BY <1>1 DEF Bff
  <2>2. OnMessage(s, out, reply, usable) = EndTask(t, out, "ended")
    BY <1>3, TaskNames DEF OnMessage
  <2> HIDE DEF t
  <2>3. /\ n \in Bff /\ n.task = NoTask /\ n.pending = s.pending
        /\ n.processing = s.processing /\ n.taskValid = s.taskValid
        /\ ~n.execTimer /\ n.partial = s.partial /\ n.atIdp = s.atIdp
    BY <2>1, NoMoreTaskDoes
  <2>4. EndTask(t, out, "ended") = AfterDiscovery(n, out)
    BY <1>3, <2>1 DEF EndTask
  <2> HIDE DEF n
  <2>5. Ledger(n.pending, n.task, out, online, browser, asker)
    BY <1>1, <1>3, <2>3, TaskReplaced, TaskNames
       DEF Now, Sound, Askers, Bff
  <2>6. Fits(n)
    BY <1>3, <2>3, TaskNames DEF Fits, Now, Sound
  <2>7. Now(n, out)
    BY <2>5, <2>6 DEF Now, Sound
  <2> QED
    BY <2>2, <2>3, <2>4, <2>7, AfterDiscoverySound
<1>4. CASE s.task \in Reqs
  <2> DEFINE n == NoMoreTask(s)
             t == [n EXCEPT !.processing = FALSE, !.taskValid = FALSE]
             o == Answer(out, s.task, reply)
  <2>1. s.taskValid
    BY <1>4 DEF Now, Sound, Fits
  <2>2. OnMessage(s, out, reply, usable) = EndTask(s, o, "ended")
    BY <1>4, <2>1, TaskNames DEF OnMessage
  <2>3. EndTask(s, o, "ended") = <<ProcessNext(t), o>>
    BY <1>4, TaskNames DEF EndTask, AfterRequest
  <2>4. /\ n \in Bff /\ n.task = NoTask /\ n.pending = s.pending
        /\ ~n.execTimer /\ n.partial = s.partial /\ n.atIdp = s.atIdp
    BY <1>1, NoMoreTaskDoes
  <2> HIDE DEF n
  <2>5. /\ t \in Bff /\ t.task = NoTask /\ t.pending = s.pending
        /\ ~t.processing /\ ~t.taskValid /\ ~t.execTimer
        /\ t.partial = s.partial /\ t.atIdp = s.atIdp
    BY <2>4 DEF Bff
  <2> HIDE DEF t
  <2>6. reply \in Tasks
    BY TaskNames
  <2> QED
    BY <1>4, <2>2, <2>3, <2>5, <2>6, RequestEnds
<1> QED
  BY <1>1, <1>2, <1>3, <1>4, TaskNames

-----------------------------------------------------------------------------
(* The inductive invariant: the record, the browsers and the ledger fit. *)

BffInd ==
    /\ Sound(bff, answers, online, browser, asker)
    /\ faults \in 0..MaxFaults

\* What happens to the connection alone leaves the task and the queue alone.
LEMMA SameTask ==
  ASSUME NEW s, NEW out, NEW on, NEW who, NEW asks,
         Sound(s, out, on, who, asks), NEW t \in Bff,
         t.pending = s.pending, t.task = s.task,
         t.processing = s.processing, t.taskValid = s.taskValid,
         t.execTimer = s.execTimer,
         t.watchdog = s.watchdog \/ t.task = NoTask,
         t.partial => t.atIdp # <<>>
  PROVE  Sound(t, out, on, who, asks)
BY DEF Sound, Fits

\* After mt_start(), with or without a discovery
LEMMA BffIndInit ==
  ASSUME Init
  PROVE  BffInd
<1>1. /\ Idle \in Bff /\ Idle.pending = <<>> /\ Idle.task = NoTask
      /\ ~Idle.processing /\ ~Idle.taskValid /\ ~Idle.execTimer
      /\ ~Idle.partial
  BY TaskNames, EmptySeq DEF Idle, Bff
<1> DEFINE d == [Idle EXCEPT !.discovered = FALSE]
<1>2. /\ d \in Bff /\ d.pending = <<>> /\ d.task = NoTask
      /\ ~d.processing /\ ~d.taskValid /\ ~d.execTimer
      /\ ~d.partial
  BY <1>1 DEF Bff
<1> HIDE DEF d
<1>3. bff = Idle \/ bff = StartTask(d, Discovery)
  BY DEF Init, d
<1>4. /\ bff \in Bff /\ bff.pending = <<>>
      /\ bff.task = NoTask \/ bff.task = Discovery
      /\ ~bff.processing /\ ~bff.taskValid /\ ~bff.partial
      /\ bff.task # NoTask => bff.watchdog \/ bff.execTimer
      /\ bff.execTimer => bff.task # NoTask
  <2>1. CASE bff = Idle
    BY <1>1, <2>1
  <2>2. CASE bff = StartTask(d, Discovery)
    BY <1>2, <2>2, StartTaskDoes, TaskNames
  <2> QED
    BY <1>3, <2>1, <2>2
<1>5. Fits(bff)
  BY <1>4, EmptySeq, TaskNames DEF Fits
<1>6. /\ answers = <<>> /\ asker = <<>> /\ browser = 0
      /\ ~online /\ online \in BOOLEAN
  BY DEF Init
<1>7. /\ answers \in Seq(Reply)
      /\ asker \in Seq(1..MaxBrowsers) /\ Len(asker) = 0
      /\ DOMAIN asker = {} /\ DOMAIN answers = {} /\ DOMAIN bff.pending = {}
  <2>1. /\ <<>> \in Seq(Reply) /\ <<>> \in Seq(1..MaxBrowsers)
        /\ Len(<<>>) = 0
    BY EmptySeq
  <2>2. DOMAIN <<>> = {}
    OBVIOUS
  <2> QED
    BY <1>4, <1>6, <2>1, <2>2
<1>8. Askers(online, browser, asker)
  BY <1>6, <1>7, TaskNames DEF Askers
<1>9. Ledger(bff.pending, bff.task, answers, online, browser, asker)
  BY <1>4, <1>6, <1>7, TaskNames DEF Ledger, Places, Owners, Kept
<1>10. faults \in 0..MaxFaults
  BY TaskNames DEF Init
<1> QED
  BY <1>5, <1>7, <1>8, <1>9, <1>10 DEF BffInd, Sound

\* What the actions find.
LEMMA BffIndGives ==
  ASSUME BffInd
  PROVE  /\ Now(bff, answers)
         /\ bff \in Bff /\ Fits(bff)
         /\ answers \in Seq(Reply)
         /\ Askers(online, browser, asker)
         /\ Ledger(bff.pending, bff.task, answers, online, browser, asker)
BY DEF BffInd, Now, Sound, Fits

\* A browser comes in when there is none.
LEMMA BrowserOpensKeeps ==
  ASSUME BffInd, BrowserOpens
  PROVE  Sound(bff, answers, TRUE, browser + 1, asker)
<1>1. /\ bff.pending \in Seq(Reqs) /\ answers \in Seq(Reply)
      /\ browser \in Nat /\ asker \in Seq(1..MaxBrowsers)
      /\ \A req \in DOMAIN asker : asker[req] <= browser
      /\ online = FALSE /\ browser < MaxBrowsers
  BY TaskNames DEF BffInd, Sound, Fits, Bff, Askers, BrowserOpens
<1>2. Ledger(bff.pending, bff.task, answers, TRUE, browser + 1, asker)
  BY <1>1, NextBrowser DEF BffInd, Sound
<1>3. Askers(TRUE, browser + 1, asker)
  <2>1. \A req \in DOMAIN asker : asker[req] \in 1..MaxBrowsers
    BY <1>1, LenProperties
  <2> QED
    BY <1>1, <2>1, TaskNames DEF BffInd, Sound, Askers
<1> QED
  BY <1>2, <1>3 DEF BffInd, Sound

\* A request is answered at once, or joins the queue.
LEMMA BrowserAsksKeeps ==
  ASSUME BffInd, BrowserAsks
  PROVE  Sound(bff', answers', online, browser, asker')
<1> DEFINE req == Len(asker) + 1
           more == Append(asker, browser)
<1>1. /\ online /\ browser \in 1..MaxBrowsers
      /\ asker \in Seq(1..MaxBrowsers) /\ Len(asker) < MaxReqs
      /\ bff.pending \in Seq(Reqs) /\ answers \in Seq(Reply)
      /\ bff.task \in Tasks
      /\ Ledger(bff.pending, bff.task, answers, online, browser, asker)
  BY DEF BffInd, Sound, Fits, Bff, Askers, BrowserAsks
<1>2. /\ more \in Seq(1..MaxBrowsers) /\ Len(more) <= MaxReqs
      /\ req \in Reqs
      /\ DOMAIN more = DOMAIN asker \cup {req}
      /\ more[req] = browser
      /\ \A r \in DOMAIN asker : more[r] = asker[r]
  BY <1>1, RequestArrives
<1>3. asker' = more
  BY DEF BrowserAsks
<1>4. Askers(online, browser, more)
  <2>1. \A r \in DOMAIN more : more[r] <= browser
    <3>1. browser <= browser
      BY <1>1
    <3> QED
      BY <1>2, <3>1 DEF BffInd, Sound, Askers
  <2> QED
    BY <1>1, <1>2, <2>1 DEF BffInd, Sound, Askers
<1>5. CASE Becomes(<<bff, Answer(answers, req, Error)>>)
  <2> DEFINE a == [req |-> req, reply |-> Error, to |-> browser]
  <2>1. a \in Reply /\ a.req = req /\ a.to = browser
    BY <1>1, <1>2, TaskNames DEF Reply
  <2>2. bff' = bff /\ answers' = Append(answers, a)
    BY <1>1, <1>5 DEF Becomes, Answer
  <2> HIDE DEF a
  <2>3. Append(answers, a) \in Seq(Reply)
    BY <1>1, <2>1, AppendProperties
  <2>4. Ledger(bff.pending, bff.task, Append(answers, a), online, browser, more)
    BY <1>1, <2>1, RequestAnswered
  <2> HIDE DEF more
  <2> QED
    BY <1>3, <1>4, <2>2, <2>3, <2>4 DEF BffInd, Sound
<1>6. CASE /\ ~Full(bff)
           /\ Becomes(<<ProcessNext([bff EXCEPT !.pending = Append(@, req)]),
                        answers>>)
  <2> DEFINE t == [bff EXCEPT !.pending = Append(@, req)]
  <2>1. /\ Append(bff.pending, req) \in Seq(Reqs)
        /\ Len(Append(bff.pending, req)) = Len(bff.pending) + 1
    BY <1>1, <1>2, AppendProperties
  <2>2. Len(bff.pending) < QueueSize
    <3>1. Len(bff.pending) \in Nat
      BY <1>1, LenProperties
    <3> QED
      BY <1>6, <3>1, TaskNames DEF Full
  <2>3. t \in Bff /\ Len(t.pending) <= QueueSize
    <3>1. Len(bff.pending) \in Nat
      BY <1>1, LenProperties
    <3>2. bff \in Bff
      BY BffIndGives
    <3>3. t \in Bff /\ t.pending = Append(bff.pending, req)
      BY <2>1, <3>2 DEF Bff
    <3> QED
      BY <2>1, <2>2, <3>1, <3>3, TaskNames
  <2>4. /\ t.pending = Append(bff.pending, req) /\ t.task = bff.task
        /\ t.processing = bff.processing /\ t.taskValid = bff.taskValid
        /\ t.execTimer = bff.execTimer /\ t.watchdog = bff.watchdog
        /\ t.partial = bff.partial /\ t.atIdp = bff.atIdp
    BY DEF BffInd, Sound, Fits, Bff
  <2>5. bff' = ProcessNext(t) /\ answers' = answers
    BY <1>6 DEF Becomes
  <2> HIDE DEF t
  <2>6. Fits(t)
    BY <2>3, <2>4 DEF BffInd, Sound, Fits
  <2>7. Ledger(t.pending, t.task, answers, online, browser, more)
    BY <1>1, <2>4, RequestQueued
  <2> HIDE DEF more
  <2>8. Sound(t, answers, online, browser, more)
    BY <1>1, <1>4, <2>6, <2>7 DEF Sound
  <2> QED
    BY <1>3, <2>5, <2>8, ProcessNextSound
<1> QED
  BY <1>5, <1>6 DEF BrowserAsks

\* A browser leaves and takes its requests along.
LEMMA BrowserClosesKeeps ==
  ASSUME BffInd, BrowserCloses
  PROVE  Sound(bff', answers, FALSE, browser, asker)
<1> DEFINE s == [bff EXCEPT !.pending = <<>>]
<1>1. /\ s \in Bff /\ s.pending = <<>> /\ s.task = bff.task
      /\ s.processing = bff.processing /\ s.taskValid = bff.taskValid
      /\ s.execTimer = bff.execTimer /\ s.watchdog = bff.watchdog
      /\ s.partial = bff.partial /\ s.atIdp = bff.atIdp
  <2>1. bff \in Bff /\ <<>> \in Seq(Reqs)
    BY BffIndGives, EmptySeq
  <2> QED
    BY <2>1 DEF Bff
<1>2. bff' = ForgetTask(s)
  BY DEF BrowserCloses, Forget
<1> HIDE DEF s
<1>3. Fits(bff') /\ bff'.pending = <<>> /\ bff'.task \in Tasks \ Reqs
  <2>1. CASE s.processing
    <3> DEFINE t == StopIdp(s)
    <3>1. /\ t \in Bff /\ t.pending = <<>>
          /\ t.partial = bff.partial /\ t.atIdp = bff.atIdp
      BY <1>1, StopIdpDoes
    <3>2. bff' = [t EXCEPT !.taskValid = FALSE, !.processing = FALSE,
                           !.task = NoTask, !.execTimer = FALSE]
      BY <1>2, <2>1 DEF ForgetTask
    <3> HIDE DEF t
    <3>3. /\ bff' \in Bff /\ bff'.pending = <<>> /\ bff'.task = NoTask
          /\ ~bff'.taskValid /\ ~bff'.processing /\ ~bff'.execTimer
          /\ bff'.partial = bff.partial /\ bff'.atIdp = bff.atIdp
      BY <3>1, <3>2, TaskNames DEF Bff
    <3>4. Len(<<>>) <= QueueSize
      BY EmptySeq, TaskNames
    <3> QED
      BY <3>3, <3>4, TaskNames, BffIndGives DEF Fits
  <2>2. CASE ~s.processing
    <3>1. bff' = s
      BY <1>2, <2>2 DEF ForgetTask
    <3>2. Fits(s)
      <4>1. Len(<<>>) <= QueueSize
        BY EmptySeq, TaskNames
      <4> QED
        BY <1>1, <4>1, BffIndGives DEF Fits
    <3>3. s.task \in Tasks \ Reqs
      BY <1>1, <2>2, BffIndGives DEF Fits, Bff
    <3> QED
      BY <1>1, <3>1, <3>2, <3>3
  <2> QED
    BY <2>1, <2>2
<1>4. Ledger(bff'.pending, bff'.task, answers, FALSE, browser, asker)
  <2>1. /\ bff.pending \in Seq(Reqs)
        /\ asker \in Seq(1..MaxBrowsers) /\ Len(asker) <= MaxReqs
    BY DEF BffInd, Sound, Fits, Bff, Askers
  <2> QED
    BY <1>3, <2>1, BffIndGives, AllForgotten
<1> QED
  BY <1>3, <1>4 DEF BffInd, Sound, Askers

\* The IdP opens the connection, and the task, if there is one, asks.
LEMMA IdpOpensKeeps ==
  ASSUME BffInd, IdpOpens
  PROVE  Now(bff', answers)
<1> DEFINE s == [bff EXCEPT !.link = "open", !.watchdog = FALSE]
<1>1. /\ s \in Bff /\ s.pending = bff.pending /\ s.task = bff.task
      /\ s.processing = bff.processing /\ s.taskValid = bff.taskValid
      /\ s.execTimer = bff.execTimer
      /\ s.partial = bff.partial /\ s.atIdp = bff.atIdp
  BY BffIndGives DEF Bff
<1>2. bff' = IF s.task # NoTask THEN Execute(s) ELSE s
  BY DEF IdpOpens
<1> HIDE DEF s
<1>3. CASE s.task # NoTask
  <2>1. /\ bff' \in Bff /\ bff'.execTimer
        /\ bff'.atIdp = s.atIdp \/ bff'.atIdp = Append(s.atIdp, s.task)
        /\ bff' = [s EXCEPT !.execTimer = TRUE, !.atIdp = bff'.atIdp]
    BY <1>1, <1>2, <1>3, ExecuteDoes
  <2>2. /\ bff'.pending = s.pending /\ bff'.task = s.task
        /\ bff'.processing = s.processing /\ bff'.taskValid = s.taskValid
        /\ bff'.partial = s.partial
    BY <1>1, <2>1 DEF Bff
  <2>3. Append(s.atIdp, s.task) # <<>>
    <3>1. s.task \in 0..MaxReqs
      BY <1>1, <1>3, TaskNames DEF Bff
    <3>2. s.atIdp \in Seq(0..MaxReqs)
      BY <1>1 DEF Bff
    <3> QED
      BY <3>1, <3>2, AskedIsThere
  <2> QED
    BY <1>1, <1>3, <2>1, <2>2, <2>3 DEF BffInd, Now, Sound, Fits
<1>4. CASE s.task = NoTask
  BY <1>1, <1>2, <1>4 DEF BffInd, Now, Sound, Fits
<1> QED
  BY <1>3, <1>4

\* A reply ends the task of the moment.
LEMMA IdpRepliesKeeps ==
  ASSUME BffInd, IdpReplies
  PROVE  Now(bff', answers')
<1> DEFINE s == [bff EXCEPT !.atIdp = Tail(@), !.partial = FALSE]
<1>1. bff.atIdp \in Seq(0..MaxReqs) /\ bff.atIdp # <<>>
  BY BffIndGives DEF IdpReplies, Bff
<1>2. Head(bff.atIdp) \in 0..MaxReqs /\ Tail(bff.atIdp) \in Seq(0..MaxReqs)
  BY <1>1, HeadTailProperties
<1>3. /\ s \in Bff /\ s.pending = bff.pending /\ s.task = bff.task
      /\ s.processing = bff.processing /\ s.taskValid = bff.taskValid
      /\ s.execTimer = bff.execTimer /\ s.watchdog = bff.watchdog
      /\ ~s.partial
  BY <1>2, BffIndGives DEF Bff
<1>4. PICK usable \in BOOLEAN :
        Becomes(OnMessage(s, answers, Head(bff.atIdp), usable))
  BY DEF IdpReplies
<1> HIDE DEF s
<1>5. Now(s, answers)
  BY <1>3, BffIndGives, SameTask DEF Now
<1> QED
  BY <1>2, <1>4, <1>5, OnMessageSound DEF Becomes

\* The end of the connection may end a reply, and with no browser the
\* connection stops.
LEMMA IdpClosesKeeps ==
  ASSUME BffInd, IdpCloses
  PROVE  Now(bff', answers')
<1> DEFINE s == [bff EXCEPT !.link = "closed", !.connected = FALSE,
                            !.atIdp = <<>>, !.partial = FALSE]
           told == IF bff.partial /\ CloseDelimited
                   THEN OnMessage(s, answers, Head(bff.atIdp), TRUE)
                   ELSE <<s, answers>>
           t == told[1]
<1>1. /\ s \in Bff /\ s.pending = bff.pending /\ s.task = bff.task
      /\ s.processing = bff.processing /\ s.taskValid = bff.taskValid
      /\ s.execTimer = bff.execTimer /\ s.watchdog = bff.watchdog
      /\ ~s.partial
  <2>1. bff \in Bff /\ <<>> \in Seq(0..MaxReqs)
    BY BffIndGives, EmptySeq
  <2> QED
    BY <2>1 DEF Bff
<1>2. /\ bff' = IF ~online /\ t.running THEN StopIdp(t) ELSE t
      /\ answers' = told[2]
  BY DEF IdpCloses, Becomes
<1> HIDE DEF s
<1>3. Now(s, answers)
  BY <1>1, BffIndGives, SameTask DEF Now
<1>4. Now(t, told[2])
  <2>1. CASE bff.partial /\ CloseDelimited
    <3>1. bff.atIdp \in Seq(0..MaxReqs) /\ bff.atIdp # <<>>
      BY <2>1, BffIndGives DEF Fits, Bff
    <3>2. Head(bff.atIdp) \in 0..MaxReqs
      BY <3>1, HeadTailProperties
    <3> QED
      BY <1>3, <2>1, <3>2, OnMessageSound
  <2>2. CASE ~(bff.partial /\ CloseDelimited)
    BY <1>3, <2>2
  <2> QED
    BY <2>1, <2>2
<1> HIDE DEF told
<1>5. Now(StopIdp(t), told[2])
  <2>1. t \in Bff /\ t.partial => t.atIdp # <<>>
    BY <1>4 DEF Now, Sound, Fits
  <2> QED
    BY <1>4, <2>1, StopIdpDoes, SameTask DEF Now, Sound, Fits
<1> QED
  BY <1>2, <1>4, <1>5

\* Every step keeps the invariant.
LEMMA BffIndNext ==
  ASSUME BffInd, [Next]_vars
  PROVE  BffInd'
<1> USE BffIndGives
<1>1. faults' \in 0..MaxFaults
  <2>1. faults \in 0..MaxFaults /\ MaxFaults \in Nat
    BY TaskNames DEF BffInd
  <2>2. faults' = faults \/ Fault
    BY DEF Next, BrowserOpens, BrowserAsks, BrowserCloses, IdpConnects,
           HandshakeFails, IdpOpens, IdpReplies, ReplyBegins, IdpDies,
           IdpCloses, ExecTimeout, WatchdogTimeout, vars
  <2> QED
    BY <2>1, <2>2 DEF Fault
<1>2. Sound(bff', answers', online', browser', asker')
  <2>1. CASE BrowserOpens
    BY <2>1, BrowserOpensKeeps DEF BrowserOpens
  <2>2. CASE BrowserAsks
    BY <2>2, BrowserAsksKeeps DEF BrowserAsks
  <2>3. CASE BrowserCloses
    BY <2>3, BrowserClosesKeeps DEF BrowserCloses
  <2>4. CASE IdpConnects
    <3>1. /\ bff' = [bff EXCEPT !.connected = TRUE]
          /\ UNCHANGED <<online, browser, asker, answers>>
      BY <2>4 DEF IdpConnects
    <3>2. /\ bff' \in Bff /\ bff'.pending = bff.pending
          /\ bff'.task = bff.task /\ bff'.processing = bff.processing
          /\ bff'.taskValid = bff.taskValid
          /\ bff'.execTimer = bff.execTimer /\ bff'.watchdog = bff.watchdog
          /\ bff'.partial = bff.partial /\ bff'.atIdp = bff.atIdp
      BY <3>1 DEF Bff
    <3> QED
      BY <3>1, <3>2, SameTask DEF BffInd, Fits
  <2>5. CASE HandshakeFails
    <3>1. /\ bff' = [bff EXCEPT !.connected = FALSE]
          /\ UNCHANGED <<online, browser, asker, answers>>
      BY <2>5 DEF HandshakeFails
    <3>2. /\ bff' \in Bff /\ bff'.pending = bff.pending
          /\ bff'.task = bff.task /\ bff'.processing = bff.processing
          /\ bff'.taskValid = bff.taskValid
          /\ bff'.execTimer = bff.execTimer /\ bff'.watchdog = bff.watchdog
          /\ bff'.partial = bff.partial /\ bff'.atIdp = bff.atIdp
      BY <3>1 DEF Bff
    <3> QED
      BY <3>1, <3>2, SameTask DEF BffInd, Fits
  <2>6. CASE IdpOpens
    BY <2>6, IdpOpensKeeps DEF IdpOpens, Now
  <2>7. CASE IdpReplies
    BY <2>7, IdpRepliesKeeps DEF IdpReplies, Now
  <2>8. CASE ReplyBegins
    <3>1. /\ bff' = [bff EXCEPT !.partial = TRUE] /\ bff.atIdp # <<>>
          /\ UNCHANGED <<online, browser, asker, answers>>
      BY <2>8 DEF ReplyBegins
    <3>2. /\ bff' \in Bff /\ bff'.pending = bff.pending
          /\ bff'.task = bff.task /\ bff'.processing = bff.processing
          /\ bff'.taskValid = bff.taskValid
          /\ bff'.execTimer = bff.execTimer /\ bff'.watchdog = bff.watchdog
          /\ bff'.atIdp = bff.atIdp
      BY <3>1 DEF Bff
    <3> QED
      BY <3>1, <3>2, SameTask DEF BffInd
  <2>9. CASE IdpDies
    <3>1. /\ bff' = [bff EXCEPT !.link = "dying"]
          /\ UNCHANGED <<online, browser, asker, answers>>
      BY <2>9 DEF IdpDies
    <3>2. /\ bff' \in Bff /\ bff'.pending = bff.pending
          /\ bff'.task = bff.task /\ bff'.processing = bff.processing
          /\ bff'.taskValid = bff.taskValid
          /\ bff'.execTimer = bff.execTimer /\ bff'.watchdog = bff.watchdog
          /\ bff'.partial = bff.partial /\ bff'.atIdp = bff.atIdp
      BY <3>1 DEF Bff
    <3> QED
      BY <3>1, <3>2, SameTask DEF BffInd, Fits
  <2>10. CASE IdpCloses
    BY <2>10, IdpClosesKeeps DEF IdpCloses, Now
  <2>11. CASE ExecTimeout
    <3>1. bff.task # NoTask
      BY <2>11 DEF ExecTimeout, Fits
    <3>2. Now(bff', answers')
      BY <2>11, <3>1, TimeoutSound DEF ExecTimeout, Becomes
    <3> QED
      BY <2>11, <3>2 DEF ExecTimeout, Now
  <2>12. CASE WatchdogTimeout
    <3> DEFINE s == [bff EXCEPT !.watchdog = FALSE]
    <3>1. CASE bff.task = NoTask
      <4>1. bff' = s /\ answers' = answers /\ s.task = NoTask
        BY <2>12, <3>1 DEF WatchdogTimeout, Becomes, Bff
      <4>2. /\ s \in Bff /\ s.pending = bff.pending
            /\ s.task = bff.task /\ s.processing = bff.processing
            /\ s.taskValid = bff.taskValid /\ s.execTimer = bff.execTimer
            /\ s.partial = bff.partial /\ s.atIdp = bff.atIdp
        BY DEF Bff
      <4> HIDE DEF s
      <4>3. Sound(s, answers, online, browser, asker)
        BY <3>1, <4>2, SameTask DEF BffInd, Fits
      <4> QED
        BY <2>12, <4>1, <4>3 DEF WatchdogTimeout
    <3>2. CASE bff.task # NoTask
      <4>1. Becomes(EndTask(s, answers, "timeout"))
        BY <2>12, <3>2 DEF WatchdogTimeout, Bff
      <4>2. NoMoreTask(s) = NoMoreTask(bff) /\ s.task = bff.task
        BY DEF NoMoreTask, Bff
      <4> HIDE DEF s
      <4>3. Becomes(EndTask(bff, answers, "timeout"))
        BY <4>1, <4>2 DEF EndTask
      <4>4. Now(bff', answers')
        BY <3>2, <4>3, TimeoutSound DEF Becomes
      <4> QED
        BY <2>12, <4>4 DEF WatchdogTimeout, Now
    <3> QED
      BY <3>1, <3>2
  <2>13. CASE UNCHANGED vars
    BY <2>13 DEF vars, BffInd
  <2> QED
    BY <2>1, <2>2, <2>3, <2>4, <2>5, <2>6, <2>7, <2>8, <2>9, <2>10, <2>11,
       <2>12, <2>13 DEF Next
<1> QED
  BY <1>1, <1>2 DEF BffInd

\* The record, the browsers and the ledger fit, whatever happens.
THEOREM BffInvariants == Spec => []BffInd
<1>1. Init => BffInd
  BY BffIndInit
<1>2. BffInd /\ [Next]_vars => BffInd'
  BY BffIndNext
<1> QED
  BY <1>1, <1>2, PTL DEF Spec

(***************************************************************************)
(* What c_auth_bff.c and c_task.c keep in memory has its type, and the     *)
(* queue keeps to its limit (c_auth_bff.c enqueue, process_next).          *)
(***************************************************************************)
THEOREM BffTypes == Spec => []TypeOK
<1>1. BffInd => TypeOK
  <2> SUFFICES ASSUME BffInd PROVE TypeOK
    OBVIOUS
  <2>1. /\ bff \in Bff /\ Len(bff.pending) <= QueueSize
        /\ answers \in Seq(Reply) /\ faults \in 0..MaxFaults
        /\ Askers(online, browser, asker)
    BY DEF BffInd, Sound, Fits
  <2> QED
    BY <2>1 DEF TypeOK, Bff, Reply, Reqs, Askers
<1> QED
  BY <1>1, BffInvariants, PTL

(***************************************************************************)
(* No task waits without a timer: the watchdog hands over to the task's    *)
(* own timer without a gap (c_auth_bff.c ac_on_open, c_task.c              *)
(* execute_action).                                                        *)
(***************************************************************************)
THEOREM BffTaskIsTimed == Spec => []TaskIsTimed
<1>1. BffInd => TaskIsTimed
  BY DEF BffInd, Sound, Fits, TaskIsTimed
<1> QED
  BY <1>1, BffInvariants, PTL

(***************************************************************************)
(* Each request is answered once, or waits, or its browser has left: in    *)
(* every order of replies, timeouts, closes and browsers (c_auth_bff.c     *)
(* process_next, ac_end_task, flush_pending_with_error, ac_on_close).      *)
(***************************************************************************)
THEOREM BffAnswersOnce == Spec => []AnsweredOnce
<1>1. BffInd => AnsweredOnce
  <2> SUFFICES ASSUME BffInd, NEW req \in Requests
               PROVE  /\ \A i, j \in Answered(req) \cup Waiting(req) : i = j
                      /\ Answered(req) = {} \/ Waiting(req) = {}
                      /\ online /\ asker[req] = browser
                           => Answered(req) \cup Waiting(req) # {}
    BY DEF AnsweredOnce
  <2>1. /\ Places(bff.pending, bff.task, answers)
        /\ Kept(bff.pending, bff.task, answers, online, browser, asker)
    BY DEF BffInd, Sound, Ledger
  <2>2. Answered(req) = {i \in DOMAIN answers : answers[i].req = req}
    BY DEF Answered
  <2>3. /\ \A x \in Waiting(req) :
             \/ x \in DOMAIN bff.pending /\ bff.pending[x] = req
             \/ x = 0 /\ bff.task = req
        /\ \A x \in DOMAIN bff.pending : bff.pending[x] = req => x \in Waiting(req)
        /\ bff.task = req => 0 \in Waiting(req)
    BY DEF Waiting
  <2>4. Answered(req) = {} \/ Waiting(req) = {}
    BY <2>1, <2>2, <2>3 DEF Places
  <2>5. \A i, j \in Answered(req) : i = j
    BY <2>1, <2>2 DEF Places
  <2>6. \A i, j \in Waiting(req) : i = j
    BY <2>1, <2>3 DEF Places
  <2>7. online /\ asker[req] = browser => Answered(req) \cup Waiting(req) # {}
    <3>1. req \in DOMAIN asker
      BY DEF Requests
    <3> QED
      BY <2>1, <2>2, <2>3, <3>1 DEF Kept
  <2> QED
    BY <2>4, <2>5, <2>6, <2>7
<1> QED
  BY <1>1, BffInvariants, PTL

-----------------------------------------------------------------------------
(***************************************************************************)
(* Whose the reply is.  On an open connection the IdP has been asked       *)
(* nothing, or only for the discovery, before any request could start, or  *)
(* one thing, the query of the task.                                       *)
(***************************************************************************)
Asks(s) ==
    /\ s.processing => s.discovered
    /\ s.task = Discovery => ~s.discovered
    /\ s.link = "open" => s.connected
    /\ s.link = "closed" => s.atIdp = <<>>
    /\ s.link = "open" =>
         \/ s.atIdp = <<>>
         \/ ~s.discovered /\ \A k \in DOMAIN s.atIdp : s.atIdp[k] = Discovery
         \/ s.processing /\ s.atIdp = <<s.task>>

OwnReplies(out) == \A i \in DOMAIN out : out[i].reply \in {out[i].req, Error}

AskInd == BffInd /\ Asks(bff) /\ OwnReplies(answers)

\* The first thing asked is the only one, and after discoveries come more.
LEMMA AskedNext ==
  ASSUME NEW asked \in Seq(0..MaxReqs), NEW query \in 0..MaxReqs
  PROVE  /\ asked = <<>> => Append(asked, query) = <<query>>
         /\ (\A k \in DOMAIN asked : asked[k] = Discovery) =>
              \A k \in DOMAIN Append(asked, Discovery) :
                Append(asked, Discovery)[k] = Discovery
<1>1. asked = <<>> => Append(asked, query) = <<query>>
  OBVIOUS
<1> DEFINE more == Append(asked, Discovery)
<1>2. /\ Len(asked) \in Nat /\ DOMAIN asked = 1..Len(asked)
      /\ DOMAIN more = 1..(Len(asked) + 1)
      /\ \A k \in 1..Len(asked) : more[k] = asked[k]
      /\ more[Len(asked) + 1] = Discovery
  BY TaskNames, AppendProperties, LenProperties
<1> HIDE DEF more
<1>3. \A k \in DOMAIN more : k \in DOMAIN asked \/ k = Len(asked) + 1
  BY <1>2
<1>4. (\A k \in DOMAIN asked : asked[k] = Discovery) =>
        \A k \in DOMAIN more : more[k] = Discovery
  BY <1>2, <1>3
<1> QED
  BY <1>1, <1>4 DEF more

\* An answer is the reply to the request, or an error.
LEMMA AnswerOwn ==
  ASSUME NEW out \in Seq(Reply), OwnReplies(out),
         NEW req \in Reqs, NEW reply \in {req, Error},
         online => browser \in 1..MaxBrowsers
  PROVE  OwnReplies(Answer(out, req, reply))
<1> DEFINE a == [req |-> req, reply |-> reply, to |-> browser]
<1>1. CASE online
  <2>1. a \in Reply
    BY <1>1, TaskNames DEF Reply
  <2>2. Answer(out, req, reply) = Append(out, a)
    BY <1>1 DEF Answer
  <2>3. a.req = req /\ a.reply = reply
    OBVIOUS
  <2> HIDE DEF a
  <2>4. /\ Len(out) \in Nat /\ DOMAIN out = 1..Len(out)
        /\ DOMAIN Append(out, a) = 1..(Len(out) + 1)
        /\ \A i \in 1..Len(out) : Append(out, a)[i] = out[i]
        /\ Append(out, a)[Len(out) + 1] = a
    BY <2>1, AppendProperties, LenProperties
  <2>5. \A i \in DOMAIN Append(out, a) : i \in DOMAIN out \/ i = Len(out) + 1
    BY <2>4
  <2> QED
    BY <2>2, <2>3, <2>4, <2>5 DEF OwnReplies
<1>2. CASE ~online
  BY <1>2 DEF Answer
<1> QED
  BY <1>1, <1>2

\* process_next() asks on an open connection only what the task wants.
LEMMA ProcessNextAsks ==
  ASSUME NEW s, Fits(s), Asks(s)
  PROVE  Asks(ProcessNext(s))
<1> DEFINE r == ProcessNext(s)
<1>1. /\ Fits(r)
      /\ r.discovered = s.discovered
      /\ r.connected = s.connected /\ r.link = s.link
      /\ \/ r = s
         \/ /\ ~s.processing /\ ~s.discovered /\ r.task = Discovery
         \/ /\ ~s.processing /\ s.discovered /\ s.pending # <<>>
            /\ r.task = Head(s.pending)
      /\ r = s \/ r.atIdp = IF s.connected /\ s.link = "open"
                            THEN Append(s.atIdp, r.task) ELSE s.atIdp
  BY ProcessNextDoes
<1>2. s.atIdp \in Seq(0..MaxReqs) /\ s.pending \in Seq(Reqs)
  BY DEF Fits, Bff
<1> HIDE DEF r
<1>3. CASE r = s
  BY <1>3 DEF r
<1>4. CASE /\ r # s /\ ~s.processing /\ ~s.discovered /\ r.task = Discovery
  <2>1. ~r.processing
    BY <1>1, <1>4, TaskNames DEF Fits
  <2>2. s.link = "open" => r.atIdp = Append(s.atIdp, Discovery)
    BY <1>1, <1>4 DEF Asks
  <2>3. s.link = "open" => \A k \in DOMAIN s.atIdp : s.atIdp[k] = Discovery
    <3>1. s.atIdp = <<>> => DOMAIN s.atIdp = {}
      OBVIOUS
    <3> QED
      BY <1>4, <3>1 DEF Asks
  <2>4. s.link = "open" => \A k \in DOMAIN r.atIdp : r.atIdp[k] = Discovery
    BY <1>2, <2>2, <2>3, AskedNext, TaskNames
  <2> QED
    BY <1>1, <1>4, <2>1, <2>4 DEF Asks, r
<1>5. CASE /\ r # s /\ ~s.processing /\ s.discovered /\ s.pending # <<>>
           /\ r.task = Head(s.pending)
  <2>1. r.task \in Reqs /\ r.task \in 0..MaxReqs
    BY <1>2, <1>5, HeadTailProperties, TaskNames
  <2>2. r.processing /\ r.task # Discovery
    BY <1>1, <2>1, TaskNames DEF Fits
  <2>3. s.link = "open" => s.atIdp = <<>> /\ s.connected
    BY <1>5 DEF Asks
  <2>4. s.link = "open" => r.atIdp = <<r.task>>
    BY <1>1, <1>2, <1>5, <2>1, <2>3, AskedNext
  <2> QED
    BY <1>1, <1>5, <2>2, <2>3, <2>4 DEF Asks, r
<1> QED
  BY <1>1, <1>3, <1>4, <1>5

\* The answers of a queue that is flushed are errors.
LEMMA ErrorsOwn ==
  ASSUME NEW pending \in Seq(Reqs), NEW out \in Seq(Reply), OwnReplies(out),
         browser \in 1..MaxBrowsers
  PROVE  OwnReplies(out \o [i \in DOMAIN pending |->
                              [req |-> pending[i], reply |-> Error,
                               to |-> browser]])
<1> DEFINE errors == [i \in DOMAIN pending |->
                        [req |-> pending[i], reply |-> Error, to |-> browser]]
           all == out \o errors
<1>1. /\ Len(pending) \in Nat /\ DOMAIN pending = 1..Len(pending)
      /\ Len(out) \in Nat /\ DOMAIN out = 1..Len(out)
  BY LenProperties
<1>2. \A i \in DOMAIN pending :
        [req |-> pending[i], reply |-> Error, to |-> browser] \in Reply
  BY TaskNames DEF Reply
<1>3. errors \in Seq(Reply) /\ Len(errors) = Len(pending)
  <2> HIDE DEF Reply
  <2>1. errors \in [1..Len(pending) -> Reply]
    BY <1>1, <1>2
  <2>2. errors \in Seq(Reply)
    BY <1>1, <2>1, SeqDef
  <2>3. DOMAIN errors = 1..Len(pending)
    BY <1>1
  <2> HIDE DEF errors
  <2> QED
    BY <1>1, <2>2, <2>3, LenProperties
<1>4. \A i \in 1..Len(pending) : errors[i].reply = Error
  BY <1>1
<1> HIDE DEF errors
<1>5. /\ all \in Seq(Reply) /\ Len(all) = Len(out) + Len(errors)
      /\ \A i \in 1..(Len(out) + Len(errors)) :
           all[i] = IF i <= Len(out) THEN out[i] ELSE errors[i - Len(out)]
  BY <1>3, ConcatProperties
<1>6. DOMAIN all = 1..(Len(out) + Len(pending))
  BY <1>3, <1>5, LenProperties
<1> HIDE DEF all
<1>7. ASSUME NEW i \in DOMAIN all
      PROVE  all[i].reply \in {all[i].req, Error}
  <2>1. CASE i <= Len(out)
    <3>1. i \in DOMAIN out /\ all[i] = out[i]
      BY <1>1, <1>3, <1>5, <1>6, <1>7, <2>1
    <3> QED
      BY <3>1 DEF OwnReplies
  <2>2. CASE ~(i <= Len(out))
    <3>1. i - Len(out) \in 1..Len(pending) /\ all[i] = errors[i - Len(out)]
      BY <1>1, <1>3, <1>5, <1>6, <1>7, <2>2
    <3> QED
      BY <1>4, <3>1
  <2> QED
    BY <2>1, <2>2
<1> QED
  BY <1>7 DEF OwnReplies, all, errors

\* The end of a discovery leaves only its queries on the connection.
LEMMA AfterDiscoveryAsks ==
  ASSUME NEW s, NEW out, Now(s, out), s.task = NoTask, Asks(s), OwnReplies(out)
  PROVE  LET p == AfterDiscovery(s, out) IN Asks(p[1]) /\ OwnReplies(p[2])
<1>1. Fits(s) /\ s \in Bff /\ out \in Seq(Reply) /\ s.pending \in Seq(Reqs)
  BY DEF Now, Sound, Fits, Bff
<1>2. CASE s.discovered
  <2>1. AfterDiscovery(s, out) = <<ProcessNext(s), out>>
    BY <1>2 DEF AfterDiscovery
  <2> QED
    BY <1>1, <2>1, ProcessNextAsks
<1>3. CASE ~s.discovered
  <2> DEFINE t == [s EXCEPT !.pending = <<>>]
             errors == [i \in DOMAIN s.pending |->
                         [req |-> s.pending[i], reply |-> Error, to |-> browser]]
             p == AfterDiscovery(s, out)
  <2>1. p[1] = t /\ p[2] = IF online THEN out \o errors ELSE out
    BY <1>3 DEF AfterDiscovery
  <2>2. Asks(t)
    BY <1>1 DEF Asks, Bff
  <2>3. online => OwnReplies(out \o errors)
    BY <1>1, ErrorsOwn DEF Now, Sound, Askers
  <2> HIDE DEF t, errors, p
  <2>4. Asks(p[1]) /\ OwnReplies(p[2])
    BY <2>1, <2>2, <2>3
  <2> QED
    BY <2>4 DEF p
<1> QED
  BY <1>2, <1>3

\* A task that times out leaves no query on an open connection, unless it is
\* the discovery's.
LEMMA TimeoutAsks ==
  ASSUME NEW s, NEW out, Now(s, out), s.task # NoTask, Asks(s),
         OwnReplies(out)
  PROVE  LET p == EndTask(s, out, "timeout") IN Asks(p[1]) /\ OwnReplies(p[2])
<1> DEFINE n == NoMoreTask(s)
<1>1. /\ n \in Bff /\ n.task = NoTask /\ n.pending = s.pending
      /\ n.processing = s.processing /\ n.taskValid = s.taskValid
      /\ n.discovered = s.discovered
      /\ n.connected = s.connected /\ n.link = s.link
      /\ ~n.execTimer /\ n.partial = s.partial /\ n.atIdp = s.atIdp
  BY NoMoreTaskDoes DEF Now, Sound, Fits
<1>2. s \in Bff /\ s.task \in Tasks /\ out \in Seq(Reply)
  BY DEF Now, Sound, Fits, Bff
<1> HIDE DEF n
<1>3. CASE s.task = Discovery
  <2>1. Ledger(n.pending, n.task, out, online, browser, asker)
    BY <1>1, <1>2, <1>3, TaskReplaced, TaskNames
       DEF Now, Sound, Askers, Bff
  <2>2. Fits(n)
    BY <1>1, <1>3, TaskNames DEF Fits, Now, Sound
  <2>3. Now(n, out)
    BY <2>1, <2>2 DEF Now, Sound
  <2>4. ~s.processing
    BY <1>3, TaskNames DEF Now, Sound, Fits
  <2>5. Asks(n)
    BY <1>1, <2>4, TaskNames DEF Asks
  <2>6. EndTask(s, out, "timeout") = AfterDiscovery(n, out)
    BY <1>3 DEF EndTask, n
  <2> QED
    BY <1>1, <2>3, <2>5, <2>6, AfterDiscoveryAsks
<1>4. CASE s.task \in Reqs
  <2> DEFINE u == IF n.connected THEN StopIdp(n) ELSE n
             t == [u EXCEPT !.processing = FALSE, !.taskValid = FALSE]
  <2>1. /\ u \in Bff /\ u.task = NoTask /\ u.pending = s.pending
        /\ ~u.execTimer /\ u.partial = s.partial /\ u.atIdp = s.atIdp
        /\ u.link # "open"
        /\ u.link = "closed" => u.atIdp = <<>>
    BY <1>1, StopIdpDoes DEF Asks
  <2>2. s.taskValid
    BY <1>4 DEF Now, Sound, Fits
  <2>3. EndTask(s, out, "timeout")
          = <<ProcessNext(t), Answer(out, s.task, Error)>>
    BY <1>1, <1>4, <2>2, TaskNames DEF EndTask, AfterRequest, n
  <2> HIDE DEF u
  <2>4. /\ t \in Bff /\ t.task = NoTask /\ t.pending = s.pending
        /\ ~t.processing /\ ~t.taskValid /\ ~t.execTimer
        /\ t.partial = s.partial /\ t.atIdp = s.atIdp
        /\ t.link = u.link
    BY <2>1 DEF Bff
  <2> HIDE DEF t
  <2>5. Fits(t)
    BY <2>4, TaskNames DEF Fits, Now, Sound
  <2>6. Asks(t)
    BY <2>1, <2>4, TaskNames DEF Asks
  <2>7. OwnReplies(Answer(out, s.task, Error))
    BY <1>2, <1>4, AnswerOwn DEF Now, Sound, Askers
  <2> QED
    BY <2>3, <2>5, <2>6, <2>7, ProcessNextAsks
<1> QED
  BY <1>2, <1>3, <1>4, TaskNames

\* The reply to the only query of the task answers its request.
LEMMA OnMessageAsks ==
  ASSUME NEW s, NEW out, Now(s, out), Asks(s), OwnReplies(out),
         NEW reply \in 0..MaxReqs, NEW usable \in BOOLEAN,
         s.link = "open" => s.atIdp = <<>>,
         s.task \in Reqs => reply = s.task
  PROVE  LET p == OnMessage(s, out, reply, usable)
         IN  Asks(p[1]) /\ OwnReplies(p[2])
<1>1. s \in Bff /\ s.task \in Tasks /\ out \in Seq(Reply)
  BY DEF Now, Sound, Fits, Bff
<1>2. CASE s.task = NoTask
  <2>1. OnMessage(s, out, reply, usable) = <<s, out>>
    BY <1>2, TaskNames DEF OnMessage
  <2> QED
    BY <2>1
<1>3. CASE s.task = Discovery
  <2> DEFINE t == [s EXCEPT !.discovered = reply = Discovery /\ usable]
             n == NoMoreTask(t)
  <2>1. /\ t \in Bff /\ t.task = s.task /\ t.pending = s.pending
        /\ t.processing = s.processing /\ t.taskValid = s.taskValid
        /\ t.connected = s.connected /\ t.link = s.link
        /\ t.partial = s.partial /\ t.atIdp = s.atIdp
    BY <1>1 DEF Bff
  <2>2. OnMessage(s, out, reply, usable) = EndTask(t, out, "ended")
    BY <1>3, TaskNames DEF OnMessage
  <2> HIDE DEF t
  <2>3. /\ n \in Bff /\ n.task = NoTask /\ n.pending = s.pending
        /\ n.processing = s.processing /\ n.taskValid = s.taskValid
        /\ n.connected = s.connected /\ n.link = s.link
        /\ ~n.execTimer /\ n.partial = s.partial /\ n.atIdp = s.atIdp
    BY <2>1, NoMoreTaskDoes
  <2>4. EndTask(t, out, "ended") = AfterDiscovery(n, out)
    BY <1>3, <2>1 DEF EndTask
  <2> HIDE DEF n
  <2>5. Ledger(n.pending, n.task, out, online, browser, asker)
    BY <1>1, <1>3, <2>3, TaskReplaced, TaskNames
       DEF Now, Sound, Askers, Bff
  <2>6. Fits(n)
    BY <1>3, <2>3, TaskNames DEF Fits, Now, Sound
  <2>7. Now(n, out)
    BY <2>5, <2>6 DEF Now, Sound
  <2>8. ~s.processing
    BY <1>3, TaskNames DEF Now, Sound, Fits
  <2>9. Asks(n)
    BY <2>3, <2>8, TaskNames DEF Asks
  <2> QED
    BY <2>2, <2>3, <2>4, <2>7, <2>9, AfterDiscoveryAsks
<1>4. CASE s.task \in Reqs
  <2> DEFINE n == NoMoreTask(s)
             t == [n EXCEPT !.processing = FALSE, !.taskValid = FALSE]
             o == Answer(out, s.task, reply)
  <2>1. s.taskValid
    BY <1>4 DEF Now, Sound, Fits
  <2>2. OnMessage(s, out, reply, usable) = EndTask(s, o, "ended")
    BY <1>4, <2>1, TaskNames DEF OnMessage
  <2>3. EndTask(s, o, "ended") = <<ProcessNext(t), o>>
    BY <1>4, TaskNames DEF EndTask, AfterRequest
  <2>4. /\ n \in Bff /\ n.task = NoTask /\ n.pending = s.pending
        /\ n.connected = s.connected /\ n.link = s.link
        /\ ~n.execTimer /\ n.partial = s.partial /\ n.atIdp = s.atIdp
    BY <1>1, NoMoreTaskDoes
  <2> HIDE DEF n
  <2>5. /\ t \in Bff /\ t.task = NoTask /\ t.pending = s.pending
        /\ ~t.processing /\ ~t.taskValid /\ ~t.execTimer
        /\ t.partial = s.partial /\ t.atIdp = s.atIdp
        /\ t.connected = s.connected /\ t.link = s.link
    BY <2>4 DEF Bff
  <2> HIDE DEF t
  <2>6. Fits(t)
    BY <2>5, TaskNames DEF Fits, Now, Sound
  <2>7. Asks(t)
    BY <2>5, TaskNames DEF Asks
  <2>8. OwnReplies(o)
    BY <1>1, <1>4, AnswerOwn DEF Now, Sound, Askers
  <2> QED
    BY <2>2, <2>3, <2>6, <2>7, <2>8, ProcessNextAsks
<1> QED
  BY <1>1, <1>2, <1>3, <1>4, TaskNames

\* Every step keeps the replies with their requests, if each ends by itself
\* and none comes after another query.
LEMMA AskIndNext ==
  ASSUME ~CloseDelimited, ~LateReplies, AskInd, [Next]_vars
  PROVE  AskInd'
<1>1. /\ BffInd /\ Asks(bff) /\ OwnReplies(answers)
      /\ Now(bff, answers) /\ bff \in Bff /\ Fits(bff)
      /\ answers \in Seq(Reply)
  BY BffIndGives DEF AskInd
<1>2. BffInd'
  BY BffIndNext DEF AskInd
<1>3. Asks(bff') /\ OwnReplies(answers')
  <2>1. CASE BrowserOpens
    BY <1>1, <2>1 DEF BrowserOpens
  <2>2. CASE BrowserAsks
    <3> DEFINE req == Len(asker) + 1
    <3>1. online /\ browser \in 1..MaxBrowsers
      BY <1>1, <2>2 DEF BrowserAsks, Now, Sound, Askers
    <3>2. CASE Becomes(<<bff, Answer(answers, req, Error)>>)
      <4>1. req \in Reqs
        <5>1. asker \in Seq(1..MaxBrowsers) /\ Len(asker) < MaxReqs
          BY <1>1, <2>2 DEF BrowserAsks, Now, Sound, Askers
        <5> QED
          BY <3>1, <5>1, RequestArrives
      <4> HIDE DEF req
      <4> QED
        BY <1>1, <3>1, <3>2, <4>1, AnswerOwn DEF Becomes
    <3>3. CASE /\ ~Full(bff)
               /\ Becomes(<<ProcessNext([bff EXCEPT !.pending = Append(@, req)]),
                            answers>>)
      <4> DEFINE t == [bff EXCEPT !.pending = Append(@, req)]
      <4>1. Asks(t)
        BY <1>1 DEF Asks, Bff
      <4>2. Fits(t)
        <5>1. /\ asker \in Seq(1..MaxBrowsers) /\ Len(asker) < MaxReqs
              /\ bff.pending \in Seq(Reqs)
          BY <1>1, <2>2 DEF BrowserAsks, Now, Sound, Askers, Fits, Bff
        <5>2. /\ Append(bff.pending, req) \in Seq(Reqs)
              /\ Len(Append(bff.pending, req)) = Len(bff.pending) + 1
              /\ Len(bff.pending) \in Nat
          BY <3>1, <5>1, RequestArrives, AppendProperties, LenProperties
        <5>3. Len(bff.pending) + 1 <= QueueSize
          BY <3>3, <5>2, TaskNames DEF Full
        <5>4. /\ t \in Bff /\ t.pending = Append(bff.pending, req)
              /\ t.task = bff.task
              /\ t.processing = bff.processing /\ t.taskValid = bff.taskValid
              /\ t.execTimer = bff.execTimer /\ t.watchdog = bff.watchdog
              /\ t.partial = bff.partial /\ t.atIdp = bff.atIdp
          BY <1>1, <5>2 DEF Bff
        <5> HIDE DEF t
        <5> QED
          BY <1>1, <5>2, <5>3, <5>4 DEF Fits
      <4>3. bff' = ProcessNext(t) /\ answers' = answers
        BY <3>3 DEF Becomes
      <4> HIDE DEF t
      <4> QED
        BY <1>1, <4>1, <4>2, <4>3, ProcessNextAsks
    <3> QED
      BY <2>2, <3>2, <3>3 DEF BrowserAsks
  <2>3. CASE BrowserCloses
    <3> DEFINE s == [bff EXCEPT !.pending = <<>>]
               t == StopIdp(s)
    <3>1. bff' = ForgetTask(s) /\ answers' = answers
      BY <2>3 DEF BrowserCloses, Forget
    <3>2. s \in Bff /\ Asks(s)
      <4>1. <<>> \in Seq(Reqs)
        BY EmptySeq
      <4> QED
        BY <1>1, <4>1 DEF Asks, Bff
    <3> HIDE DEF s
    <3>3. CASE s.processing
      <4>1. /\ t \in Bff /\ t.atIdp = s.atIdp /\ ~t.connected
            /\ t.link = IF s.link = "open" THEN "dying" ELSE s.link
        BY <3>2, StopIdpDoes
      <4>2. bff' = [t EXCEPT !.taskValid = FALSE, !.processing = FALSE,
                             !.task = NoTask, !.execTimer = FALSE]
        BY <3>1, <3>3 DEF ForgetTask
      <4> HIDE DEF t
      <4>3. /\ ~bff'.processing /\ bff'.task = NoTask
            /\ bff'.link = t.link /\ bff'.atIdp = t.atIdp
        BY <4>1, <4>2 DEF Bff
      <4> QED
        BY <1>1, <3>1, <3>2, <4>1, <4>3, TaskNames DEF Asks
    <3>4. CASE ~s.processing
      BY <1>1, <3>1, <3>2, <3>4 DEF ForgetTask
    <3> QED
      BY <3>3, <3>4
  <2>4. CASE IdpConnects
    BY <1>1, <2>4 DEF IdpConnects, Asks, Bff
  <2>5. CASE HandshakeFails
    BY <1>1, <2>5 DEF HandshakeFails, Asks, Bff
  <2>6. CASE IdpOpens
    <3> DEFINE s == [bff EXCEPT !.link = "open", !.watchdog = FALSE]
    <3>1. /\ bff' = IF s.task # NoTask THEN Execute(s) ELSE s
          /\ answers' = answers
      BY <2>6 DEF IdpOpens
    <3>2. /\ s \in Bff /\ s.link = "open" /\ s.atIdp = <<>>
          /\ s.task = bff.task
          /\ s.processing = bff.processing /\ s.discovered = bff.discovered
          /\ s.connected
      BY <1>1, <2>6 DEF IdpOpens, Asks, Bff
    <3> HIDE DEF s
    <3>3. CASE s.task # NoTask
      <4>1. /\ bff'.atIdp = Append(s.atIdp, s.task)
            /\ bff' = [s EXCEPT !.execTimer = TRUE, !.atIdp = bff'.atIdp]
        BY <3>1, <3>2, <3>3, ExecuteDoes
      <4>2. bff'.atIdp = <<s.task>>
        BY <3>2, <4>1
      <4>3. /\ bff'.task = s.task /\ bff'.link = "open" /\ bff'.connected
            /\ bff'.processing = s.processing
            /\ bff'.discovered = s.discovered
        BY <3>2, <4>1 DEF Bff
      <4>4. CASE s.task = Discovery
        <5>1. \A k \in DOMAIN bff'.atIdp : bff'.atIdp[k] = Discovery
          BY <4>2, <4>4
        <5>2. ~s.discovered /\ ~s.processing
          BY <1>1, <3>2, <4>4, TaskNames DEF Asks, Fits
        <5> QED
          BY <1>1, <3>1, <4>3, <4>4, <5>1, <5>2 DEF Asks
      <4>5. CASE s.task \in Reqs
        <5>1. s.processing /\ s.discovered /\ s.task # Discovery
          BY <1>1, <3>2, <4>5, TaskNames DEF Asks, Fits
        <5> QED
          BY <1>1, <3>1, <4>2, <4>3, <5>1 DEF Asks
      <4>6. s.task \in Tasks
        BY <3>2 DEF Bff
      <4> QED
        BY <3>3, <4>4, <4>5, <4>6, TaskNames
    <3>4. CASE s.task = NoTask
      BY <1>1, <3>1, <3>2, <3>4 DEF Asks
    <3> QED
      BY <3>3, <3>4
  <2>7. CASE IdpReplies
    <3> DEFINE s == [bff EXCEPT !.atIdp = Tail(@), !.partial = FALSE]
    <3>1. /\ bff.link = "open" /\ bff.atIdp # <<>> /\ Len(bff.atIdp) = 1
          /\ bff.atIdp \in Seq(0..MaxReqs)
      BY <1>1, <2>7 DEF IdpReplies, Bff
    <3>2. /\ Head(bff.atIdp) \in 0..MaxReqs /\ Head(bff.atIdp) = bff.atIdp[1]
          /\ Tail(bff.atIdp) = <<>>
      <4>1. /\ Head(bff.atIdp) \in 0..MaxReqs
            /\ Tail(bff.atIdp) \in Seq(0..MaxReqs)
            /\ Len(Tail(bff.atIdp)) = Len(bff.atIdp) - 1
        BY <3>1, HeadTailProperties
      <4>2. Tail(bff.atIdp) = <<>>
        <5>1. Len(Tail(bff.atIdp)) = 0
          BY <3>1, <4>1
        <5> QED
          BY <4>1, <5>1, EmptySeq
      <4> QED
        BY <3>1, <4>1, <4>2
    <3>3. bff.task \in Reqs => Head(bff.atIdp) = bff.task
      <4>1. ASSUME bff.task \in Reqs
            PROVE  bff.atIdp = <<bff.task>>
        BY <1>1, <3>1, <4>1 DEF Asks, Fits
      <4> QED
        BY <3>2, <4>1
    <3>4. /\ s \in Bff /\ s.pending = bff.pending /\ s.task = bff.task
          /\ s.processing = bff.processing /\ s.taskValid = bff.taskValid
          /\ s.execTimer = bff.execTimer /\ s.watchdog = bff.watchdog
          /\ s.discovered = bff.discovered /\ s.connected = bff.connected
          /\ s.link = bff.link /\ s.atIdp = <<>> /\ ~s.partial
      <4>1. Tail(bff.atIdp) \in Seq(0..MaxReqs)
        BY <3>1, HeadTailProperties
      <4> QED
        BY <1>1, <3>2, <4>1 DEF Bff
    <3>5. PICK usable \in BOOLEAN :
            Becomes(OnMessage(s, answers, Head(bff.atIdp), usable))
      BY <2>7 DEF IdpReplies
    <3> HIDE DEF s
    <3>6. Now(s, answers)
      BY <1>1, <3>4, SameTask DEF Now
    <3>7. Asks(s)
      BY <1>1, <3>1, <3>4 DEF Asks
    <3> QED
      BY <1>1, <3>2, <3>3, <3>4, <3>5, <3>6, <3>7, OnMessageAsks DEF Becomes
  <2>8. CASE ReplyBegins
    BY <1>1, <2>8 DEF ReplyBegins, Asks, Bff
  <2>9. CASE IdpDies
    BY <1>1, <2>9 DEF IdpDies, Asks, Bff
  <2>10. CASE IdpCloses
    <3> DEFINE s == [bff EXCEPT !.link = "closed", !.connected = FALSE,
                                !.atIdp = <<>>, !.partial = FALSE]
    <3>1. s \in Bff /\ Asks(s)
      <4>1. <<>> \in Seq(0..MaxReqs)
        BY EmptySeq
      <4> QED
        BY <1>1, <4>1 DEF Asks, Bff
    <3>2. /\ bff' = IF ~online /\ s.running THEN StopIdp(s) ELSE s
          /\ answers' = answers
      BY <2>10 DEF IdpCloses, Becomes
    <3>3. Asks(StopIdp(s))
      BY <3>1 DEF StopIdp, Asks, Bff
    <3> HIDE DEF s
    <3> QED
      BY <1>1, <3>1, <3>2, <3>3
  <2>11. CASE ExecTimeout
    <3>1. bff.task # NoTask
      BY <1>1, <2>11 DEF ExecTimeout, Fits
    <3> QED
      BY <1>1, <2>11, <3>1, TimeoutAsks DEF ExecTimeout, Becomes
  <2>12. CASE WatchdogTimeout
    <3> DEFINE s == [bff EXCEPT !.watchdog = FALSE]
    <3>1. s.task = bff.task /\ NoMoreTask(s) = NoMoreTask(bff) /\ Asks(s)
      BY <1>1 DEF NoMoreTask, Asks, Bff
    <3>2. Becomes(IF s.task = NoTask THEN <<s, answers>>
                  ELSE EndTask(s, answers, "timeout"))
      BY <2>12 DEF WatchdogTimeout
    <3> HIDE DEF s
    <3>3. CASE s.task = NoTask
      BY <1>1, <3>1, <3>2, <3>3 DEF Becomes
    <3>4. CASE s.task # NoTask
      <4>1. Becomes(EndTask(bff, answers, "timeout"))
        BY <3>1, <3>2, <3>4 DEF EndTask
      <4> QED
        BY <1>1, <3>1, <3>4, <4>1, TimeoutAsks DEF Becomes
    <3> QED
      BY <3>3, <3>4
  <2>13. CASE UNCHANGED vars
    BY <1>1, <2>13 DEF vars
  <2> QED
    BY <2>1, <2>2, <2>3, <2>4, <2>5, <2>6, <2>7, <2>8, <2>9, <2>10, <2>11,
       <2>12, <2>13 DEF Next
<1> QED
  BY <1>2, <1>3 DEF AskInd

(***************************************************************************)
(* What a browser is told is the answer to a request of its own, and the   *)
(* IdP's to that very request, if nothing but its own end delimits a reply *)
(* and no reply comes after another query (c_auth_bff.c ac_on_close,       *)
(* send_token_to_browser: "the stale reply can never be forwarded to a     *)
(* different user").                                                       *)
(***************************************************************************)
THEOREM BffAnswersTheAsker ==
  ASSUME ~CloseDelimited, ~LateReplies
  PROVE  Spec => []AnswersTheAsker
<1>1. Init => AskInd
  <2> SUFFICES ASSUME Init PROVE AskInd
    OBVIOUS
  <2>1. BffInd
    BY BffIndInit
  <2>2. OwnReplies(answers)
    <3>1. answers = <<>> /\ DOMAIN <<>> = {}
      BY DEF Init
    <3> QED
      BY <3>1 DEF OwnReplies
  <2>3. Asks(bff)
    <3> DEFINE d == [Idle EXCEPT !.discovered = FALSE]
    <3>1. /\ Idle \in Bff /\ Asks(Idle)
          /\ d \in Bff /\ d.link = "closed" /\ d.atIdp = <<>>
          /\ ~d.discovered /\ ~d.processing
      <4>1. <<>> \in Seq(Reqs) /\ <<>> \in Seq(0..MaxReqs)
        BY EmptySeq
      <4>2. Idle \in Bff /\ d \in Bff
        BY <4>1, TaskNames DEF Idle, Bff
      <4>3. /\ ~Idle.processing /\ Idle.task = NoTask
            /\ Idle.link = "closed" /\ Idle.atIdp = <<>>
            /\ d.link = "closed" /\ d.atIdp = <<>>
            /\ ~d.discovered /\ ~d.processing
        BY DEF Idle
      <4> HIDE DEF d
      <4> QED
        BY <4>2, <4>3, TaskNames DEF Asks
    <3>2. bff = Idle \/ bff = StartTask(d, Discovery)
      BY DEF Init
    <3> HIDE DEF d
    <3>3. Asks(StartTask(d, Discovery))
      BY <3>1, StartTaskDoes, TaskNames DEF Asks
    <3> QED
      BY <3>1, <3>2, <3>3
  <2> QED
    BY <2>1, <2>2, <2>3 DEF AskInd
<1>2. AskInd /\ [Next]_vars => AskInd'
  BY AskIndNext
<1>3. AskInd => AnswersTheAsker
  BY DEF AskInd, BffInd, Sound, Ledger, Owners, OwnReplies, AnswersTheAsker
<1> QED
  BY <1>1, <1>2, <1>3, PTL DEF Spec

=============================================================================
