----------------------------- MODULE WorkerPipe -----------------------------
(***************************************************************************)
(* The worker pipe: the runtime's session and the worker's endpoint over   *)
(* two byte streams that keep order, with the callers in the server that   *)
(* issue commands, the clock that lets deadlines pass, streams that fill   *)
(* up, and the loss of the worker.                                         *)
(*                                                                         *)
(* A scenario gives the commands that may be issued and how often the      *)
(* environment may interfere; it becomes the budget.  budget.early says    *)
(* whether the runtime may read a reply before the worker's write callback *)
(* for it has run, which neither a stream nor an OS pipe excludes.         *)
(***************************************************************************)
EXTENDS PipeSession

CONSTANT Scenarios

VARIABLES session, worker, issued, budget

vars == <<session, worker, issued, budget>>

Bounds == {"late", "gone", "events", "fulls", "offers", "losses"}

ASSUME ScenariosAssumption ==
    \A c \in Scenarios :
        /\ \A b \in Bounds : c[b] \in Nat
        /\ c.early \in BOOLEAN
        /\ \A r \in c.reqs : r.id \in Nat \ {0}

Runs(c) == {r.run : r \in c.reqs}

\* The runs that have no spawn among the commands are live from the start.
LiveRuns(c) == Runs(c) \ {r.run : r \in {q \in c.reqs : q.type = "spawn"}}

Init ==
    /\ budget \in Scenarios
    /\ issued = <<>>
    /\ LET live == LiveRuns(budget) IN
       /\ session = [SessionStart EXCEPT
                       !.state = IF live = {} THEN "new" ELSE "ready",
                       !.runs = live,
                       !.placed = [run \in live |-> [dispatched |-> TRUE, status |-> "live"]]]
       /\ worker = [EndpointStart EXCEPT
                       !.state = IF live = {} THEN "awaiting-hello" ELSE "ready",
                       !.runs = live, !.sessions = live]

-----------------------------------------------------------------------------
(* The next status read is dispatched in a microtask, before anything else *)

Quiet == ~session.scheduled

Spend(what) == budget[what] > 0 /\ budget' = [budget EXCEPT ![what] = @ - 1]

\* The transport took every frame a handler offered it, or one and is full.
Took(mode, was, is) ==
    CASE mode = "all" -> UNCHANGED budget
      [] mode = "one" -> ~was /\ is /\ Spend("fulls")
      [] mode = "offer" -> ~was /\ is /\ Spend("offers")

Filled(full, was, is) == IF full THEN ~was /\ is /\ Spend("fulls") ELSE UNCHANGED budget

Issued(r) == \E i \in DOMAIN issued : issued[i] = r

OfSub(sub, types) == {r \in Range(issued) : r.sub = sub /\ r.type \in types}

Outstanding(r) == r \notin DOMAIN session.answer

Ended(sub) == OfSub(sub, {"unsubscribe"}) # {}

\* What a caller of the terminal port does: it acknowledges what an active
\* route delivered, one command at a time, and unsubscribes once.
Conforms(r) ==
    /\ ~Issued(r)
    /\ CASE r.type = "spawn" -> r.run \in DOMAIN session.placed
         [] r.type = "ack" -> /\ r.sub \in DOMAIN session.routes /\ session.routes[r.sub].active
                              /\ ~Ended(r.sub)
                              /\ \A q \in OfSub(r.sub, {"ack"}) : ~Outstanding(q)
         [] r.type = "unsubscribe" -> OfSub(r.sub, {"subscribe"}) # {}
         [] r.type = "recover" -> /\ ~Ended(r.sub)
                                  /\ \E q \in OfSub(r.sub, {"subscribe"}) : ~Outstanding(q)
         [] OTHER -> r.run \in DOMAIN session.placed

-----------------------------------------------------------------------------
(* The runtime's steps *)

Start ==
    /\ Quiet /\ session.state = "new"
    /\ session' = FlushSession([session EXCEPT !.state = "hello",
                                  !.queue = <<[req |-> Hello, prepaid |-> FALSE, given |-> FALSE]>>], "all")
    /\ UNCHANGED <<worker, issued, budget>>

Reserve ==
    /\ Quiet
    /\ \E r \in budget.reqs :
        /\ r.type = "spawn" /\ ~Issued(r) /\ r.run \notin DOMAIN session.placed
        /\ session.state = "ready"
        /\ session' = ReserveRun(session, r.run)
    /\ UNCHANGED <<worker, issued, budget>>

Issue ==
    /\ Quiet
    /\ \E r \in budget.reqs :
        /\ Conforms(r)
        /\ issued' = Append(issued, r)
        /\ \E mode \in Modes :
            session' = Request(session, r, mode) /\ Took(mode, session.blocked, session'.blocked)
    /\ UNCHANGED worker

Microtask ==
    /\ session.scheduled
    /\ \E mode \in Modes :
        /\ session' = PromoteStatus([session EXCEPT !.scheduled = FALSE], mode)
        /\ Took(mode, session.blocked, session'.blocked)
    /\ UNCHANGED <<worker, issued>>

\* The deadline of a command passes; route control has none.
Deadline ==
    /\ Quiet /\ session.state = "ready"
    /\ \E r \in DOMAIN session.pending \cup Range(session.statusWaiters) :
        /\ ~Progress(r) /\ r \notin session.overdue
        /\ session' = [session EXCEPT !.overdue = @ \cup {r}]
    /\ Spend("late")
    /\ UNCHANGED <<worker, issued>>

\* The caller of a status read is gone.
Leave ==
    /\ Quiet /\ session.state = "ready"
    /\ \E r \in DOMAIN session.pending \cup Range(session.statusWaiters) :
        /\ r.type = "status" /\ r \notin session.gone
        /\ session' = [session EXCEPT !.gone = @ \cup {r}]
    /\ Spend("gone")
    /\ UNCHANGED <<worker, issued>>

\* A tick that has something to do.
Tick ==
    /\ Quiet /\ session.state = "ready"
    /\ Expired(session) # {} \/ \E i \in DOMAIN session.statusWaiters : ~StatusLive(session, session.statusWaiters[i])
    /\ \E mode \in Modes :
        session' = TickSession(session, mode) /\ Took(mode, session.blocked, session'.blocked)
    /\ UNCHANGED <<worker, issued>>

Settled ==
    /\ Quiet /\ session.handed # <<>>
    /\ Head(session.handed).given \/ budget.offers > 0
    /\ \E mode \in Modes :
        session' = Release(session, mode) /\ Took(mode, session.blocked, session'.blocked)
    /\ UNCHANGED <<worker, issued>>

HandOver ==
    /\ Quiet
    /\ \E i \in DOMAIN session.handed :
        ~session.handed[i].given /\ session' = HandLate(session, i)
    /\ UNCHANGED <<worker, issued, budget>>

Drain ==
    /\ Quiet /\ session.blocked /\ session.state # "closed"
    /\ \E mode \in Modes :
        session' = DrainSession(session, mode) /\ Took(mode, FALSE, session'.blocked)
    /\ UNCHANGED <<worker, issued>>

ReadReply ==
    /\ Quiet /\ worker.up # <<>>
    /\ budget.early \/ Len(worker.up) > Len(worker.transport)
    /\ LET frame == Head(worker.up) IN
       \E taken \in IF frame.type = "accepted" /\ frame.of.type \in Openers /\ ~Ended(frame.of.sub)
                      THEN BOOLEAN ELSE {FALSE} :
           \E mode \in Modes :
               session' = Receive(session, frame, taken, mode) /\ Took(mode, session.blocked, session'.blocked)
    /\ worker' = [worker EXCEPT !.up = Tail(@)]
    /\ UNCHANGED issued

\* The process exits, the pipe breaks or the worker is silent for the liveness window.
Lose ==
    /\ Quiet /\ session.state \in {"hello", "ready"}
    /\ session' = LoseContact(session)
    /\ Spend("losses")
    /\ UNCHANGED <<worker, issued>>

\* The runtime reads the end of the pipe of a worker that shut down.
PipeEnds ==
    /\ Quiet /\ session.state \in {"hello", "ready"}
    /\ worker.state = "closed" /\ worker.up = <<>>
    /\ session' = LoseContact(session)
    /\ UNCHANGED <<worker, issued, budget>>

-----------------------------------------------------------------------------
(* The worker's steps *)

ReadFrame ==
    /\ Quiet /\ session.down # <<>> /\ worker.state # "closed" /\ ~worker.paused
    /\ \E full \in BOOLEAN :
        worker' = HandleFrame(worker, Head(session.down), full) /\ Filled(full, worker.blocked, worker'.blocked)
    /\ session' = [session EXCEPT !.down = Tail(@)]
    /\ UNCHANGED issued

Complete ==
    /\ Quiet /\ worker.state = "ready"
    /\ \E r \in DOMAIN worker.pending :
        /\ worker.pending[r].phase = "executing"
        /\ \E outcome \in Outcomes(worker, r) :
            \E full \in BOOLEAN :
                worker' = CompleteCommand(worker, r, outcome, full) /\ Filled(full, worker.blocked, worker'.blocked)
    /\ UNCHANGED <<session, issued>>

Emit ==
    /\ Quiet /\ worker.state = "ready" /\ budget.events > 0
    /\ \E sub \in worker.open, r \in Range(issued) :
        /\ r.type = "subscribe" /\ r.sub = sub
        /\ LET frame == Frame("event", [id |-> 0, type |-> "event", sub |-> sub, run |-> r.run], FALSE, FALSE)
           IN  Fits(worker, frame) /\ worker' = EnqueueEvent(worker, frame, FALSE)
    /\ Spend("events")
    /\ UNCHANGED <<session, issued>>

WorkerSettled ==
    /\ Quiet /\ worker.transport # <<>>
    /\ \E full \in BOOLEAN :
        worker' = SettleFrame(worker, full) /\ Filled(full, worker.blocked, worker'.blocked)
    /\ UNCHANGED <<session, issued>>

WorkerDrain ==
    /\ Quiet /\ worker.blocked
    /\ \E full \in BOOLEAN :
        worker' = OnDrain(worker, full) /\ Filled(full, FALSE, worker'.blocked)
    /\ UNCHANGED <<session, issued>>

EndOfInput ==
    /\ Quiet /\ session.state = "closed" /\ session.down = <<>> /\ worker.state # "closed"
    /\ worker' = Shutdown(worker, "stdin-eof")
    /\ UNCHANGED <<session, issued, budget>>

Next ==
    \/ Start \/ Reserve \/ Issue \/ Microtask \/ Deadline \/ Leave \/ Tick \/ Settled \/ HandOver
    \/ Drain \/ ReadReply \/ Lose \/ PipeEnds
    \/ ReadFrame \/ Complete \/ Emit \/ WorkerSettled \/ WorkerDrain \/ EndOfInput

Spec == Init /\ [][Next]_vars

-----------------------------------------------------------------------------
(* Properties *)

Answers == {"accepted", "refused", "busy", "BUSY", "WORKER_UNAVAILABLE", "RUN_NOT_FOUND", "RESULT_UNKNOWN"}

NotAccepted == {"busy", "BUSY", "WORKER_UNAVAILABLE", "RUN_NOT_FOUND"}

\* The windows of both sides hold what they should: one status read and one stop
\* at a time, RouteWindow route-control commands and prepaid frames, and no more
\* units at the worker than the pipe's budget with its control reserve.
TypeOK ==
    /\ session.state \in {"new", "hello", "ready", "closed"}
    /\ worker.state \in {"awaiting-hello", "ready", "closed"}
    /\ DOMAIN session.pending \subseteq budget.reqs
    /\ \A r \in DOMAIN session.answer : session.answer[r] \in Answers
    /\ \A role \in {"status", "stop", "route", "ordinary"} : Cardinality(Admitted(session, role)) <= Cap(role)
    /\ PrepaidFrames(session) <= RouteWindow
    /\ Accounted(worker) <= queueUnits /\ ControlAccounted(worker) <= controlUnits

\* A caller that is told its command was not accepted (refused at admission,
\* withdrawn at its deadline, refused at its hand-over, lost unsent with the
\* contact, or answered BUSY by the worker) can rely on it: the worker never
\* executes that command, then or later.
AnswerSound ==
    \A r \in DOMAIN session.answer :
        /\ session.answer[r] \in NotAccepted => r \notin Range(worker.started)
        /\ session.answer[r] \in {"accepted", "refused"} => r \in Range(worker.started)

\* A runtime that keeps its windows never makes the worker fail closed, with one
\* exception the endpoint's slots leave: a status, stop or ordinary slot is held
\* until the write callback, so a runtime that read the reply before it and sends
\* the next command can meet a taken slot with no reply slot left.
ConformingNeverShutDown ==
    worker.reason \in {"", "stdin-eof"} \/ (budget.early /\ worker.reason = "rejection-slot-exhausted")

IssueIndex(r) == CHOOSE i \in DOMAIN issued : issued[i] = r

\* Route control (ACKs and unsubscribes) is executed in the order it was issued,
\* across waiting in the runtime, a full transport, parking and deferral.
RouteControlInOrder ==
    \A i, j \in DOMAIN worker.started :
        i < j /\ Progress(worker.started[i]) /\ Progress(worker.started[j]) =>
            IssueIndex(worker.started[i]) < IssueIndex(worker.started[j])

\* The ACK of a live subscription is never refused for capacity: not by a full
\* window, a full transport, the identity limit or the worker's admission.  (Its
\* execution may refuse it for what it acknowledges or for a route that is gone.)
AckNeverRefused ==
    \A r \in DOMAIN session.answer : r.type = "ack" => session.answer[r] \notin {"BUSY", "busy", "RUN_NOT_FOUND"}

\* The spawn of the run was answered without ever reaching the worker.
SpawnUnsent(run) ==
    \E r \in DOMAIN session.answer :
        r.type = "spawn" /\ r.run = run /\ session.answer[r] \in NotAccepted \ {"busy"}

\* Once its unsubscribe is answered and no opener is pending, a subscription holds
\* no route: otherwise the routes of a worker run out over its life.  The exception
\* is a subscription to a run whose spawn was never sent: no one withdraws it.
RoutesReclaimed ==
    \A sub \in DOMAIN session.routes :
        \A r \in OfSub(sub, {"unsubscribe"}) :
            \/ Outstanding(r)
            \/ \E q \in DOMAIN session.pending : q.type \in Openers /\ q.sub = sub
            \/ SpawnUnsent(r.run)

\* Releasing the reservation of a spawn that was never written also drops the
\* session's record of the run, once no command for it is pending.
UnsentRunForgotten ==
    session.state = "ready" =>
        \A run \in session.runs :
            SpawnUnsent(run) => \E r \in DOMAIN session.pending : r.run = run

\* The runs the runtime keeps are the runs the worker may own.  A run whose identity the
\* worker keeps, started or with an unknown result, has its record and its place in the
\* session: capacity is never freed under a running terminal.  And a record whose spawn is
\* over is such a run, or one whose spawn threw in the worker and was answered unknown: a
\* definite refusal, also one that comes after the deadline, holds no capacity.
RecordsMatchRuns ==
    session.state = "ready" =>
        /\ worker.runs \subseteq DOMAIN session.placed \cap session.runs
        /\ \A r \in Range(issued) :
              r.type = "spawn" /\ r \notin DOMAIN session.pending /\ r.run \in DOMAIN session.placed =>
                  r.run \in worker.runs \cup worker.threw

\* Nothing more happens by itself in either process: no frame, reply, callback or
\* drain is on its way, no command executes and no deadline is ahead.
Resting ==
    /\ Quiet /\ session.handed = <<>> /\ (session.blocked => session.state = "closed")
    /\ session.down # <<>> => worker.paused \/ worker.state = "closed"
    /\ worker.up = <<>> /\ worker.transport = <<>> /\ ~worker.blocked
    /\ worker.state = "ready" => Executing(worker, TRUE) \cup Executing(worker, FALSE) = {}
    /\ worker.state = "closed" => session.state \notin {"hello", "ready"}
    /\ Expired(session) = {} /\ \A i \in DOMAIN session.statusWaiters : StatusLive(session, session.statusWaiters[i])
    /\ budget.late > 0 =>
          \A r \in DOMAIN session.pending \cup Range(session.statusWaiters) : Progress(r) \/ r \in session.overdue

\* No command is left without an answer: the worker's, one at its deadline, or one
\* with the contact.  When both processes have come to rest, every command that was
\* issued is answered: no reply slot, route window or status window is waited for
\* that no one will free.
NothingStuck ==
    Resting => \A i \in DOMAIN issued : ~Outstanding(issued[i])
=============================================================================
