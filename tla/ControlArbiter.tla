---------------------------- MODULE ControlArbiter ----------------------------
(***************************************************************************)
(* Who may type into a terminal.  The server's control arbiter             *)
(* (apps/server/src/terminal/control-arbiter.ts) puts the focus, blur,     *)
(* input and resize commands of every connection of one run, and the       *)
(* programmatic inputs of business calls, in one order; the run's worker   *)
(* (RunControl) decides each of them again.  The arbiter acts on a         *)
(* boundary, its last knowledge of the worker's control epoch, holder and  *)
(* size, which it learns from results, from status reads and from the      *)
(* facts of any subscription's event stream.                               *)
(*                                                                         *)
(* The drain loop of a run awaits one reply at a time.  Each stretch       *)
(* between two awaits is one step here.  The reply of a command may be     *)
(* late: the caller then continues with RESULT_UNKNOWN while the command   *)
(* is still on its way or in the pump.                                     *)
(***************************************************************************)
EXTENDS RunControl, FiniteSetsExt

CONSTANTS MaxJobs,      \* bound: commands admitted
          Scenarios     \* what the environment may do in a behaviour: the kinds of command and
                        \* the sizes clients send, and how many times each of the rest happens

Bounded == {"jobs", "recoveries", "expiries", "refusals", "failures", "leaves", "exits", "disposals"}
ASSUME ScenariosAssumption ==
  /\ MaxJobs \in Nat
  /\ \A plan \in Scenarios :
       /\ plan.kinds \subseteq {"focus", "blur", "input", "resize", "program"}
       /\ plan.sizes \subseteq Geometries /\ firstSize \in plan.sizes
       /\ \A what \in Bounded : plan[what] \in Nat
       /\ plan.jobs <= MaxJobs /\ ~plan.late

VARIABLES
  arb,      \* the arbiter's record of the run
  routes,   \* the server's subscription routes
  pipe,     \* commands on their way to the worker
  worker,   \* the worker's side of the run
  budget    \* what the environment may still do, and whether a reply missed its deadline

vars == <<arb, routes, pipe, worker, budget>>

NoBoundary == [epoch |-> -1, holder |-> None, geometry |-> firstSize, atSeq |-> -1]
NoCounter == [present |-> FALSE, grantEpoch |-> 0, grantAtSeq |-> 0, retired |-> FALSE,
              cleanup |-> "none", cleanupEpoch |-> 0]
(* tainted remembers that an earlier programmatic input of the job's batch failed. *)
Job(kind, sub, attempt, geometry, epoch) ==
  [kind |-> kind, sub |-> sub, attempt |-> attempt, geometry |-> geometry, epoch |-> epoch,
   ready |-> FALSE, cancelled |-> FALSE, tainted |-> FALSE]

Init ==
  /\ arb = [boundary |-> NoBoundary, uncertain |-> FALSE, queue |-> <<>>, programFailure |-> FALSE,
            counters |-> [s \in Subs |-> NoCounter], phase |-> "idle", captured |-> NoBoundary,
            cleaning |-> None, exitSeen |-> FALSE, disposed |-> FALSE, released |-> FALSE]
  /\ routes = [s \in Subs |-> [phase |-> "active", attempt |-> 1, installed |-> TRUE,
                               applied |-> 0, stuck |-> FALSE]]
  /\ pipe = <<>>
  /\ worker = WorkerInit
  /\ budget \in Scenarios

-------------------------------------------------------------------------------
(* The route of a command: current() and installed() of its context. *)

Current(a, r, job) ==
  /\ ~a.disposed /\ ~a.counters[job.sub].retired
  /\ r[job.sub].phase = "active" /\ r[job.sub].attempt = job.attempt
Installed(a, r, job, atSeq) ==
  Current(a, r, job) /\ r[job.sub].installed /\ r[job.sub].applied >= atSeq

Matches(holder, s) == holder = s

-------------------------------------------------------------------------------
(* The drain loop.  Each operator returns the arbiter's record and the command it hands to the *)
(* worker's pipe, if any.                                                                      *)

Then(a) == [arb |-> a, send |-> NoCommand]
AndSend(a, command) == [arb |-> a, send |-> command]

Drain(a) == IF a.phase = "idle" THEN [a EXCEPT !.phase = "step"] ELSE a

Queued(a, s) == \E i \in DOMAIN a.queue : a.queue[i].sub = s

Prune_KeepCleaned(a) ==
  IF a.disposed THEN a
  ELSE [a EXCEPT !.counters = [s \in Subs |->
          IF @[s].retired /\ @[s].cleanup = "none" /\ ~Queued(a, s) THEN NoCounter ELSE @[s]]]
Prune(a) ==
  IF a.disposed THEN a
  ELSE [a EXCEPT !.counters = [s \in Subs |->
          IF @[s].retired /\ @[s].cleanup # "pending" /\ ~Queued(a, s) THEN NoCounter ELSE @[s]]]

(* The end of a drain: it restarts when a job became ready meanwhile. *)
Finish_NoRestart(a) ==
  IF a.disposed /\ a.queue = <<>>
    THEN [a EXCEPT !.phase = "idle", !.released = TRUE, !.counters = [s \in Subs |-> NoCounter]]
  ELSE Prune([a EXCEPT !.phase = "idle"])
Finish(a) ==
  IF a.disposed /\ a.queue = <<>>
    THEN [a EXCEPT !.phase = "idle", !.released = TRUE, !.counters = [s \in Subs |-> NoCounter]]
  ELSE IF a.queue # <<>> /\ Head(a.queue).ready THEN [a EXCEPT !.phase = "step"]
  ELSE Prune([a EXCEPT !.phase = "idle"])

Settle(a) == [a EXCEPT !.queue = Tail(@), !.phase = "step"]

IsProgram(job) == job.kind = "program"
Taint(queue) ==
  [i \in DOMAIN queue |-> [queue[i] EXCEPT !.tainted = @ \/ IsProgram(queue[i])]]

(* A programmatic input that was not written fails every dependent one admitted before. *)
SettleProgram_Forget(a, written) ==
  [a EXCEPT !.queue = IF written THEN Tail(@) ELSE Taint(Tail(@)), !.phase = "step"]
SettleProgram(a, written) ==
  LET rest == IF written THEN Tail(a.queue) ELSE Taint(Tail(a.queue))
  IN  [a EXCEPT !.queue = rest, !.phase = "step",
                !.programFailure = (@ \/ ~written) /\ \E i \in DOMAIN rest : IsProgram(rest[i])]

SettleFailed(a) == IF IsProgram(Head(a.queue)) THEN SettleProgram(a, FALSE) ELSE Settle(a)

Control(b, next, holder, geometry) == Command("control", None, b.epoch, next, holder, geometry)

(* perform() from the boundary on: the command of the head job, if its authority still stands. *)
Dispatch(a, r) ==
  LET job == Head(a.queue)
      b == a.boundary
      counter == a.counters[job.sub]
      sent == [a EXCEPT !.phase = "sent", !.captured = b]
  IN  IF job.kind = "focus" THEN AndSend(sent, Control(b, b.epoch + 1, job.sub, job.geometry))
      ELSE IF ~(Matches(b.holder, job.sub) /\ b.epoch = job.epoch /\ counter.grantEpoch = job.epoch)
        THEN Then(Settle(a))
      ELSE IF job.kind = "blur" THEN AndSend(sent, Control(b, b.epoch, None, b.geometry))
      ELSE IF ~Installed(a, r, job, b.atSeq) \/ ~Installed(a, r, job, counter.grantAtSeq)
        THEN Then(Settle(a))
      ELSE AndSend(sent, Command(job.kind, job.sub, job.epoch, 0, None, job.geometry))

StatusRead(a, free) ==
  IF free THEN AndSend([a EXCEPT !.phase = "status"], Command("status", None, 0, 0, None, firstSize))
  ELSE Then(SettleFailed(a))

(* perform() and performProgrammatic() up to their first await. *)
Perform(a, r, free) ==
  LET job == Head(a.queue)
  IN  IF IsProgram(job)
        THEN IF job.cancelled \/ a.programFailure \/ a.disposed \/ a.exitSeen
               THEN Then(SettleFailed(a)) ELSE StatusRead(a, free)
      ELSE IF ~Installed(a, r, job, 0) THEN Then(Settle(a))
      ELSE IF a.boundary # NoBoundary /\ ~a.uncertain THEN Dispatch(a, r)
      ELSE StatusRead(a, free)

(* cleanup(): release the control a retired subscription still holds. *)
Cleanup(a) ==
  LET pending == {s \in Subs : a.counters[s].cleanup = "pending"}
      due == {s \in pending : /\ Matches(a.boundary.holder, s)
                              /\ a.boundary.epoch = a.counters[s].cleanupEpoch}
      kept == [a EXCEPT !.counters = [s \in Subs |->
                 IF s \in pending \ due THEN [@[s] EXCEPT !.cleanup = "none"] ELSE @[s]]]
      b == a.boundary
  IN  IF due = {} \/ a.uncertain \/ a.disposed THEN Then(Finish(kept))
      ELSE AndSend([kept EXCEPT !.phase = "release", !.captured = b,
                                !.cleaning = CHOOSE s \in due : TRUE],
                   Control(b, b.epoch, None, b.geometry))

(* One turn of the loop. *)
DrainStep(a, r, free) ==
  IF a.queue = <<>> THEN Cleanup(a)
  ELSE IF Head(a.queue).ready THEN Perform(a, r, free)
  ELSE Then(Finish(a))

-------------------------------------------------------------------------------
(* The continuations of the awaits. *)

Learn(a, reply) ==
  [a EXCEPT !.boundary = [epoch |-> reply.epoch, holder |-> reply.holder,
                          geometry |-> reply.geometry, atSeq |-> reply.atSeq],
            !.uncertain = FALSE]

(* boundary() and the status read of performProgrammatic(). *)
OnStatus(a, r, reply) ==
  LET job == Head(a.queue)
      failed == reply.outcome # "accepted" \/ reply.exited \/ a.boundary.atSeq > reply.atSeq
      seen == [a EXCEPT !.exitSeen = @ \/ reply.exited]
      learned == Learn(a, reply)
  IN  IF IsProgram(job)
        THEN IF failed \/ a.disposed \/ a.exitSeen THEN Then(SettleProgram(seen, FALSE))
             ELSE IF reply.holder # None \/ reply.epoch # job.epoch
               THEN Then(SettleProgram(learned, FALSE))
             ELSE Then([learned EXCEPT !.phase = "accept"])
      ELSE IF failed \/ ~Current(a, r, job) THEN Then(Settle(seen))
      ELSE Dispatch(learned, r)

(* The receipt of a programmatic input is durable, or could not be written. *)
OnAccept(a, durable) ==
  LET job == Head(a.queue)
  IN  IF ~durable \/ a.disposed \/ a.exitSeen THEN Then(SettleProgram(a, FALSE))
      ELSE AndSend([a EXCEPT !.phase = "sent", !.captured = a.boundary],
                   Command("program", None, job.epoch, 0, None, firstSize))

(* The boundary after an accepted control command of job s. *)
Accepted_OldSize(a, job, reply) ==
  LET moved == [a.captured EXCEPT !.atSeq = reply.atSeq]
      epoch == a.captured.epoch + 1
  IN  IF job.kind = "focus"
        THEN [a EXCEPT !.boundary = [moved EXCEPT !.epoch = epoch, !.holder = job.sub],
                       !.counters[job.sub] = [@ EXCEPT !.grantEpoch = epoch, !.grantAtSeq = reply.atSeq]]
      ELSE [a EXCEPT !.boundary = IF job.kind = "blur" THEN [moved EXCEPT !.holder = None] ELSE moved]
Accepted(a, job, reply) ==
  LET moved == [a.captured EXCEPT !.atSeq = reply.atSeq]
      epoch == a.captured.epoch + 1
  IN  IF job.kind = "focus"
        THEN [a EXCEPT !.boundary = [moved EXCEPT !.epoch = epoch, !.holder = job.sub,
                                                  !.geometry = job.geometry],
                       !.counters[job.sub] =
                         [@ EXCEPT !.grantEpoch = epoch, !.grantAtSeq = reply.atSeq,
                                   !.cleanup = IF a.counters[job.sub].retired THEN "pending" ELSE @,
                                   !.cleanupEpoch = IF a.counters[job.sub].retired THEN epoch ELSE @]]
      ELSE [a EXCEPT !.boundary = IF job.kind = "blur" THEN [moved EXCEPT !.holder = None]
                                  ELSE [moved EXCEPT !.geometry = job.geometry]]

(* perform() after its command was answered. *)
OnResult_AnyAnswer(a, reply) ==
  LET job == Head(a.queue)
  IN  IF IsProgram(job) THEN SettleProgram(a, reply.outcome = "accepted")
      ELSE IF job.kind = "input" \/ reply.outcome = "unknown" THEN Settle(a)
      ELSE Settle(Accepted(a, job, reply))
OnResult(a, reply) ==
  LET job == Head(a.queue)
  IN  IF IsProgram(job) THEN SettleProgram(a, reply.outcome = "accepted")
      ELSE IF job.kind = "input" THEN Settle(a)
      ELSE IF reply.outcome # "accepted"
        THEN Settle([a EXCEPT !.uncertain = @ \/ reply.outcome \in {"unknown", "stale"}])
      ELSE IF reply.atSeq < a.captured.atSeq THEN Settle([a EXCEPT !.uncertain = TRUE])
      ELSE IF a.boundary.atSeq > reply.atSeq THEN Settle(a)
      ELSE Settle(Accepted(a, job, reply))

(* cleanup() after its release was answered. *)
OnReleased_Assumed(a, reply) ==
  Finish([a EXCEPT !.cleaning = None, !.captured = NoBoundary, !.counters[a.cleaning].cleanup = "none",
                   !.boundary = [a.captured EXCEPT !.holder = None]])
OnReleased(a, reply) ==
  LET s == a.cleaning
      taken == reply.outcome = "accepted" /\ reply.atSeq >= a.captured.atSeq
      done == [a EXCEPT !.cleaning = None, !.captured = NoBoundary]
  IN  IF reply.outcome = "busy" THEN Finish(done)
      ELSE IF ~taken
        THEN Finish([done EXCEPT !.counters[s].cleanup = "unknown", !.uncertain = TRUE])
      ELSE Finish([done EXCEPT
             !.counters[s].cleanup = "none",
             !.boundary = IF @ = a.captured \/ @.atSeq <= reply.atSeq
                            THEN [a.captured EXCEPT !.holder = None, !.atSeq = reply.atSeq] ELSE @])

OnReply(a, r, reply) ==
  CASE a.phase = "status" -> OnStatus(a, r, reply)
    [] a.phase = "sent" -> Then([OnResult(a, reply) EXCEPT !.captured = NoBoundary])
    [] a.phase = "release" -> Then(OnReleased(a, reply))

(* A fact of some subscription's stream (the listener of the constructor). *)
OnEvent_AnySeq(a, fact) ==
  CASE fact.type = "control" ->
         [a EXCEPT !.boundary = [epoch |-> fact.epoch, holder |-> fact.holder,
                                 geometry |-> fact.geometry, atSeq |-> fact.seq]]
    [] fact.type = "resize" /\ a.boundary # NoBoundary ->
         [a EXCEPT !.boundary = [@ EXCEPT !.geometry = fact.geometry, !.atSeq = fact.seq]]
    [] fact.type = "exit" -> [a EXCEPT !.uncertain = TRUE, !.exitSeen = TRUE]
    [] OTHER -> a
OnEvent(a, fact) ==
  LET seen == [a EXCEPT !.exitSeen = @ \/ fact.type = "exit"]
  IN  CASE fact.seq <= a.boundary.atSeq -> seen
        [] fact.seq > a.boundary.atSeq /\ fact.type = "control" ->
             [a EXCEPT !.boundary = [epoch |-> fact.epoch, holder |-> fact.holder,
                                     geometry |-> fact.geometry, atSeq |-> fact.seq]]
        [] fact.seq > a.boundary.atSeq /\ fact.type = "resize" /\ a.boundary # NoBoundary ->
             [a EXCEPT !.boundary = [@ EXCEPT !.geometry = fact.geometry, !.atSeq = fact.seq]]
        [] fact.seq > a.boundary.atSeq /\ fact.type = "exit" -> [seen EXCEPT !.uncertain = TRUE]
        [] OTHER -> a

(* retire(): its queued jobs may run to their refusal, and control it holds is to be released. *)
RetireCounter_DropJobs(a, s) ==
  IF ~a.counters[s].present THEN a
  ELSE Drain([a EXCEPT !.counters[s].retired = TRUE,
                       !.queue = SelectSeq(@, LAMBDA job : job.sub # s)])
RetireCounter_NoCleanup(a, s) ==
  IF ~a.counters[s].present THEN a
  ELSE Drain([a EXCEPT
         !.counters[s].retired = TRUE,
         !.queue = [i \in DOMAIN @ |-> [@[i] EXCEPT !.ready = @ \/ a.queue[i].sub = s]]])
RetireCounter(a, s) ==
  IF ~a.counters[s].present THEN a
  ELSE Drain([a EXCEPT
         !.counters[s] = [@ EXCEPT
           !.retired = TRUE,
           !.cleanup = IF Matches(a.boundary.holder, s) THEN "pending" ELSE @,
           !.cleanupEpoch = IF Matches(a.boundary.holder, s) THEN a.boundary.epoch ELSE @],
         !.queue = [i \in DOMAIN @ |-> [@[i] EXCEPT !.ready = @ \/ a.queue[i].sub = s]]])

-------------------------------------------------------------------------------
(* Actions.  Outcome carries a continuation's record and its command into the next state. *)

Send(command) == pipe' = IF command = NoCommand THEN pipe ELSE Append(pipe, command)
Outcome(result) == arb' = result.arb /\ Send(result.send)
Spend(what) == budget[what] > 0 /\ budget' = [budget EXCEPT ![what] = @ - 1]

(* The code runs a stretch to its next await before any other event of the server, so nothing  *)
(* interleaves with a step that is due.                                                        *)
Quiet == arb.phase # "step"

Room(kind) == kind \in budget.kinds /\ ~arb.disposed

(* A client command that its route queue hands to admit().  The epoch is whatever it claims. *)
Admit(s) ==
  /\ Quiet
  /\ routes[s].phase = "active" /\ ~arb.counters[s].retired
  /\ \E kind \in budget.kinds \ {"program"}, geometry \in budget.sizes, epoch \in 0 .. worker.epoch :
       /\ Room(kind)
       /\ kind \in {"focus", "resize"} \/ geometry = firstSize
       /\ (kind = "focus") <=> (epoch = 0)
       /\ arb' = [arb EXCEPT !.queue = Append(@, Job(kind, s, routes[s].attempt, geometry, epoch)),
                             !.counters[s].present = TRUE]
  /\ Spend("jobs")
  /\ UNCHANGED <<routes, pipe, worker>>

(* execute(): the route queue reached the command, which is the first of its subscription. *)
Execute(i) ==
  /\ Quiet
  /\ i \in DOMAIN arb.queue
  /\ ~arb.queue[i].ready /\ ~IsProgram(arb.queue[i])
  /\ \A j \in 1 .. i - 1 : arb.queue[j].sub # arb.queue[i].sub
  /\ arb' = Drain([arb EXCEPT !.queue[i].ready = TRUE])
  /\ UNCHANGED <<routes, pipe, worker, budget>>

(* admitProgrammatic(): refused while an earlier failure is still being settled. *)
AdmitProgrammatic ==
  /\ Quiet
  /\ Room("program") /\ ~arb.programFailure
  /\ \E epoch \in 0 .. worker.epoch :
       arb' = [arb EXCEPT !.queue = Append(@, Job("program", None, 0, firstSize, epoch))]
  /\ Spend("jobs")
  /\ UNCHANGED <<routes, pipe, worker>>

(* executeProgrammatic() or cancelProgrammatic(), when the receipt could not be prepared. *)
ExecuteProgrammatic(i) ==
  /\ Quiet
  /\ i \in DOMAIN arb.queue /\ IsProgram(arb.queue[i]) /\ ~arb.queue[i].ready
  /\ \E cancelled \in BOOLEAN :
       arb' = Drain([arb EXCEPT !.queue[i].ready = TRUE, !.queue[i].cancelled = cancelled])
  /\ UNCHANGED <<routes, pipe, worker, budget>>

(* A command that missed its deadline keeps the worker's status window until its late reply. *)
Abandoned(c) == c.op = "status" /\ ~c.live
StatusWindowFree ==
  /\ \A i \in DOMAIN pipe : ~Abandoned(pipe[i])
  /\ \A i \in DOMAIN worker.pending : ~Abandoned(worker.pending[i])
  /\ \A i \in DOMAIN worker.replies : ~Abandoned(worker.replies[i])

Step ==
  /\ arb.phase = "step"
  /\ Outcome(DrainStep(arb, routes, StatusWindowFree))
  /\ UNCHANGED <<routes, worker, budget>>

(* The store settled the receipt of the programmatic input at the head. *)
Accept ==
  /\ arb.phase = "accept"
  /\ \E durable \in BOOLEAN : Outcome(OnAccept(arb, durable))
  /\ UNCHANGED <<routes, worker, budget>>

(* A reply of the worker; a late one only ends its correlation. *)
ReplyArrives ==
  /\ Quiet
  /\ worker.replies # <<>>
  /\ LET reply == Head(worker.replies)
     IN  IF reply.live THEN Outcome(OnReply(arb, routes, reply)) ELSE UNCHANGED <<arb, pipe>>
  /\ worker' = [worker EXCEPT !.replies = Tail(@)]
  /\ UNCHANGED <<routes, budget>>

Awaiting == arb.phase \in {"status", "sent", "release"}
Answer(outcome) == [outcome |-> outcome, epoch |-> 0, holder |-> None, geometry |-> firstSize,
                    atSeq |-> 0, exited |-> FALSE]
Forget(seq) == [i \in DOMAIN seq |-> [seq[i] EXCEPT !.live = FALSE]]

(* The deadline of the awaited command passes while it is on its way, in the pump or answered. *)
Expire ==
  /\ Awaiting
  /\ LET result == OnReply(arb, routes, Answer("unknown"))
     IN  /\ arb' = result.arb
         /\ pipe' = Forget(pipe)
  /\ worker' = [worker EXCEPT !.pending = Forget(@), !.replies = Forget(@), !.running.live = FALSE]
  /\ budget.expiries > 0 /\ budget' = [budget EXCEPT !.expiries = @ - 1, !.late = TRUE]
  /\ UNCHANGED routes

(* The awaited command never reaches the worker: its window was full or its frame withdrawn. *)
Refuse ==
  /\ Awaiting
  /\ \E i \in DOMAIN pipe :
       /\ pipe[i].live /\ pipe[i].op \notin {"unsubscribe", "recover"}
       /\ pipe' = [j \in 1 .. Len(pipe) - 1 |-> IF j < i THEN pipe[j] ELSE pipe[j + 1]]
       /\ arb' = OnReply(arb, routes, Answer("busy")).arb
  /\ Spend("refusals")
  /\ UNCHANGED <<routes, worker>>

(* A fact reaches the server, and the client that applies it.  A resize fact asks the client   *)
(* for a new baseline instead.  Facts of a withdrawn subscription are fenced at the pipe.      *)
DeliverEvent(s) ==
  /\ Quiet
  /\ worker.streams[s] # <<>> /\ routes[s].phase # "opening"
  /\ LET fact == Head(worker.streams[s])
     IN  /\ arb' = IF routes[s].phase = "gone" THEN arb ELSE OnEvent(arb, fact)
         /\ routes' = IF routes[s].stuck \/ ~routes[s].installed THEN routes
                      ELSE IF fact.type = "resize" THEN [routes EXCEPT ![s].stuck = TRUE]
                      ELSE [routes EXCEPT ![s].applied = fact.seq]
  /\ worker' = [worker EXCEPT !.streams[s] = Tail(@)]
  /\ UNCHANGED <<pipe, budget>>

(* A recover command of the client, after its earlier commands settled. *)
Recover(s) ==
  /\ Quiet
  /\ routes[s].phase = "active" /\ Spend("recoveries")
  /\ \A i \in DOMAIN arb.queue : arb.queue[i].sub = s => ~arb.queue[i].ready
  /\ routes' = [routes EXCEPT ![s] = [@ EXCEPT !.phase = "opening", !.attempt = @ + 1,
                                               !.installed = FALSE, !.stuck = FALSE]]
  /\ Send(Command("recover", s, 0, 0, None, firstSize))
  /\ UNCHANGED <<arb, worker>>

(* The recovery marker, then the acknowledged baseline.  The route queue holds later commands  *)
(* until the worker accepted the acknowledgement, so both sides install together.              *)
Marker(s) ==
  /\ Quiet
  /\ routes[s].phase = "opening" /\ s \in worker.open
  /\ routes' = [routes EXCEPT ![s].phase = "active"]
  /\ UNCHANGED <<arb, pipe, worker, budget>>
Install(s) ==
  /\ Quiet
  /\ routes[s].phase = "active" /\ ~routes[s].installed
  /\ s \in worker.open /\ worker.streams[s] = <<>>
  /\ routes' = [routes EXCEPT ![s].installed = TRUE, ![s].applied = worker.base[s]]
  /\ worker' = Installs(worker, s)
  /\ UNCHANGED <<arb, pipe, budget>>

(* A subscription ends: detached, failed, or its connection closed or revoked. *)
Retire(s) ==
  /\ Quiet
  /\ Spend("leaves") /\ routes[s].phase \in {"active", "opening"}
  /\ routes' = [routes EXCEPT ![s] = [@ EXCEPT !.phase = "retired", !.installed = FALSE]]
  /\ arb' = RetireCounter(arb, s)
  /\ UNCHANGED <<pipe, worker>>
Unsubscribe(s) ==
  /\ Quiet
  /\ routes[s].phase = "retired"
  /\ routes' = [routes EXCEPT ![s].phase = "gone"]
  /\ Send(Command("unsubscribe", s, 0, 0, None, firstSize))
  /\ UNCHANGED <<arb, worker, budget>>

(* The periodic tick drains every run; only a release that is due finds something to do. *)
Tick ==
  /\ arb.phase = "idle" /\ arb.queue = <<>> /\ ~arb.uncertain /\ ~arb.disposed
  /\ \E s \in Subs : arb.counters[s].cleanup = "pending"
  /\ arb' = Drain(arb)
  /\ UNCHANGED <<routes, pipe, worker, budget>>

Dispose ==
  /\ Quiet
  /\ Spend("disposals") /\ ~arb.disposed
  /\ LET a == [arb EXCEPT !.disposed = TRUE,
                          !.queue = [i \in DOMAIN @ |-> [@[i] EXCEPT !.ready = TRUE]]]
     IN  arb' = IF a.phase = "idle" /\ a.queue = <<>> THEN Finish(a) ELSE Drain(a)
  /\ UNCHANGED <<routes, pipe, worker>>

WorkerReceive ==
  /\ Quiet
  /\ pipe # <<>>
  /\ worker' = Receive(worker, Head(pipe))
  /\ pipe' = Tail(pipe)
  /\ UNCHANGED <<arb, routes, budget>>
Pump ==
  /\ Quiet
  /\ \/ worker.running # NoCommand /\ worker' = PumpEnd(worker)
     \/ worker.running = NoCommand /\ worker.pending # <<>> /\ worker' = PumpBegin(worker)
  /\ UNCHANGED <<arb, routes, pipe, budget>>
PumpFail ==
  /\ Quiet
  /\ worker.running = NoCommand /\ worker.pending # <<>>
  /\ MayFail(worker) /\ worker' = PumpFails(worker)
  /\ Spend("failures")
  /\ UNCHANGED <<arb, routes, pipe>>
Exit ==
  /\ Quiet
  /\ Spend("exits") /\ ~worker.exited
  /\ worker' = Exits(worker)
  /\ UNCHANGED <<arb, routes, pipe>>

Next ==
  \/ Step
  \/ \E s \in Subs : \/ Admit(s) \/ DeliverEvent(s) \/ Recover(s) \/ Marker(s)
                     \/ Install(s) \/ Retire(s) \/ Unsubscribe(s)
  \/ \E i \in 1 .. MaxJobs : Execute(i) \/ ExecuteProgrammatic(i)
  \/ AdmitProgrammatic \/ Accept \/ ReplyArrives \/ Expire \/ Refuse
  \/ Tick \/ Dispose \/ WorkerReceive \/ Pump \/ PumpFail \/ Exit

Spec == Init /\ [][Next]_vars

(* The steps that are always taken in the end: the event loop runs what is ready, the worker   *)
(* reads its pipe and runs its pump, its frames arrive, and the runtime's clock ticks.         *)
Fairness ==
  /\ WF_vars(Step) /\ WF_vars(Accept) /\ WF_vars(ReplyArrives) /\ WF_vars(Tick)
  /\ WF_vars(WorkerReceive) /\ WF_vars(Pump)
  /\ WF_vars(\E i \in 1 .. MaxJobs : Execute(i) \/ ExecuteProgrammatic(i))
  /\ \A s \in Subs : WF_vars(Unsubscribe(s))
FairSpec == Spec /\ Fairness

-------------------------------------------------------------------------------
(* Properties *)

Epochs == 0 .. MaxJobs
Seqs == 0 .. 2 * (MaxJobs + Cardinality(Subs)) + 1
Boundaries == [epoch : Epochs \cup {-1}, holder : Holders, geometry : Geometries,
               atSeq : Seqs \cup {-1}]

(* Every record of the arbiter, the routes and the worker has the shape the code gives it. *)
TypeOK ==
  /\ arb.boundary \in Boundaries /\ arb.captured \in Boundaries
  /\ arb.phase \in {"idle", "step", "status", "accept", "sent", "release"}
  /\ arb.cleaning \in Holders
  /\ \A s \in Subs :
       /\ arb.counters[s] \in [present : BOOLEAN, grantEpoch : Epochs, grantAtSeq : Seqs,
                               retired : BOOLEAN, cleanup : {"none", "pending", "unknown"},
                               cleanupEpoch : Epochs]
       /\ routes[s] \in [phase : {"active", "opening", "retired", "gone"}, attempt : Nat,
                         installed : BOOLEAN, applied : Seqs, stuck : BOOLEAN]
  /\ worker.epoch \in Epochs /\ worker.holder \in Holders /\ worker.seq \in Seqs
  /\ worker.installed \subseteq worker.open /\ worker.open \subseteq Subs
  /\ arb.phase \in {"status", "accept", "sent"} => arb.queue # <<>>

(* A subscription that was told it holds an epoch does hold it at the worker, unless it was    *)
(* blurred or a later epoch took over; no two subscriptions are ever told the same epoch.      *)
(* The arbiter computes the epoch of a grant from its own boundary, the worker from its own    *)
(* state, and facts, status reads and late replies move the two apart.                         *)
GrantsAreReal ==
  \A s \in Subs : LET e == arb.counters[s].grantEpoch IN e > 0 =>
    /\ e <= worker.epoch
    /\ e = worker.epoch => worker.holder \in {s, None}
    /\ \A t \in Subs \ {s} : arb.counters[t].grantEpoch # e

(* The boundary the arbiter decides on may lag the worker but never invents authority: its     *)
(* epoch and position were reached, and within the worker's epoch it names the holder or one   *)
(* that has blurred since.  A control change in the pump may already be published.             *)
BoundaryNeverInvents ==
  LET b == arb.boundary
      next == worker.running
      changing == next.op = "control"
  IN  /\ b.atSeq <= worker.seq
      /\ b.epoch <= worker.epoch \/ (changing /\ b.epoch = next.next /\ b.holder = next.holder)
      /\ b.epoch = worker.epoch /\ b.holder # worker.holder =>
           worker.holder = None \/ (changing /\ b.holder = next.holder)

(* The order of control facts and input is one history: nothing is written for an epoch after  *)
(* a later one was announced, one epoch has the input of its holder only, and nothing of the   *)
(* holder after its release or after a program wrote in it.  The arbiter may decide on a stale *)
(* boundary; runOperation() repeats the decision for this.                                     *)
InputSerialized ==
  \A i \in DOMAIN worker.log : \A j \in i + 1 .. Len(worker.log) :
    LET first == worker.log[i]
        later == worker.log[j]
    IN  /\ first.epoch <= later.epoch
        /\ first.epoch = later.epoch => later.sub \in {first.sub, None}

(* When one programmatic input of a batch was not written in full, no dependent one that was   *)
(* admitted before its failure settled is written: programFailure lasts exactly that long.     *)
FailedBatchWritesNothing ==
  arb.phase \in {"accept", "sent"} => ~Head(arb.queue).tainted

(* A subscription's record outlives it only while its control still has to be released, so a   *)
(* run admits any number of subscriptions over its life (prune).                               *)
NoCounterLeak ==
  arb.phase = "idle" =>
    \A s \in Subs : arb.counters[s].retired => arb.counters[s].cleanup = "pending" \/ Queued(arb, s)

(* What the arbiter knows of a run only moves forward: a fact of a slow stream, a status read   *)
(* or a late result never takes the boundary back to an earlier position, nor to an earlier    *)
(* epoch unless a reply was late.  (After a late reply it can: a status read that the worker   *)
(* answers between publishing a control fact and changing its epoch has the position of the    *)
(* one and the epoch of the other, and boundary() accepts an equal position.)                  *)
BoundaryMonotonic ==
  [][/\ arb.boundary.atSeq <= arb'.boundary.atSeq
     /\ arb.boundary.epoch <= arb'.boundary.epoch \/ budget.late]_vars

(* Releasing control, by a blur or for a subscription that ended, leaves the size alone: the   *)
(* release repeats the size of the arbiter's boundary, which must still be the worker's.       *)
(* (When the reply of a resize was late the boundary may hold the old size, from a status read *)
(* answered ahead of the queued resize, and the release then resizes back.)                    *)
ReleaseKeepsSize ==
  [][LET begun == worker'.running
     IN  worker.running = NoCommand /\ begun.op = "control" /\ begun.holder = None
           => worker'.geometry = worker.geometry \/ budget.late]_vars

(* A subscription that ended does not keep control of the terminal: the arbiter releases what  *)
(* it held, unless the run itself can no longer be written or the arbiter was disposed.        *)
EndedWithControl(s) ==
  routes[s].phase = "gone" /\ worker.holder = s /\ ~worker.fenced /\ ~worker.exited /\ ~arb.disposed
ControlReleased == \A s \in Subs : EndedWithControl(s) ~> ~EndedWithControl(s)

(* The same as long as no reply is late: what the retirement of a counter is meant to ensure.  *)
ControlReleasedInTime ==
  \A s \in Subs : EndedWithControl(s) ~> ~EndedWithControl(s) \/ budget.late

(* Every admitted command is answered: the one queue of a run never stalls behind a command    *)
(* whose route ended, whose reply is late or whose worker refused it.                          *)
EveryJobAnswered == []<>(arb.queue = <<>>)

(* While fewer subscriptions are open than the worker has input identities, the one in control *)
(* can type: identities of ended subscriptions must not use them up.                           *)
ControllerCanType ==
  worker.holder # None /\ Cardinality(worker.open) <= identityCap =>
    worker.holder \in worker.identities \/ Cardinality(worker.identities) < identityCap
===============================================================================
