--------------------------- MODULE TerminalDelivery ---------------------------
(***************************************************************************)
(* Ordered delivery of terminal output to one client connection.           *)
(*                                                                         *)
(* Server: the connection queue (terminal-connection-delivery.ts), the     *)
(* credit account of each subscription attempt (terminal-delivery-         *)
(* credit.ts) and the parts of terminal-subscriptions.ts that drive them:  *)
(* a recovery marker, a worker event, an ACK or progress report, a         *)
(* recover, the retirement of a route and the close of the connection.     *)
(* Client: the receive, parse and acknowledge path of                      *)
(* packages/client/src/terminal-controller.ts.                             *)
(*                                                                         *)
(* The WebSocket carrier of terminal-websocket.ts takes one frame at a     *)
(* time: write() returns false and the send callback settles the frame     *)
(* and drains the queue.  A frame is on the wire from the moment it is     *)
(* handed over, so the client may read it before its callback runs.        *)
(* The worker may offer any event at any time; what reaches the client is  *)
(* decided by the code modelled here.  Payloads are not modelled, only     *)
(* the position of an event in its stream and its encoded size.            *)
(***************************************************************************)
EXTENDS Integers, Sequences, FiniteSets, FiniteSetsExt, SequencesExt

CONSTANTS Routes,        \* subscriptions of the connection
          Setups         \* the limits and bounds an instance may have

VARIABLES
  setup,    \* the limits and bounds of this instance; they never change
  server,   \* the connection's delivery, its routes and their credit
  uplink,   \* commands of each subscription on their way to the server
  client    \* the client's controller of each subscription

vars == <<setup, server, uplink, client>>

MaxRoutes == setup.routes             \* bound: subscriptions that attach
MaxAttempts == setup.attempts         \* bound: recovery attempts per subscription
MaxSeq == setup.seq                   \* bound: sequence numbers of the run
ChunkCount == setup.chunks            \* chunks of a baseline
Sizes == setup.sizes                  \* encoded sizes of chunks and run events
creditBytes == setup.creditBytes      \* subscriptionCreditBytes
outboundBytes == setup.outboundBytes  \* outboundConnectionBytes
controlBytes == setup.controlBytes    \* reservedControlBytes
recordLimit == setup.recordLimit      \* unparsed frames an attempt holds at once
itemLimit == setup.itemLimit          \* frames the connection holds at once
CONTROL_ITEMS == setup.controlItems   \* of which this many are kept for control (4 in the code)
RESULT_SLOTS == setup.resultSlots     \* prepaid results of a route in delivery (ROUTE_RESULT_SLOTS)
metadataBytes == setup.metadataBytes  \* encoded metadata of an event frame

ASSUME SetupAssumption ==
  \A s \in Setups :
    /\ {s.routes, s.attempts, s.chunks, s.resultSlots} \subseteq Nat \ {0}
    /\ {s.seq, s.creditBytes, s.outboundBytes, s.controlBytes, s.recordLimit, s.itemLimit,
        s.controlItems, s.metadataBytes} \subseteq Nat
    /\ s.sizes \subseteq Nat \ {0} /\ IsFiniteSet(s.sizes) /\ s.sizes # {}
    /\ s.creditBytes <= s.outboundBytes /\ s.controlItems < s.itemLimit
    /\ \A n \in s.sizes : n < s.creditBytes     \* a baseline-start and any one frame fit together

Event(type, n) == [type |-> type, n |-> n]
BaselineStart == Event("baseline-start", 0)
BaselineEnd == Event("baseline-end", 0)
Events ==
  {BaselineStart, BaselineEnd}
    \cup {Event("baseline-chunk", n) : n \in 0 .. ChunkCount - 1}
    \cup {Event("run-event", n) : n \in 1 .. MaxSeq}
SizesOf(event) == IF event.type \in {"baseline-chunk", "run-event"} THEN Sizes ELSE {1}

NoBaseline == [started |-> FALSE, chunks |-> 0, sentOrdinal |-> -1, parsedOrdinal |-> -1,
               endQueued |-> FALSE, endSent |-> FALSE]
NoCredit == [mode |-> "none", atSeq |-> 0, records |-> {}, baseline |-> NoBaseline,
             queuedBytes |-> 0, debtBytes |-> 0, lastQueued |-> 0, lastSent |-> 0,
             lastApplied |-> 0, installed |-> FALSE]

(* A subscription: its requests in arrival order, whether the first is executing or waits for *)
(* a result slot ("gated"), the free result slots, the results that wait for one, and the     *)
(* last sequence number the worker named.                                                      *)
Unopened == [phase |-> "idle", attempt |-> 0, queue |-> <<>>, running |-> "no",
             slots |-> RESULT_SLOTS, waiting |-> <<>>, top |-> 0]
NoView == [phase |-> "idle", attempt |-> 0, applied |-> 0, atSeq |-> 0, started |-> FALSE,
           ordinal |-> 0, inbox |-> <<>>,
           ack |-> -1, pendingAck |-> -1, progress |-> -1, pendingProgress |-> -1]

Init ==
  /\ setup \in Setups
  /\ server = [queue |-> <<>>, handed |-> {}, wire |-> <<>>,
               queuedBytes |-> 0, physicalBytes |-> 0, ordinaryBytes |-> 0, prepaidItems |-> 0,
               blocked |-> FALSE, closed |-> FALSE, arena |-> TRUE, sendFailed |-> FALSE,
               route |-> [r \in Routes |-> Unopened],
               credit |-> [r \in Routes |-> NoCredit]]
  /\ uplink = [r \in Routes |-> <<>>]
  /\ client = [r \in Routes |-> NoView]
-----------------------------------------------------------------------------
(* The credit account of one attempt (terminal-delivery-credit.ts). *)

BytesOf(S) == MapThenSumSet(LAMBDA x : x.bytes, S)

(* The account a marker opens; a replay continues after the client's cursor. *)
NewCredit(mode, atSeq, cursor) ==
  LET first == IF mode = "replay" THEN cursor ELSE atSeq IN
  [NoCredit EXCEPT !.mode = mode, !.atSeq = atSeq, !.installed = (mode = "replay"),
                   !.lastQueued = first, !.lastSent = first,
                   !.lastApplied = IF mode = "replay" THEN cursor ELSE -1]

(* record() accepts only the next event of the attempt's stream. *)
Expected(c, event) ==
  CASE event.type = "run-event" ->
         /\ event.n = c.lastQueued + 1
         /\ c.mode = "baseline" => c.baseline.endQueued
    [] event.type = "baseline-start" -> c.mode = "baseline" /\ ~c.baseline.started
    [] event.type = "baseline-chunk" ->
         /\ c.baseline.started /\ ~c.baseline.endQueued
         /\ event.n = c.baseline.chunks
    [] event.type = "baseline-end" ->
         /\ c.baseline.started /\ ~c.baseline.endQueued
         /\ c.baseline.chunks = ChunkCount

Recordable(c, event, bytes) ==
  /\ bytes <= outboundBytes - c.queuedBytes - c.debtBytes
  /\ Cardinality(c.records) < recordLimit
  /\ Expected(c, event)

Record(c, event, bytes) ==
  [c EXCEPT !.records = @ \cup {[event |-> event, bytes |-> bytes, sent |-> FALSE]},
            !.queuedBytes = @ + bytes,
            !.lastQueued = IF event.type = "run-event" THEN event.n ELSE @,
            !.baseline =
               CASE event.type = "baseline-start" -> [NoBaseline EXCEPT !.started = TRUE]
                 [] event.type = "baseline-chunk" -> [@ EXCEPT !.chunks = @ + 1]
                 [] event.type = "baseline-end" -> [@ EXCEPT !.endQueued = TRUE]
                 [] OTHER -> @]

(* eligible() without the debt the client has not parsed yet. *)
Eligible_NoDebt(c, event) ==
  \E x \in c.records : x.event = event /\ ~x.sent /\ x.bytes <= creditBytes

Eligible(c, event) ==
  \E x \in c.records : x.event = event /\ ~x.sent /\ x.bytes <= creditBytes - c.debtBytes

Handoff(c, event) ==
  LET x == CHOOSE x \in c.records : x.event = event IN
  [c EXCEPT !.records = (@ \ {x}) \cup {[x EXCEPT !.sent = TRUE]},
            !.queuedBytes = @ - x.bytes,
            !.debtBytes = @ + x.bytes,
            !.lastSent = IF event.type = "run-event" THEN event.n ELSE @,
            !.baseline =
               CASE event.type = "baseline-chunk" -> [@ EXCEPT !.sentOrdinal = event.n]
                 [] event.type = "baseline-end" -> [@ EXCEPT !.endSent = TRUE]
                 [] OTHER -> @]

(* release() of the sent records a report proves parsed. *)
Parsed(c, records) ==
  [c EXCEPT !.records = @ \ records, !.debtBytes = @ - BytesOf(records)]

ProgressAccepted(c, ordinal) == c.baseline.started /\ ordinal <= c.baseline.sentOrdinal

(* progress() that returns the credit of every chunk sent, parsed or not. *)
Progress_AllSent(c, ordinal) ==
  IF ordinal <= c.baseline.parsedOrdinal THEN c
  ELSE Parsed([c EXCEPT !.baseline.parsedOrdinal = ordinal],
              {x \in c.records : x.sent /\ x.event.type \in {"baseline-start", "baseline-chunk"}})

Progress(c, ordinal) ==
  IF ordinal <= c.baseline.parsedOrdinal THEN c
  ELSE Parsed([c EXCEPT !.baseline.parsedOrdinal = ordinal],
              {x \in c.records :
                 /\ x.sent
                 /\ \/ x.event.type = "baseline-start"
                    \/ x.event.type = "baseline-chunk" /\ x.event.n <= ordinal})

AckAccepted(c, seq) ==
  IF ~c.installed
  THEN seq = c.atSeq /\ c.baseline.endSent
  ELSE \/ seq <= c.lastApplied
       \/ /\ seq <= c.lastSent
          /\ \E x \in c.records : x.sent /\ x.event = Event("run-event", seq)

(* ack() that installs the baseline without returning its credit. *)
Ack_KeepBaselineDebt(c, seq) ==
  IF ~c.installed
  THEN [c EXCEPT !.installed = TRUE, !.lastApplied = seq]
  ELSE IF seq <= c.lastApplied THEN c
  ELSE Parsed([c EXCEPT !.lastApplied = seq],
              {x \in c.records : x.sent /\ x.event.type = "run-event" /\ x.event.n <= seq})

Ack(c, seq) ==
  IF ~c.installed
  THEN Parsed([c EXCEPT !.installed = TRUE, !.lastApplied = seq],
              {x \in c.records : x.sent /\ x.event.type # "run-event"})
  ELSE IF seq <= c.lastApplied THEN c
  ELSE Parsed([c EXCEPT !.lastApplied = seq],
              {x \in c.records : x.sent /\ x.event.type = "run-event" /\ x.event.n <= seq})
-----------------------------------------------------------------------------
(* The connection queue (terminal-connection-delivery.ts).  Each operator takes a state of *)
(* the server to the next, so that a handler is the composition of the calls it makes.     *)

Frame(kind, r, attempt, event, bytes) ==
  [kind |-> kind, route |-> r, attempt |-> attempt, event |-> event, bytes |-> bytes]
IsControl(f) == f.kind # "event"                \* options.control
IsPrepaid(f) == f.kind = "result"               \* a route-control result in its prepaid slot
IsFenced(f) == f.kind \in {"marker", "event"}
Ordinary(f) == ~IsControl(f)

(* fence.current(): a route's token is replaced by a recover and withdrawn by retirement. *)
Current(s, f) ==
  IsFenced(f) => /\ s.route[f.route].phase \in {"opening", "active"}
                 /\ s.route[f.route].attempt = f.attempt

(* The checks of admit(), those it makes after encoding the frame included. *)
Admissible(s, f) ==
  /\ ~s.closed
  /\ IsPrepaid(f) \/ /\ Len(s.queue) + Cardinality(s.handed) - s.prepaidItems < itemLimit
                     /\ f.bytes <= outboundBytes + controlBytes - s.queuedBytes - s.physicalBytes
  /\ IsControl(f) \/ /\ Len(SelectSeq(s.queue, Ordinary))
                          + Cardinality({x \in s.handed : Ordinary(x)}) < itemLimit - CONTROL_ITEMS
                     /\ f.bytes <= outboundBytes - s.ordinaryBytes

(* next() that looks past a frame of the same route that must wait. *)
NextIndex_AnyOfRoute(s) ==
  LET f(i) == s.queue[i]
      ready == {i \in DOMAIN s.queue :
                  Current(s, f(i)) /\ (Ordinary(f(i)) => Eligible(s.credit[f(i).route], f(i).event))}
  IN IF ready = {} THEN 0 ELSE Min(ready)

(* next(): the first frame that is the oldest of its route, current and within credit. *)
NextIndex(s) ==
  LET f(i) == s.queue[i]
      oldest(i) == IsFenced(f(i)) =>
                     \A j \in 1 .. i - 1 : ~(IsFenced(f(j)) /\ f(j).route = f(i).route)
      ready == {i \in DOMAIN s.queue :
                  /\ oldest(i) /\ Current(s, f(i))
                  /\ Ordinary(f(i)) => Eligible(s.credit[f(i).route], f(i).event)}
  IN IF ready = {} THEN 0 ELSE Min(ready)

(* flush() hands over at most one frame: write() reports the socket full until the frame's *)
(* callback drains it.                                                                      *)
Flush(s) ==
  LET i == NextIndex(s)
      f == s.queue[i]
      n == IF IsPrepaid(f) THEN 0 ELSE f.bytes
  IN IF s.closed \/ s.blocked \/ i = 0 THEN s
     ELSE [s EXCEPT !.queue = RemoveAt(@, i),
                    !.queuedBytes = @ - n, !.physicalBytes = @ + n,
                    !.handed = @ \cup {f}, !.blocked = TRUE, !.wire = Append(@, f),
                    !.credit[f.route] = IF Ordinary(f) THEN Handoff(@, f.event) ELSE @]

(* admit() once its checks passed. *)
Admit(s, f) ==
  Flush([s EXCEPT !.queue = Append(@, f),
                  !.queuedBytes = IF IsPrepaid(f) THEN @ ELSE @ + f.bytes,
                  !.prepaidItems = IF IsPrepaid(f) THEN @ + 1 ELSE @,
                  !.ordinaryBytes = IF Ordinary(f) THEN @ + f.bytes ELSE @])

BytesAt(s, indices) == MapThenSumSet(LAMBDA i : s.queue[i].bytes, indices)
Without(q, indices) ==
  LET kept == SetToSortSeq(DOMAIN q \ indices, <) IN [k \in DOMAIN kept |-> q[kept[k]]]

(* cancel() that leaves the ordinary bytes of what it removed accounted. *)
Cancel_KeepOrdinary(s, gone) ==
  LET prepaid == {i \in gone : IsPrepaid(s.queue[i])} IN
  [s EXCEPT !.queue = Without(@, gone),
            !.queuedBytes = @ - BytesAt(s, gone \ prepaid),
            !.prepaidItems = @ - Cardinality(prepaid)]

(* cancel(): removes queued frames and what they account for, never a handed one. *)
Cancel(s, gone) ==
  LET prepaid == {i \in gone : IsPrepaid(s.queue[i])} IN
  [s EXCEPT !.queue = Without(@, gone),
            !.queuedBytes = @ - BytesAt(s, gone \ prepaid),
            !.ordinaryBytes = @ - BytesAt(s, {i \in gone : Ordinary(s.queue[i])}),
            !.prepaidItems = @ - Cardinality(prepaid)]

(* cancel() that also takes the frames that have no fence. *)
Fence_Unfenced(s, r) ==
  {i \in DOMAIN s.queue : LET f == s.queue[i] IN
     IsFenced(f) => f.route = r /\ f.attempt = s.route[r].attempt}

(* cancel(fence(route)): what is queued for the route's current attempt. *)
Fence(s, r) ==
  {i \in DOMAIN s.queue : LET f == s.queue[i] IN
     IsFenced(f) /\ f.route = r /\ f.attempt = s.route[r].attempt}

(* release() of a handed frame, and releaseArena(). *)
Release(s, f) ==
  [s EXCEPT !.handed = @ \ {f},
            !.physicalBytes = IF IsPrepaid(f) THEN @ ELSE @ - f.bytes,
            !.prepaidItems = IF IsPrepaid(f) THEN @ - 1 ELSE @,
            !.ordinaryBytes = IF Ordinary(f) THEN @ - f.bytes ELSE @]

ReleaseArena(s) == [s EXCEPT !.arena = ~(s.closed /\ s.handed = {})]

(* drain() that does not look for the next frame. *)
Drain_NoFlush(s) == [s EXCEPT !.blocked = FALSE]

Drain(s) == Flush([s EXCEPT !.blocked = FALSE])
-----------------------------------------------------------------------------
(* The subscriptions of the connection (terminal-subscriptions.ts). *)

(* A command of the client: n is a sequence number, an ordinal or a resume cursor (-1: none). *)
Command(type, n, attempt) == [type |-> type, n |-> n, attempt |-> attempt]
RouteControl == {"detach", "applied-ack", "baseline-progress"}

Dequeue(s, r) == [s EXCEPT !.route[r].queue = Tail(@), !.route[r].running = "no"]

(* run() that goes on to the next request while a result still waits for a slot. *)
Completed_NoGate(s, r) == Dequeue(s, r)

(* run(): the next request starts once the result of this one was admitted (resultGate). *)
Completed(s, r) ==
  IF s.route[r].waiting = <<>> THEN Dequeue(s, r) ELSE [s EXCEPT !.route[r].running = "gated"]

(* retire() that forgets the frames already queued for the attempt. *)
Retire_KeepQueue(s, r) ==
  IF s.route[r].phase = "retired" THEN s
  ELSE [s EXCEPT !.route[r].phase = "retired", !.credit[r] = NoCredit]

(* retire(): cancel the attempt's queued frames, withdraw its token, drop its credit. *)
Retire(s, r) ==
  IF s.route[r].phase = "retired" THEN s
  ELSE [Cancel(s, Fence(s, r)) EXCEPT !.route[r].phase = "retired", !.credit[r] = NoCredit]

(* reject(), and finish() of a failed attach or recover: a control frame, if it is admitted. *)
Reject(s, r, request) ==
  LET f == Frame("error", r, request.attempt, Event("error", request.n), 1) IN
  IF Admissible(s, f) THEN Admit(s, f) ELSE s

(* finish(): the result of a route-control command takes a prepaid slot of its route, or *)
(* waits for one.                                                                         *)
Finish(s, r, request, outcome) ==
  LET f == Frame("result", r, request.attempt, Event(outcome, request.n), 1) IN
  IF request.type \notin RouteControl THEN Reject(s, r, request)
  ELSE IF s.route[r].slots = 0
  THEN [s EXCEPT !.route[r].waiting = Append(@, [request |-> request, outcome |-> outcome])]
  ELSE Admit([s EXCEPT !.route[r].slots = @ - 1], f)

(* returnResultSlot(): the slot goes to the oldest waiting result, if there is one. *)
ReturnResultSlot(s, r) ==
  LET free == [s EXCEPT !.route[r].slots = @ + 1]
      w == Head(s.route[r].waiting)
      next == Finish([free EXCEPT !.route[r].waiting = Tail(@)], r, w.request, w.outcome)
  IN IF s.route[r].waiting = <<>> \/ s.closed THEN free
     ELSE IF s.route[r].running = "gated" /\ Tail(s.route[r].waiting) = <<>> THEN Dequeue(next, r)
     ELSE next

(* failQueued(): every request that did not take effect is refused at once. *)
FailQueued(s, r) ==
  LET rt == s.route[r]
      kept == IF rt.running = "no" \/ (rt.running = "executing" /\ rt.queue[1].type \notin RouteControl)
              THEN <<>> ELSE SubSeq(rt.queue, 1, 1)
      failed == SubSeq(rt.queue, Len(kept) + 1, Len(rt.queue))
  IN FoldLeft(LAMBDA t, request : Finish(t, r, request, "refused"),
              [s EXCEPT !.route[r].queue = kept,
                        !.route[r].running = IF kept = <<>> THEN "no" ELSE @],
              failed)

(* handle() of an attach, up to the call to the worker. *)
Attach(r) ==
  /\ ~server.closed
  /\ server.route[r].phase = "idle"
  /\ Cardinality({q \in Routes : server.route[q].phase # "idle"}) < MaxRoutes
  /\ server' = [server EXCEPT !.route[r] =
                  [@ EXCEPT !.phase = "opening", !.attempt = 1, !.running = "executing",
                            !.queue = <<Command("attach", -1, 1)>>]]
  /\ client' = [client EXCEPT ![r].phase = "await-marker", ![r].attempt = 1]
  /\ UNCHANGED <<setup, uplink>>

(* handoff(): the worker accepted the attempt and names where its stream starts.  A marker  *)
(* the delivery or the byte account (funded) refuses retires the route; the request then    *)
(* fails with the answer of the runtime.                                                     *)
Marker(r, mode, atSeq, funded) ==
  LET cursor == server.route[r].queue[1].n
      f == Frame("marker", r, server.route[r].attempt, Event(mode, atSeq), 1)
      active == [server EXCEPT !.route[r].phase = "active", !.route[r].top = atSeq,
                               !.credit[r] = NewCredit(mode, atSeq, cursor)]
  IN
  /\ ~server.closed
  /\ server.route[r].phase = "opening"
  /\ atSeq >= server.route[r].top /\ (mode = "replay" => cursor >= 0)
  /\ server' = IF funded /\ Admissible(server, f) THEN Dequeue(Admit(active, f), r)
               ELSE Retire(server, r)
  /\ UNCHANGED <<setup, uplink, client>>

(* event(): an event the queue, the account or the credit refuses ends the subscription. *)
WorkerEvent(r, event, bytes, funded) ==
  LET f == Frame("event", r, server.route[r].attempt, event, bytes)
      recorded == [server EXCEPT !.credit[r] = Record(@, event, bytes),
                                 !.route[r].top = IF event.type = "run-event" THEN event.n ELSE @]
  IN
  /\ ~server.closed
  /\ server.route[r].phase = "active"
  /\ server' = IF funded /\ Admissible(server, f) /\ Recordable(server.credit[r], event, bytes)
               THEN Admit(recorded, f) ELSE Retire(server, r)
  /\ UNCHANGED <<setup, uplink, client>>

(* handle() of the next command of the subscription: a retired route, a second unsettled    *)
(* command of the same type and a recover of a route that is not active are refused at once. *)
Busy(s, r, command) ==
  LET pending == {s.route[r].queue[i].type : i \in DOMAIN s.route[r].queue}
                   \cup {s.route[r].waiting[i].request.type : i \in DOMAIN s.route[r].waiting}
  IN \/ command.type \in pending
     \/ command.type = "recover" /\ s.route[r].phase # "active"

Arrive(r) ==
  LET command == Head(uplink[r]) IN
  /\ ~server.closed
  /\ uplink[r] # <<>>
  /\ uplink' = [uplink EXCEPT ![r] = Tail(@)]
  /\ server' = IF server.route[r].phase = "retired" \/ Busy(server, r, command)
               THEN Reject(server, r, command)
               ELSE [server EXCEPT !.route[r].queue = Append(@, command)]
  /\ UNCHANGED <<setup, client>>

(* execute(): a recover fences the old attempt before the worker is asked; a detach retires  *)
(* the route; a report that the credit accepts wakes the delivery before the worker is told. *)
Execute(s, r) ==
  LET command == s.route[r].queue[1]
      c == s.credit[r]
      ack == command.type = "applied-ack"
  IN IF s.route[r].phase = "retired" THEN Completed(Finish(s, r, command, "refused"), r)
     ELSE IF command.type = "recover" THEN
       [Cancel(s, Fence(s, r)) EXCEPT
          !.credit[r] = NoCredit, !.route[r].attempt = @ + 1, !.route[r].phase = "opening",
          !.route[r].running = "executing"]
     ELSE IF command.type = "detach" THEN [Retire(s, r) EXCEPT !.route[r].running = "executing"]
     ELSE IF (IF ack THEN AckAccepted(c, command.n) ELSE ProgressAccepted(c, command.n)) THEN
       Flush([s EXCEPT !.credit[r] = IF ack THEN Ack(c, command.n) ELSE Progress(c, command.n),
                       !.route[r].running = "executing"])
     ELSE Completed(Finish(s, r, command, "refused"), r)

Run(r) ==
  /\ ~server.closed
  /\ server.route[r].queue # <<>> /\ server.route[r].running = "no"
  /\ server' = Execute(server, r)
  /\ UNCHANGED <<setup, uplink, client>>

(* The runtime answered the executing request; anything but an acceptance retires the route. *)
(* The answer to an attach or recover that was not handed off is always an error.            *)
Reply(r, accepted) ==
  LET request == server.route[r].queue[1] IN
  /\ ~server.closed
  /\ server.route[r].running = "executing"
  /\ accepted => request.type \in RouteControl
  /\ server' = IF accepted THEN Completed(Finish(server, r, request, request.type), r)
               ELSE Completed(Finish(Retire(server, r), r, request, "refused"), r)
  /\ UNCHANGED <<setup, uplink, client>>

(* expireRecovery() and expireFullRecovery(), from a tick or a check between two ticks: an    *)
(* attempt without a marker at half the deadline, or not installed at the whole deadline.      *)
ExpireRecovery(r) ==
  LET c == server.credit[r] IN
  /\ ~server.closed
  /\ \/ server.route[r].phase = "opening"
     \/ /\ server.route[r].phase = "active"
        /\ \/ ~c.installed \/ c.lastApplied < c.atSeq
           \/ \E i \in DOMAIN server.route[r].queue : server.route[r].queue[i].type = "recover"
  /\ server' = FailQueued(Retire(server, r), r)
  /\ UNCHANGED <<setup, uplink, client>>
-----------------------------------------------------------------------------
(* The WebSocket of the connection (terminal-websocket.ts): the send callback, which may     *)
(* report an error, and the close of the socket.                                             *)

(* close() of the delivery and of the connection's subscriptions. *)
Close(s) ==
  LET empty == Cancel([s EXCEPT !.closed = TRUE], DOMAIN s.queue) IN
  ReleaseArena([empty EXCEPT
    !.route = [r \in Routes |-> IF s.route[r].phase = "idle" THEN Unopened
                                ELSE [s.route[r] EXCEPT !.phase = "retired", !.queue = <<>>,
                                                        !.running = "no", !.waiting = <<>>]],
    !.credit = [r \in Routes |-> NoCredit]])

Released(f) ==
  IF IsPrepaid(f) THEN ReturnResultSlot(Release(server, f), f.route) ELSE Release(server, f)

(* A successful send: the frame is released, then the queue drains. *)
Settle(f) ==
  /\ f \in server.handed
  /\ \E s \in {Released(f)} : server' = ReleaseArena(Drain(s))
  /\ UNCHANGED <<setup, uplink, client>>

(* A failed send closes the connection, unless the frame's attempt is gone. *)
SettleError(f) ==
  LET s == [Released(f) EXCEPT !.sendFailed = TRUE] IN
  /\ f \in server.handed
  /\ server' = IF Current(server, f) THEN Close(s) ELSE ReleaseArena(s)
  /\ UNCHANGED <<setup, uplink, client>>

SocketClosed ==
  /\ ~server.closed
  /\ server' = Close(server)
  /\ UNCHANGED <<setup, uplink, client>>
-----------------------------------------------------------------------------
(* The client's controller (terminal-controller.ts).  An operator takes p, the controller *)
(* and the commands it has sent, to the next such pair.                                   *)

(* sendAck() without the limit of one report in flight. *)
SendAck_NoFold(p, seq) ==
  [p EXCEPT !.c.ack = seq, !.u = Append(@, Command("applied-ack", seq, p.c.attempt))]

(* sendAck(): one ACK is in flight; a newer one waits for its result. *)
SendAck(p, seq) ==
  IF p.c.ack # -1 THEN [p EXCEPT !.c.pendingAck = Max({@, seq})]
  ELSE [p EXCEPT !.c.ack = seq, !.u = Append(@, Command("applied-ack", seq, p.c.attempt))]

SendProgress(p, ordinal) ==
  IF p.c.progress # -1 THEN [p EXCEPT !.c.pendingProgress = Max({@, ordinal})]
  ELSE [p EXCEPT !.c.progress = ordinal,
                 !.u = Append(@, Command("baseline-progress", ordinal, p.c.attempt))]

(* commit(): the view is ready once the ACK of what it parsed is on its way. *)
Commit(p) == [SendAck(p, p.c.applied) EXCEPT !.c.phase = "ready"]

Idle(c, phase) == [c EXCEPT !.phase = phase, !.started = FALSE, !.inbox = <<>>, !.ack = -1,
                            !.pendingAck = -1, !.progress = -1, !.pendingProgress = -1]

(* fail() and releaseRemote(): the subscription ends at the client, which detaches it *)
(* unless it never learnt its name.                                                    *)
Fail(p) ==
  [c |-> Idle(p.c, "unavailable"),
   u |-> IF p.c.phase = "await-marker" /\ p.c.attempt = 1 THEN p.u
         ELSE Append(p.u, Command("detach", 0, p.c.attempt))]

(* The controller found an event out of place: a gap, a start or a chunk out of order. *)
Broken(p) == [p EXCEPT !.c.phase = "broken"]

(* The result of an attach or recover: where the attempt's stream starts. *)
OnMarker(p, f) ==
  LET c == [p.c EXCEPT !.phase = f.event.type, !.atSeq = f.event.n, !.started = FALSE] IN
  IF p.c.phase # "await-marker" \/ p.c.attempt # f.attempt THEN p
  ELSE IF f.event.n < p.c.applied THEN Broken(p)
  ELSE IF f.event.type = "replay" /\ f.event.n = p.c.applied THEN Commit([p EXCEPT !.c = c])
  ELSE [p EXCEPT !.c = c]

(* The result of a report sends the one folded meanwhile; a refusal ends the subscription. *)
OnResult(p, f) ==
  LET e == f.event IN
  IF p.c.phase \in {"unavailable", "broken"} \/ p.c.attempt # f.attempt THEN p
  ELSE IF e.type = "applied-ack" THEN
    LET q == [p EXCEPT !.c.ack = -1, !.c.pendingAck = -1] IN
    IF p.c.pendingAck > e.n THEN SendAck(q, p.c.pendingAck) ELSE q
  ELSE IF e.type = "baseline-progress" THEN
    LET q == [p EXCEPT !.c.progress = -1, !.c.pendingProgress = -1] IN
    IF p.c.pendingProgress > e.n /\ p.c.phase = "baseline" THEN SendProgress(q, p.c.pendingProgress)
    ELSE q
  ELSE Fail(p)

(* receive(): an event is queued for the view.  Its charge counts the metadata three times; *)
(* a queue over the subscription's credit ends the subscription.                             *)
Charge(f) == f.bytes + 2 * metadataBytes
OnEvent(p, f) ==
  LET inbox == p.c.inbox
      seqs == {inbox[i].event.n : i \in {i \in DOMAIN inbox : inbox[i].event.type = "run-event"}}
      charged == FoldLeft(LAMBDA sum, x : sum + Charge(x), Charge(f), inbox)
  IN IF p.c.phase \notin {"baseline", "replay", "ready"} THEN p
     ELSE IF charged > creditBytes THEN Fail(p)
     ELSE IF /\ p.c.phase = "ready" /\ f.event.type = "run-event"
             /\ f.event.n # Max(seqs \cup {p.c.applied}) + 1 THEN Broken(p)
     ELSE [p EXCEPT !.c.inbox = Append(@, f)]

ClientRead ==
  LET f == Head(server.wire)
      p == [c |-> client[f.route], u |-> uplink[f.route]]
      q == CASE f.kind = "marker" -> OnMarker(p, f)
             [] f.kind = "event" -> OnEvent(p, f)
             [] OTHER -> OnResult(p, f)
  IN
  /\ server.wire # <<>>
  /\ server' = [server EXCEPT !.wire = Tail(@)]
  /\ client' = [client EXCEPT ![f.route] = q.c]
  /\ uplink' = [uplink EXCEPT ![f.route] = q.u]
  /\ UNCHANGED setup

(* apply(): the view parsed the oldest event.  Nothing is acknowledged before an attempt is *)
(* complete, except baseline chunks.                                                         *)
Applied(p, e) ==
  CASE e.type = "baseline-start" ->
         IF p.c.phase # "baseline" \/ p.c.started THEN Broken(p)
         ELSE [p EXCEPT !.c.started = TRUE, !.c.ordinal = 0]
    [] e.type = "baseline-chunk" ->
         IF p.c.phase # "baseline" \/ ~p.c.started \/ e.n # p.c.ordinal THEN Broken(p)
         ELSE SendProgress([p EXCEPT !.c.ordinal = @ + 1], e.n)
    [] e.type = "baseline-end" ->
         IF p.c.phase # "baseline" \/ ~p.c.started \/ p.c.ordinal # ChunkCount THEN Broken(p)
         ELSE Commit([p EXCEPT !.c.applied = p.c.atSeq, !.c.started = FALSE])
    [] e.type = "run-event" ->
         IF \/ p.c.phase \notin {"replay", "ready"} \/ e.n # p.c.applied + 1
            \/ p.c.phase = "replay" /\ e.n > p.c.atSeq THEN Broken(p)
         ELSE LET q == [p EXCEPT !.c.applied = e.n] IN
              IF p.c.phase = "ready" THEN SendAck(q, e.n)
              ELSE IF e.n = p.c.atSeq THEN Commit(q) ELSE q

ClientApply(r) ==
  LET c == client[r]
      q == Applied([c |-> [c EXCEPT !.inbox = Tail(@)], u |-> uplink[r]], Head(c.inbox).event)
  IN
  /\ c.inbox # <<>> /\ c.phase # "broken"
  /\ client' = [client EXCEPT ![r] = q.c]
  /\ uplink' = [uplink EXCEPT ![r] = q.u]
  /\ UNCHANGED <<setup, server>>

(* recover(): a released or expired view resumes from what it applied, a gap or a resize *)
(* does not.  What was queued for the view is dropped.                                    *)
ClientRecover(r, resume) ==
  LET c == client[r] IN
  /\ c.phase = "ready" /\ c.attempt < MaxAttempts
  /\ client' = [client EXCEPT ![r] = [Idle(c, "await-marker") EXCEPT !.attempt = c.attempt + 1]]
  /\ uplink' = [uplink EXCEPT ![r] =
                  Append(@, Command("recover", IF resume THEN c.applied ELSE -1, c.attempt + 1))]
  /\ UNCHANGED <<setup, server>>

(* detach() of a subscription whose name the client knows, or fail() by the client's own *)
(* recovery deadline.                                                                     *)
ClientDetach(r) ==
  LET q == Fail([c |-> client[r], u |-> uplink[r]]) IN
  /\ \/ client[r].phase \in {"baseline", "replay", "ready"}
     \/ client[r].phase = "await-marker" /\ client[r].attempt > 1
  /\ client' = [client EXCEPT ![r] = q.c]
  /\ uplink' = [uplink EXCEPT ![r] = q.u]
  /\ UNCHANGED <<setup, server>>
-----------------------------------------------------------------------------
Next ==
  \/ \E r \in Routes :
       \/ Attach(r) \/ Arrive(r) \/ Run(r) \/ ExpireRecovery(r)
       \/ \E mode \in {"baseline", "replay"}, atSeq \in 0 .. MaxSeq, funded \in BOOLEAN :
            Marker(r, mode, atSeq, funded)
       \/ \E event \in Events, funded \in BOOLEAN : \E bytes \in SizesOf(event) :
            WorkerEvent(r, event, bytes, funded)
       \/ \E accepted \in BOOLEAN : Reply(r, accepted)
       \/ ClientApply(r) \/ ClientDetach(r)
       \/ \E resume \in BOOLEAN : ClientRecover(r, resume)
  \/ \E f \in server.handed : Settle(f) \/ SettleError(f)
  \/ SocketClosed
  \/ ClientRead

(* The steps that are always taken in the end: the send callback of ws runs, with or without *)
(* an error, and a socket whose send failed closes; the client reads its socket and its view   *)
(* parses what it is given; the event loop runs the handlers; and the worker answers or its    *)
(* contact is declared lost.  No such step undoes another, so one condition covers them all.   *)
Progressing ==
  \/ \E f \in server.handed : Settle(f) \/ SettleError(f)
  \/ server.sendFailed /\ SocketClosed
  \/ ClientRead
  \/ \E r \in Routes : \/ ClientApply(r) \/ Arrive(r) \/ Run(r)
                       \/ \E accepted \in BOOLEAN : Reply(r, accepted)

Spec == Init /\ [][Next]_vars
FairSpec == Spec /\ WF_vars(Progressing)
-----------------------------------------------------------------------------
Frames == ToSet(server.queue) \cup server.handed
FramesOf(r) == {f \in Frames : f.route = r}
Active(r) == ~server.closed /\ server.route[r].phase = "active"

TypeOK ==
  /\ \A f \in Frames : /\ f.kind \in {"marker", "event", "result", "error"}
                        /\ f.route \in Routes /\ f.attempt \in 1 .. MaxAttempts
  /\ {server.blocked, server.closed, server.arena, server.sendFailed} \subseteq BOOLEAN
  /\ \A r \in Routes :
       /\ server.route[r].phase \in {"idle", "opening", "active", "retired"}
       /\ server.route[r].attempt \in 0 .. MaxAttempts
       /\ server.route[r].running \in {"no", "executing", "gated"}
       /\ server.route[r].slots \in 0 .. RESULT_SLOTS
       /\ server.credit[r].debtBytes \in 0 .. creditBytes
       /\ server.credit[r].queuedBytes \in 0 .. outboundBytes
       /\ client[r].phase \in {"idle", "await-marker", "baseline", "replay", "ready",
                              "unavailable", "broken"}

(* Every counter of the delivery and of the credit accounts equals what it counts after any *)
(* order of admissions, handovers, callbacks, cancellations and reports (the += and -= of    *)
(* terminal-connection-delivery.ts and terminal-delivery-credit.ts never drift), every        *)
(* result slot that is not free holds exactly one result frame, and the arena is given back  *)
(* exactly when the connection is closed and no frame is queued or with the socket.          *)
CountersExact ==
  LET queued == DOMAIN server.queue
      at(i) == server.queue[i]
  IN
  /\ server.queuedBytes = BytesAt(server, {i \in queued : ~IsPrepaid(at(i))})
  /\ server.physicalBytes = BytesOf({f \in server.handed : ~IsPrepaid(f)})
  /\ server.ordinaryBytes = BytesAt(server, {i \in queued : Ordinary(at(i))})
                              + BytesOf({f \in server.handed : Ordinary(f)})
  /\ server.arena <=> ~server.closed \/ Frames # {}
  /\ server.prepaidItems = Cardinality({i \in queued : IsPrepaid(at(i))})
                             + Cardinality({f \in server.handed : IsPrepaid(f)})
  /\ \A r \in Routes :
       /\ server.credit[r].debtBytes = BytesOf({x \in server.credit[r].records : x.sent})
       /\ server.credit[r].queuedBytes = BytesOf({x \in server.credit[r].records : ~x.sent})
       /\ ~server.closed =>
            RESULT_SLOTS - server.route[r].slots =
              Cardinality({i \in queued : IsPrepaid(at(i)) /\ at(i).route = r})
                + Cardinality({f \in server.handed : IsPrepaid(f) /\ f.route = r})

(* The queue holds exactly the frames the credit accounts expect to send: no queued event   *)
(* of an attempt that was fenced off, and no record whose frame is gone (a recover or a      *)
(* retirement cancels both sides).                                                            *)
CreditMatchesQueue ==
  \A r \in Routes :
    {f.event : f \in {f \in ToSet(server.queue) : Ordinary(f) /\ f.route = r}}
      = {x.event : x \in {x \in server.credit[r].records : ~x.sent}}

(* The client never holds more unparsed bytes of an attempt than the server has on credit   *)
(* for it, so a report never returns credit for what the view has not parsed.                *)
UnparsedWithinCredit ==
  \A r \in Routes :
    LET coming(q) == {i \in DOMAIN q : /\ q[i].kind = "event" /\ q[i].route = r
                                       /\ q[i].attempt = server.route[r].attempt}
        bytes(q) == MapThenSumSet(LAMBDA i : q[i].bytes, coming(q))
    IN Active(r) => bytes(server.wire) + bytes(client[r].inbox) <= server.credit[r].debtBytes

(* Across attempts, cancellations and overtaking control frames the client reads each       *)
(* attempt's baseline and events in order and without a gap.                                  *)
StreamInOrder == \A r \in Routes : client[r].phase # "broken"

(* "a conforming client is never refused" (terminal-subscriptions.ts:330): while the route   *)
(* is active, a command that arrives finds no unsettled command of its type, and a report     *)
(* that runs is one the credit account accepts.                                               *)
ConformingNeverRefused ==
  \A r \in Routes : Active(r) =>
    /\ uplink[r] # <<>> => ~Busy(server, r, Head(uplink[r]))
    /\ server.route[r].queue # <<>> /\ server.route[r].running = "no" =>
         LET command == server.route[r].queue[1] IN
         /\ command.type = "applied-ack" => AckAccepted(server.credit[r], command.n)
         /\ command.type = "baseline-progress" => ProgressAccepted(server.credit[r], command.n)

(* A frame accepted for a live attempt is only ever removed from the queue to be sent:       *)
(* cancel() for one subscription, or for an earlier attempt of the same one, takes nothing    *)
(* from the others that share the connection's queue.                                          *)
NoFrameDropped ==
  [][\A f \in ToSet(server.queue) :
       \/ f \in ToSet(server.queue)' \cup server.handed'
       \/ server'.closed
       \/ IsFenced(f) /\ (server'.route[f.route].phase = "retired"
                           \/ server'.route[f.route].attempt # f.attempt)]_vars

(* The attempt accepted output that the client's view has not applied. *)
Undelivered(r) ==
  /\ Active(r)
  /\ server.credit[r].mode = "baseline" => server.credit[r].baseline.endQueued
  /\ server.credit[r].lastQueued >= server.credit[r].atSeq
  /\ client[r].attempt = server.route[r].attempt /\ client[r].phase # "unavailable"
  /\ client[r].applied < server.credit[r].lastQueued \/ client[r].phase # "ready"

(* No callback, frame, event or command is on its way. *)
Quiescent ==
  /\ server.handed = {} /\ server.wire = <<>> /\ ~server.sendFailed
  /\ \A r \in Routes : client[r].inbox = <<>> /\ uplink[r] = <<>> /\ server.route[r].queue = <<>>

(* No wake-up is lost between credit, socket and reports: when nothing is on its way any    *)
(* more, the client's view has applied all output the server accepted for its attempt.        *)
NoStall == Quiescent => \A r \in Routes : ~Undelivered(r)

(* "the missing ordered events are sent" (docs/terminal-architecture.md:66): a view that      *)
(* resumes from a cursor inside the replay window gets every event the replay holds.           *)
ReplayCompletes ==
  Quiescent => \A r \in Routes : ~(Undelivered(r) /\ server.credit[r].mode = "replay")

(* What the server accepted from the worker is applied by the client's view, unless the      *)
(* attempt or the subscription ends first (wake() after every report, drain() after every     *)
(* send, and the folded report sent with the result of the one before).                        *)
OutputDelivered == \A r \in Routes : []<>~Undelivered(r)
=============================================================================
