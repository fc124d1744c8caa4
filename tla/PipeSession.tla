----------------------------- MODULE PipeSession -----------------------------
(***************************************************************************)
(* The runtime's end of the worker pipe                                    *)
(* (apps/server/src/terminal/worker-pipe-session.ts) with the run records  *)
(* LocalRuntime, WorkerPool and RunRegistry keep for it: admission by      *)
(* class, the waiting route control and status reads, hand-over to the     *)
(* transport, deadlines, the routes of subscriptions and contact loss.     *)
(*                                                                         *)
(* The session is a record s and every method an operator on it; a mode    *)
(* says what the transport does with the frames a flush offers it.         *)
(* s.answer holds what every caller was told, s.runs the runs the session  *)
(* knows and s.placed the records of LocalRuntime for them.                *)
(*                                                                         *)
(* Left out: encoding, clocks as numbers (a deadline passes in a step of   *)
(* its own), health, previews, leases of the shared byte account, the      *)
(* listeners' own state.                                                   *)
(***************************************************************************)
EXTENDS PipeEndpoint

CONSTANTS
    identityLimit,  \* identityLimit: commands in flight besides prepaid ones
    maxRoutes,      \* maxRuns * subscriptionsPerConnection
    frameLimit,     \* pipeQueuedBytes of the runtime's side, in frames
    maxRuns

ASSUME LimitsAssumption == {identityLimit, maxRoutes, frameLimit, maxRuns} \subseteq Nat \ {0}

Hello == [id |-> 0, type |-> "hello", sub |-> "", run |-> ""]

\* What the transport does with the frames of a flush: it takes all of them,
\* takes one and is full, or takes one without handing it over yet.
Modes == {"all", "one", "offer"}

Progress(r) == Role(r) = "route"

SessionStart ==
    [state |-> "new", queue |-> <<>>, handed |-> <<>>, waiting |-> <<>>, statusWaiters |-> <<>>,
     scheduled |-> FALSE, pending |-> <<>>, routes |-> <<>>, blocked |-> FALSE,
     overdue |-> {}, gone |-> {}, answer |-> <<>>, runs |-> {}, placed |-> <<>>,
     down |-> <<>>, delivered |-> <<>>]

-----------------------------------------------------------------------------
(* Run records: LocalRuntime, WorkerPool and RunRegistry *)

Placement == [dispatched |-> FALSE, status |-> "unverifiable"]

ReserveRun(s, run) ==
    IF s.state = "ready" /\ Cardinality(s.runs) < maxRuns /\ run \notin DOMAIN s.placed
      THEN [s EXCEPT !.placed = (run :> Placement) @@ @, !.runs = @ \cup {run}]
      ELSE s

Releases(s, run) == [s EXCEPT !.placed = Without(@, run)]

ForgetUnstartedRun(s, run) ==
    IF \E r \in DOMAIN s.pending : r.run = run THEN s ELSE [s EXCEPT !.runs = @ \ {run}]

CancelRunReservation(s, run) ==
    IF run \in DOMAIN s.placed /\ ~s.placed[run].dispatched
      THEN Releases(ForgetUnstartedRun(s, run), run) ELSE s

\* Every route of the run is withdrawn; a pending command for it reclaims it later.
ForgetRefusedRun(s, run) ==
    LET ofRun(sub) == s.routes[sub].run = run
        busy(sub) == \E r \in DOMAIN s.pending : r.sub = sub
    IN  [s EXCEPT !.runs = @ \ {run},
                  !.routes = [sub \in {x \in DOMAIN @ : ~ofRun(x) \/ busy(x)} |->
                                IF ofRun(sub) THEN [@[sub] EXCEPT !.active = FALSE, !.unsubscribed = TRUE]
                                              ELSE @[sub]]]

RetireRefusedSpawn(s, run) ==
    IF run \in DOMAIN s.placed /\ s.placed[run].dispatched /\ s.placed[run].status = "unverifiable"
      THEN Releases(ForgetRefusedRun(s, run), run) ELSE s

Observe(s, run) ==
    IF run \in DOMAIN s.placed THEN [s EXCEPT !.placed[run].status = "live"] ELSE s

ContactLost(s) ==
    [s EXCEPT !.placed = [run \in DOMAIN @ |-> [@[run] EXCEPT !.status = "unverifiable"]]]

\* What LocalRuntime.request does once it has the answer a.
Reconcile(s, r, a) ==
    CASE r.type = "spawn" /\ (r.run \in DOMAIN s.placed => ~s.placed[r.run].dispatched) ->
            CancelRunReservation(s, r.run)
      [] r.type = "spawn" /\ a \in {"refused", "busy"} -> RetireRefusedSpawn(s, r.run)
      [] r.type = "status" /\ a = "accepted" -> Observe(s, r.run)
      [] OTHER -> s

NoticeContact(s) == IF s.state = "ready" THEN s ELSE ContactLost(s)

\* The caller of r is answered a.
Answer(s, r, a) == NoticeContact(Reconcile([s EXCEPT !.answer = (r :> a) @@ @], r, a))

-----------------------------------------------------------------------------
(* Settlement and hand-over *)

Settle(s, r) ==
    [s EXCEPT !.pending = Without(@, r),
              !.scheduled = @ \/ (Role(r) = "status" /\ s.statusWaiters # <<>>)]

StatusLive(s, r) == r \notin s.overdue \cup s.gone

Admitted(s, role) == {r \in DOMAIN s.pending : Role(r) = role /\ s.pending[r].phase # "waiting"}

StatusHolder(s) == Admitted(s, "status")

RefusedAtHandover(s, r) == r.type = "status" /\ ~StatusLive(s, r)

\* The frame is on its way, and a spawn counts as dispatched.
Sent(s, r) ==
    [s EXCEPT !.down = Append(@, r),
              !.pending = IF r \in DOMAIN @ THEN [@ EXCEPT ![r].phase = "sent"] ELSE @,
              !.placed = IF r.type = "spawn" /\ r.run \in DOMAIN @
                           THEN [@ EXCEPT ![r.run].dispatched = TRUE] ELSE @]

\* The transport calls handing: the last check of a status read.
Handing(s, r) ==
    IF RefusedAtHandover(s, r) THEN Answer(Settle(s, r), r, "BUSY") ELSE Sent(s, r)

\* One frame of a flush.  A frame refused at its hand-over returns to the session.
Write(s, item) ==
    Handing([s EXCEPT !.queue = Tail(@),
                      !.handed = IF RefusedAtHandover(s, item.req) THEN @
                                 ELSE Append(@, [item EXCEPT !.given = TRUE])],
            item.req)

Offer(s, item) ==
    [s EXCEPT !.queue = Tail(@),
              !.handed = Append(@, item),
              !.pending = IF item.req \in DOMAIN @ THEN [@ EXCEPT ![item.req].phase = "offered"] ELSE @,
              !.blocked = TRUE]

\* The flush of a transport that takes one frame and is full; a status read
\* refused at its hand-over does not fill it.
TakeOne(s, mode) ==
    IF s.queue = <<>> THEN s
    ELSE IF mode = "one" THEN Write([s EXCEPT !.blocked = TRUE], Head(s.queue))
    ELSE Offer(s, Head(s.queue))

FlushSession(s, mode) ==
    IF s.blocked \/ s.state = "closed" \/ s.queue = <<>> THEN s
    ELSE IF mode = "all" THEN FoldLeft(Write, s, s.queue)
    ELSE TakeOne(IF RefusedAtHandover(s, Head(s.queue).req) THEN Write(s, Head(s.queue)) ELSE s, mode)

LoseContact(s) ==
    IF s.state = "closed" THEN s
    ELSE LET unanswered == {r \in DOMAIN s.pending : s.pending[r].phase # "abandoned"}
                           \cup Range(s.statusWaiters)
             word(r) == IF r \in DOMAIN s.pending /\ s.pending[r].phase = "sent"
                          THEN "RESULT_UNKNOWN" ELSE "WORKER_UNAVAILABLE"
             closed == [s EXCEPT !.state = "closed", !.queue = <<>>, !.waiting = <<>>,
                                 !.statusWaiters = <<>>, !.pending = <<>>, !.routes = <<>>]
         IN  ContactLost(FoldLeft(LAMBDA t, r : Answer(t, r, word(r)), closed, SetToSeq(unanswered)))

-----------------------------------------------------------------------------
(* Admission *)

PrepaidFrames(s) == Len(SelectSeq(s.queue \o s.handed, LAMBDA item : item.prepaid))

PromoteProgress(s, mode) ==
    LET free == {n \in 0 .. Len(s.waiting) :
                    /\ Cardinality(Admitted(s, "route")) + n <= RouteWindow
                    /\ PrepaidFrames(s) + n <= RouteWindow}
        n == CHOOSE k \in free \cup {0} : \A j \in free : j <= k
        promoted == SubSeq(s.waiting, 1, n)
        t == [s EXCEPT !.waiting = SubSeq(@, n + 1, Len(@)),
                       !.queue = @ \o promoted,
                       !.pending = [r \in DOMAIN @ |-> IF \E i \in 1 .. n : promoted[i].req = r
                                                         THEN [@[r] EXCEPT !.phase = "queued"] ELSE @[r]]]
    IN  IF s.state = "closed" THEN s ELSE FlushSession(t, mode)

QueueBudget(s, role) ==
    LET items == SelectSeq(s.queue \o s.handed, LAMBDA item : ~item.prepaid)
        ordinary == SelectSeq(items, LAMBDA item : Role(item.req) = "ordinary")
    IN  /\ Len(items) < frameLimit
        /\ role = "ordinary" => Len(ordinary) < frameLimit - 1

OwnedIdentities(s) == Cardinality({r \in DOMAIN s.pending : ~s.pending[r].prepaid})

WaitsAlready(s, r) ==
    \E i \in DOMAIN s.waiting :
        s.waiting[i].req.sub = r.sub /\ (s.waiting[i].req.type = "unsubscribe") = (r.type = "unsubscribe")

\* Whether a route-control command has to wait for a slot, in arrival order.
MustWait_WindowOnly(s, r) == Cardinality(Admitted(s, "route")) >= RouteWindow \/ s.waiting # <<>>

MustWait(s, r) ==
    \/ Cardinality(Admitted(s, "route")) >= RouteWindow
    \/ PrepaidFrames(s) >= RouteWindow
    \/ s.waiting # <<>>

Cap(role) == IF role = "ordinary" THEN OrdinaryWindow ELSE IF role = "route" THEN RouteWindow ELSE 1

NewRoute(s, r) == r.type \in Openers /\ r.sub \notin DOMAIN s.routes

Refused_FullWindow(s, r) ==
    LET role == Role(r)
        known == Progress(r) /\ r.sub \in DOMAIN s.routes
    IN  \/ known /\ MustWait(s, r) /\ (r.type = "ack" \/ WaitsAlready(s, r))
        \/ ~known /\ \/ Cardinality(Admitted(s, role)) >= Cap(role)
                     \/ Progress(r) /\ s.waiting # <<>>
                     \/ OwnedIdentities(s) >= identityLimit
                     \/ NewRoute(s, r) /\ Cardinality(DOMAIN s.routes) >= maxRoutes
                     \/ ~QueueBudget(s, role)

Refused(s, r) ==
    LET role == Role(r)
        known == Progress(r) /\ r.sub \in DOMAIN s.routes
    IN  \/ known /\ MustWait(s, r) /\ WaitsAlready(s, r)
        \/ ~known /\ \/ Cardinality(Admitted(s, role)) >= Cap(role)
                     \/ Progress(r) /\ s.waiting # <<>>
                     \/ OwnedIdentities(s) >= identityLimit
                     \/ NewRoute(s, r) /\ Cardinality(DOMAIN s.routes) >= maxRoutes
                     \/ ~QueueBudget(s, role)

\* Why a command is refused at its admission, or "".
Refusal(s, r) ==
    CASE s.state # "ready" -> "WORKER_UNAVAILABLE"
      [] s.state = "ready" /\ r.run \notin s.runs -> "RUN_NOT_FOUND"
      [] OTHER -> IF Refused(s, r) THEN "BUSY" ELSE ""

Route(r) == [run |-> r.run, active |-> FALSE, unsubscribed |-> FALSE]

\* An opener gets its route, and an opener or an unsubscribe deactivates it.
Fence(s, r) ==
    [s EXCEPT !.routes =
        IF r.type \in Openers \/ (r.type = "unsubscribe" /\ r.sub \in DOMAIN @)
          THEN IF r.sub \in DOMAIN @ THEN [@ EXCEPT ![r.sub].active = FALSE] ELSE (r.sub :> Route(r)) @@ @
          ELSE @]

Own_NewestFirst(s, r, prepaid, waits) ==
    LET item == [req |-> r, prepaid |-> prepaid, given |-> FALSE]
    IN  [s EXCEPT !.pending = (r :> [phase |-> IF waits THEN "waiting" ELSE "queued", prepaid |-> prepaid]) @@ @,
                  !.waiting = IF waits THEN <<item>> \o @ ELSE @,
                  !.queue = IF waits THEN @ ELSE Append(@, item)]

Own(s, r, prepaid, waits) ==
    LET item == [req |-> r, prepaid |-> prepaid, given |-> FALSE]
    IN  [s EXCEPT !.pending = (r :> [phase |-> IF waits THEN "waiting" ELSE "queued", prepaid |-> prepaid]) @@ @,
                  !.waiting = IF waits THEN Append(@, item) ELSE @,
                  !.queue = IF waits THEN @ ELSE Append(@, item)]

AdmitNow(s, r, mode) ==
    LET prepaid == Progress(r) /\ r.sub \in DOMAIN s.routes
    IN  IF Refusal(s, r) # "" THEN Answer(s, r, Refusal(s, r))
        ELSE IF prepaid /\ MustWait(s, r) THEN PromoteProgress(Own(Fence(s, r), r, TRUE, TRUE), mode)
        ELSE FlushSession(Own(Fence(s, r), r, prepaid, FALSE), mode)

\* Route control that waited is promoted first.
Admit(s, r, mode) == AdmitNow(IF Progress(r) THEN PromoteProgress(s, mode) ELSE s, r, mode)

-----------------------------------------------------------------------------
(* Status reads wait for the single status window *)

\* A waiter's turn: a dead one is answered, and an abandoned holder answers it too.
StatusTurn(s, r, mode) ==
    IF ~StatusLive(s, r) \/ \E h \in StatusHolder(s) : s.pending[h].phase = "abandoned" THEN Answer(s, r, "BUSY")
    ELSE IF StatusHolder(s) = {} THEN Admit(s, r, mode)
    ELSE [s EXCEPT !.statusWaiters = Append(@, r)]

PromoteStatus(s, mode) ==
    FoldLeft(LAMBDA t, r : StatusTurn(t, r, mode), [s EXCEPT !.statusWaiters = <<>>], s.statusWaiters)

RequestStatus(s, r, mode) ==
    IF s.statusWaiters = <<>> /\ StatusHolder(s) = {} THEN Admit(s, r, mode)
    ELSE IF s.state # "ready" \/ Len(s.statusWaiters) >= identityLimit
      THEN Answer(s, r, IF s.state = "ready" THEN "BUSY" ELSE "WORKER_UNAVAILABLE")
    ELSE PromoteStatus([s EXCEPT !.statusWaiters = Append(@, r)], mode)

\* LocalRuntime.request
Request(s, r, mode) ==
    IF r.run \notin DOMAIN s.placed THEN Answer(s, r, "WORKER_UNAVAILABLE")
    ELSE IF r.type = "status" THEN RequestStatus(NoticeContact(s), r, mode)
    ELSE Admit(NoticeContact(s), r, mode)

-----------------------------------------------------------------------------
(* Replies, deadlines and the transport's callbacks *)

\* The route goes with the last of its unsubscribe and its openers to settle.
ForgetRoute_First(s, sub, unsubscribed) ==
    IF sub \in DOMAIN s.routes /\ unsubscribed /\ ~\E r \in DOMAIN s.pending : r.type \in Openers /\ r.sub = sub
      THEN [s EXCEPT !.routes = Without(@, sub)] ELSE s

ForgetRoute(s, sub, unsubscribed) ==
    IF sub \notin DOMAIN s.routes THEN s
    ELSE LET t == [s EXCEPT !.routes[sub].unsubscribed = @ \/ unsubscribed]
             opening == \E r \in DOMAIN s.pending : r.type \in Openers /\ r.sub = sub
         IN  IF t.routes[sub].unsubscribed /\ ~opening THEN [t EXCEPT !.routes = Without(@, sub)] ELSE t

SettleRoute(s, r) ==
    IF r.type \in Openers \cup {"unsubscribe"} THEN ForgetRoute(Settle(s, r), r.sub, r.type = "unsubscribe")
    ELSE Settle(s, r)

\* The marker of an accepted opener activates its route if its consumer took it.
Activate(s, r, outcome, taken) ==
    IF r.type \in Openers /\ outcome = "accepted" THEN [s EXCEPT !.routes[r.sub].active = taken] ELSE s

LateReply_Ignored(s, r, outcome) == s

LateReply(s, r, outcome) ==
    IF r.type = "spawn" /\ outcome \in {"refused", "busy"} THEN RetireRefusedSpawn(s, r.run) ELSE s

ReceiveReply(s, r, outcome, taken) ==
    IF r \notin DOMAIN s.pending \/ s.pending[r].phase \notin {"sent", "abandoned"} THEN LoseContact(s)
    ELSE IF s.pending[r].phase = "abandoned" THEN LateReply(SettleRoute(s, r), r, outcome)
    ELSE Answer(SettleRoute(Activate(s, r, outcome, taken), r), r, outcome)

ReceiveEvent(s, event) ==
    IF event.run \notin s.runs THEN LoseContact(s)
    ELSE IF event.sub \in DOMAIN s.routes /\ s.routes[event.sub].active
      THEN [s EXCEPT !.delivered = Append(@, event.sub)] ELSE s

Receive(s, frame, taken, mode) ==
    IF s.state = "closed" THEN s
    ELSE PromoteProgress(
           CASE frame.type = "ready" -> [s EXCEPT !.state = "ready"]
             [] frame.type = "event" -> ReceiveEvent(s, frame.of)
             [] OTHER -> ReceiveReply(s, frame.of, frame.type, taken), mode)

\* A withdrawn frame never reached the worker; a sent one may have.
Expire_KeepQueued(s, r) ==
    IF s.pending[r].phase \in {"queued", "offered"} THEN Answer(SettleRoute(s, r), r, "BUSY")
    ELSE Answer([s EXCEPT !.pending[r].phase = "abandoned"], r, "RESULT_UNKNOWN")

Expire(s, r) ==
    CASE s.pending[r].phase = "queued" ->
            Answer(SettleRoute([s EXCEPT !.queue = SelectSeq(@, LAMBDA item : item.req # r)], r), r, "BUSY")
      [] s.pending[r].phase = "offered" -> Answer(SettleRoute(s, r), r, "BUSY")
      [] OTHER ->
            Answer([s EXCEPT !.pending[r].phase = "abandoned",
                             !.scheduled = @ \/ (Role(r) = "status" /\ s.statusWaiters # <<>>)],
                   r, "RESULT_UNKNOWN")

Expired(s) ==
    {r \in DOMAIN s.pending :
        /\ ~Progress(r)
        /\ s.pending[r].phase # "abandoned"
        /\ r \in s.overdue \/ (Role(r) = "status" /\ r \in s.gone /\ s.pending[r].phase # "sent")}

TickSession(s, mode) == PromoteStatus(FoldLeft(Expire, s, SetToSeq(Expired(s))), mode)

\* The write callback of the oldest frame.
Release_NoPromotion(s, mode) == [s EXCEPT !.handed = Tail(@)]

Release(s, mode) ==
    IF Head(s.handed).prepaid THEN PromoteProgress([s EXCEPT !.handed = Tail(@)], mode)
    ELSE [s EXCEPT !.handed = Tail(@)]

\* The transport hands over a frame it took earlier.
HandLate(s, i) ==
    IF s.state = "closed" \/ s.handed[i].req \notin DOMAIN s.pending
      THEN [LoseContact(s) EXCEPT !.handed = RemoveAt(@, i)]
      ELSE Handing([s EXCEPT !.handed[i].given = TRUE], s.handed[i].req)

DrainSession(s, mode) == FlushSession([s EXCEPT !.blocked = FALSE], mode)
=============================================================================
