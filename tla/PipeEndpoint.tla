---------------------------- MODULE PipeEndpoint ----------------------------
(***************************************************************************)
(* The worker's end of the worker pipe                                     *)
(* (packages/terminal-worker/src/pipe-endpoint.ts): admission of command   *)
(* frames by class, the one-at-a-time route control with its parked        *)
(* commands, the replies and the bytes they are charged to.                *)
(*                                                                         *)
(* The endpoint is a record w and every handler an operator on it.  A      *)
(* request is a record [id, type, sub, run]; w.up is what the worker has    *)
(* written and the runtime has not read.                                   *)
(* Every frame is charged as one unit, the size of the largest reply       *)
(* (MAX_REPLY_BYTES).  w.runs holds the runs whose identity the execution  *)
(* keeps, w.sessions those that have a session too, and w.threw the runs   *)
(* whose spawn threw.                                                      *)
(*                                                                         *)
(* Left out: chunking and decoding, malformed frames and duplicate         *)
(* identities (identities are unique), heartbeats (a prepaid frame outside *)
(* every account), errors of the streams.                                  *)
(***************************************************************************)
EXTENDS Integers, Sequences, FiniteSets, SequencesExt, TLC

CONSTANTS
    RouteWindow,     \* PIPE_ROUTE_CONTROL_COMMANDS
    OrdinaryWindow,  \* pendingWorkerCommands
    queueUnits,      \* pipeQueuedBytes
    controlUnits     \* reservedControlBytes

ASSUME WindowsAssumption == RouteWindow \in Nat \ {0} /\ OrdinaryWindow \in Nat \ {0}
ASSUME UnitsAssumption == controlUnits \in Nat \ {0} /\ queueUnits \in Nat /\ queueUnits > controlUnits

Openers == {"subscribe", "recover"}

Role(r) ==
    CASE r.type \in {"status", "stop"} -> r.type
      [] r.type = "hello" -> "status"
      [] r.type \in {"ack", "unsubscribe"} -> "route"
      [] OTHER -> "ordinary"

Without(f, x) == [y \in DOMAIN f \ {x} |-> f[y]]

EndpointStart ==
    [state |-> "awaiting-hello", reason |-> "", pending |-> <<>>, parked |-> <<>>,
     deferred |-> <<>>, cursor |-> 0, outbound |-> <<>>, transport |-> <<>>,
     blocked |-> FALSE, paused |-> FALSE, up |-> <<>>,
     started |-> <<>>, open |-> {}, fenced |-> {}, runs |-> {}, sessions |-> {}, threw |-> {}]

Frame(type, of, control, extra) == [type |-> type, of |-> of, control |-> control, extra |-> extra]

Shutdown(w, reason) ==
    [w EXCEPT !.state = "closed", !.reason = reason, !.pending = <<>>, !.parked = <<>>,
              !.deferred = <<>>, !.outbound = <<>>]

-----------------------------------------------------------------------------
(* Accounts *)

Executing(w, ordinary) ==
    {r \in DOMAIN w.pending : w.pending[r].phase = "executing" /\ ((w.pending[r].role = "ordinary") = ordinary)}

Unsettled(w) == w.transport \o w.outbound

Charged(w, control) == Len(SelectSeq(Unsettled(w), LAMBDA f : f.control = control))

OrdinaryAccounted(w) == Cardinality(Executing(w, TRUE)) + Charged(w, FALSE)

ControlAccounted(w) == Cardinality(Executing(w, FALSE)) + Charged(w, TRUE)

Accounted(w) == OrdinaryAccounted(w) + ControlAccounted(w)

ReplyCapacity(w, role) ==
    /\ Accounted(w) + 1 <= queueUnits
    /\ IF role = "ordinary"
         THEN OrdinaryAccounted(w) + 2 <= queueUnits - controlUnits
         ELSE ControlAccounted(w) + 1 <= controlUnits

OfRole(w, role) == {r \in DOMAIN w.pending : w.pending[r].role = role}

SlotAvailable(w, role) ==
    LET count == Cardinality({r \in OfRole(w, role) : w.pending[r].phase # "parked"})
    IN  IF role = "ordinary" THEN count < OrdinaryWindow ELSE count = 0

ExtraItems(w) == Len(SelectSeq(Unsettled(w), LAMBDA f : f.extra))

SharedReplySlotAvailable(w) ==
    SlotAvailable(w, "route") /\ ExtraItems(w) = 0 /\ OfRole(w, "rejection") = {}

ReplyQueued(w, r) == \E i \in DOMAIN w.outbound : w.outbound[i].of = r

\* A record is counted until its write callback, although the runtime frees the
\* slot when it reads the reply: the defect of issue #96.
RouteWindowRecords_UntilCallback(w) == Cardinality(OfRole(w, "route"))

RouteWindowRecords(w) ==
    Cardinality({r \in OfRole(w, "route") : w.pending[r].phase = "response" => ReplyQueued(w, r)})

-----------------------------------------------------------------------------
(* The outbound queue: full says whether the stream takes only one frame *)

Flush(w, full) ==
    IF w.blocked \/ w.state # "ready" \/ w.outbound = <<>> THEN w
    ELSE LET n == IF full THEN 1 ELSE Len(w.outbound)
             written == SubSeq(w.outbound, 1, n)
         IN  [w EXCEPT !.outbound = SubSeq(@, n + 1, Len(@)),
                       !.transport = @ \o written,
                       !.up = @ \o written,
                       !.blocked = full]

Fits(w, frame) ==
    /\ Accounted(w) + 1 <= queueUnits
    /\ IF frame.control THEN ControlAccounted(w) + 1 <= controlUnits
                        ELSE OrdinaryAccounted(w) + 1 <= queueUnits - controlUnits

Enqueue(w, frame, full, failure) ==
    IF Fits(w, frame) THEN Flush([w EXCEPT !.outbound = Append(@, frame)], full)
                      ELSE Shutdown(w, failure)

-----------------------------------------------------------------------------
(* Admission *)

\* Executing an unsubscribe fences its subscription at once.
StartExecution(w, r) ==
    LET fenced == IF r.type = "unsubscribe" THEN {r.sub} ELSE {}
    IN  [w EXCEPT !.pending = (r :> [role |-> Role(r), phase |-> "executing"]) @@ @,
                  !.started = Append(@, r),
                  !.open = @ \ fenced,
                  !.fenced = @ \cup fenced,
                  !.outbound = SelectSeq(@, LAMBDA f : f.type = "event" => f.of.sub \notin fenced)]

EmitBusy(w, r, full) ==
    Enqueue([w EXCEPT !.pending = (r :> [role |-> "rejection", phase |-> "response"]) @@ @],
            Frame("busy", r, TRUE, TRUE), full, "rejection-byte-capacity")

OrdinaryRejectionFits(w, r) ==
    /\ Role(r) = "ordinary"
    /\ Cardinality({q \in OfRole(w, "ordinary") : w.pending[q].phase # "parked"}
                   \cup {q \in OfRole(w, "rejection") : Role(q) = "ordinary"}) < OrdinaryWindow

RejectBusy(w, r, full) ==
    IF ~SharedReplySlotAvailable(w) /\ ~OrdinaryRejectionFits(w, r)
      THEN Shutdown(w, "rejection-slot-exhausted")
    ELSE IF ReplyCapacity(w, "rejection") THEN EmitBusy(w, r, full)
    ELSE [w EXCEPT !.pending = (r :> [role |-> "rejection", phase |-> "deferred"]) @@ @,
                   !.deferred = Append(@, r)]

Defer(w, r) ==
    [w EXCEPT !.pending = (r :> [role |-> Role(r), phase |-> "deferred"]) @@ @,
              !.deferred = Append(@, r)]

HandleCommand(w, r, full) ==
    LET role == Role(r) IN
    IF role = "route" /\ (~SlotAvailable(w, role) \/ w.parked # <<>>)
      THEN IF RouteWindowRecords(w) >= RouteWindow
             THEN Shutdown(w, "route-control-ingress-capacity")
             ELSE [w EXCEPT !.pending = (r :> [role |-> role, phase |-> "parked"]) @@ @,
                            !.parked = Append(@, r)]
    ELSE IF ~SlotAvailable(w, role) THEN RejectBusy(w, r, full)
    ELSE IF ReplyCapacity(w, role) THEN StartExecution(w, r)
    ELSE IF role = "ordinary" THEN RejectBusy(w, r, full)
    ELSE Defer(w, r)

\* The frame that starts the session, answered with "ready".
HandleHello(w, hello, full) ==
    Enqueue([w EXCEPT !.state = "ready"], Frame("ready", hello, TRUE, FALSE), full, "ready-send-failed")

\* One chunk holds one frame; reading pauses while the outbound stream is full.
Consumed(w) == [w EXCEPT !.paused = w.blocked]

HandleFrame(w, r, full) ==
    Consumed(IF r.type = "hello" THEN HandleHello(w, r, full) ELSE HandleCommand(w, r, full))

-----------------------------------------------------------------------------
(* Completion and settlement *)

\* What the execution may answer.  Whether what a command asks for is acceptable and whether
\* its execution fails is a choice, except that a command for a run without a session is
\* refused, an opener its unsubscribe overtook is refused, a status read is not refused, and
\* route control, which calls nothing that can fail, has a result or a refusal.
Outcomes(w, r) ==
    CASE r.type = "spawn" -> {"accepted", "refused", "unknown", "threw"}
      [] r.type # "spawn" /\ (r.run \notin w.sessions \/ (r.type \in Openers /\ r.sub \in w.fenced)) -> {"refused"}
      [] r.type = "status" /\ r.run \in w.sessions -> {"accepted", "unknown"}
      [] Role(r) = "route" /\ r.run \in w.sessions -> {"accepted", "refused"}
      [] OTHER -> {"accepted", "refused", "unknown"}

\* An execution that throws is answered as one whose result is unknown.
Reply(outcome) == IF outcome \in {"unknown", "threw"} THEN "RESULT_UNKNOWN" ELSE outcome

\* A spawn with an unknown result keeps the identity of its run, since a native owner may
\* exist; a refused one gives it back.
CompleteCommand(w, r, outcome, full) ==
    LET spawned(outcomes) == IF r.type = "spawn" /\ outcome \in outcomes THEN {r.run} ELSE {}
        v == [w EXCEPT !.pending[r].phase = "response",
                       !.paused = FALSE,
                       !.runs = @ \cup spawned({"accepted", "unknown"}),
                       !.sessions = @ \cup spawned({"accepted"}),
                       !.threw = @ \cup spawned({"threw"}),
                       !.open = IF outcome = "accepted" /\ r.type \in Openers THEN @ \cup {r.sub} ELSE @]
    IN  Enqueue(v, Frame(Reply(outcome), r, Role(r) # "ordinary", FALSE), full, "response-send-failed")

EnqueueEvent(w, frame, full) == Flush([w EXCEPT !.outbound = Append(@, frame)], full)

Classes == <<"status", "stop", "route", "rejection">>

\* The first deferred command of the class whose turn it is after k others, or 0.
Candidate(w, k) == SelectInSeq(w.deferred, LAMBDA r : w.pending[r].role = Classes[((w.cursor + k) % 4) + 1])

\* The classes a free unit can go to, by their turn.
Turns(w) ==
    {k \in 0 .. 3 : Candidate(w, k) > 0 /\ ReplyCapacity(w, Classes[((w.cursor + k) % 4) + 1])}

StartSelected(w, r, full) ==
    IF w.pending[r].role = "rejection" THEN EmitBusy(w, r, full) ELSE StartExecution(w, r)

StartTurn(w, k, full) ==
    StartSelected([w EXCEPT !.deferred = RemoveAt(@, Candidate(w, k)), !.cursor = (@ + k + 1) % 4],
                  w.deferred[Candidate(w, k)], full)

StartDeferred(w, full) ==
    IF w.state # "ready" \/ Turns(w) = {} THEN w ELSE StartTurn(w, Min(Turns(w)), full)

\* As many rounds as there are deferred commands.
TryStartDeferred(w, full) == FoldLeft(LAMBDA v, r : StartDeferred(v, full), w, w.deferred)

StartParked(w, r) == IF ReplyCapacity(w, "route") THEN StartExecution(w, r) ELSE Defer(w, r)

AdmitParkedRoute(w) ==
    IF w.parked = <<>> \/ w.state # "ready" \/ ~SlotAvailable(w, "route") THEN w
    ELSE StartParked([w EXCEPT !.parked = Tail(@)], Head(w.parked))

Answered(w, r) == r \in DOMAIN w.pending /\ w.pending[r].phase = "response"

SettleFrame(w, full) ==
    AdmitParkedRoute(TryStartDeferred(
        [w EXCEPT !.transport = Tail(@),
                  !.pending = IF Answered(w, Head(w.transport).of) THEN Without(@, Head(w.transport).of) ELSE @],
        full))

Resumed(w) == [w EXCEPT !.paused = FALSE]

OnDrain(w, full) == Resumed(Flush([w EXCEPT !.blocked = FALSE], full))
=============================================================================
