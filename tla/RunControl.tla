------------------------------ MODULE RunControl ------------------------------
(***************************************************************************)
(* The control side of one run inside its terminal worker: the ordered     *)
(* pump of packages/terminal-worker/src/run-session.ts, the dispatch of    *)
(* worker-execution.ts in front of it and the installed subscriptions of   *)
(* recovery-subscription.ts.  A worker is a record w; every operator       *)
(* returns the next record.                                                *)
(*                                                                         *)
(* An operation that changes control or geometry takes two steps of the    *)
(* pump: its facts are applied and published first, the control authority  *)
(* changes after the parser's barrier.  A status read is answered from     *)
(* the current fields, without the pump, while another command is          *)
(* pending, so it can fall between the two.                                *)
(***************************************************************************)
EXTENDS Integers, Sequences, FiniteSets

CONSTANTS Subs,         \* subscriptions of the run, over all connections
          None,         \* no holder
          Geometries,   \* terminal sizes
          firstSize,    \* the size the run was spawned with
          identityCap   \* input identities a worker keeps (pendingWorkerCommands)

ASSUME SubsAssumption == None \notin Subs /\ firstSize \in Geometries /\ identityCap \in Nat

Holders == Subs \cup {None}

(* A pipe command: expected is the epoch it names, next the epoch it grants.  live says that   *)
(* its caller still waits for the reply.                                                       *)
Command(op, sub, expected, next, holder, geometry) ==
  [op |-> op, sub |-> sub, expected |-> expected, next |-> next, holder |-> holder,
   geometry |-> geometry, live |-> TRUE]
NoCommand == Command("none", None, 0, 0, None, firstSize)
ExitCommand == Command("exit", None, 0, 0, None, firstSize)

(* A fact of the run's ordered event stream. *)
Fact(type, seq, epoch, holder, geometry) ==
  [type |-> type, seq |-> seq, epoch |-> epoch, holder |-> holder, geometry |-> geometry]

WorkerInit ==
  [epoch |-> 0, holder |-> None, geometry |-> firstSize, seq |-> 0,
   open |-> Subs, installed |-> Subs, base |-> [s \in Subs |-> 0],
   streams |-> [s \in Subs |-> <<>>],
   pending |-> <<>>, running |-> NoCommand, fenced |-> FALSE, exited |-> FALSE,
   identities |-> {}, log |-> <<>>, replies |-> <<>>]

(* Every subscription open at the worker receives the fact on its own stream. *)
Publish(w, type, epoch, holder, geometry) ==
  [w EXCEPT !.seq = @ + 1,
            !.streams = [s \in Subs |->
              IF s \in w.open
                THEN Append(@[s], Fact(type, w.seq + 1, epoch, holder, geometry))
                ELSE @[s]]]

Reply(w, command, outcome) ==
  [w EXCEPT !.replies = Append(@,
     [op |-> command.op, outcome |-> outcome, epoch |-> w.epoch, holder |-> w.holder,
      geometry |-> w.geometry, atSeq |-> w.seq, exited |-> w.exited, live |-> command.live])]

(* The subscription a control command names, as its new holder or as its author. *)
MatchesAuthority(w, sub, epoch) == w.holder = sub /\ w.epoch = epoch

ControlRefusal(w, c) ==
  IF c.expected # w.epoch THEN "stale"
  ELSE IF c.holder # None
         THEN IF c.holder \notin w.installed THEN "resync"
              ELSE IF c.next # w.epoch + 1 THEN "stale" ELSE "none"
         ELSE IF w.epoch = 0 \/ c.next # w.epoch THEN "stale" ELSE "none"

GrantedRefusal(w, c) ==
  IF c.sub \notin w.installed THEN "resync"
  ELSE IF ~MatchesAuthority(w, c.sub, c.expected) THEN "stale"
  ELSE IF c.op = "input" /\ c.sub \notin w.identities /\ Cardinality(w.identities) >= identityCap
         THEN "busy" ELSE "none"

Refusal_TrustProgram(w, c) ==
  IF w.fenced THEN "unavailable"
  ELSE IF c.op = "control" THEN ControlRefusal(w, c)
  ELSE IF c.op = "program" THEN "none" ELSE GrantedRefusal(w, c)
Refusal(w, c) ==
  IF w.fenced THEN "unavailable"
  ELSE IF c.op = "control" THEN ControlRefusal(w, c)
  ELSE IF c.op = "program"
         THEN IF c.expected # w.epoch \/ w.holder # None THEN "refused" ELSE "none"
  ELSE GrantedRefusal(w, c)

(* Native input: bytes of a subscription, or of a program when sub is None.  The log keeps the  *)
(* order of what the process reads and what the subscribers are told about control.            *)
Log(w, sub, epoch) == [w EXCEPT !.log = Append(@, [sub |-> sub, epoch |-> epoch])]
Write(w, c) ==
  [Log(w, c.sub, c.expected) EXCEPT
            !.identities = IF c.sub = None THEN @ ELSE @ \cup {c.sub}]

(* The facts of a control change or a resize: a new size first, then the authority. *)
ApplyFacts(w, c) ==
  LET sized == IF c.geometry = w.geometry THEN w
               ELSE [Publish(w, "resize", 0, None, c.geometry) EXCEPT !.geometry = c.geometry]
      controlFact == c.op = "control" /\ (c.holder # None \/ w.holder # None)
  IN  IF controlFact
        THEN Log(Publish(sized, "control", c.next, c.holder, c.geometry), c.holder, c.next)
        ELSE sized

(* One turn of the pump (drainOne, runOperation). *)
PumpBegin(w) ==
  LET c == Head(w.pending)
      popped == [w EXCEPT !.pending = Tail(@)]
  IN  IF c.op = "exit"
        THEN [Publish(popped, "exit", 0, None, w.geometry) EXCEPT !.fenced = TRUE]
      ELSE IF c.op = "recover"
        THEN [popped EXCEPT !.open = @ \cup {c.sub}, !.base[c.sub] = w.seq]
      ELSE IF c.op = "status" THEN Reply(popped, c, "accepted")
      ELSE IF Refusal(w, c) # "none" THEN Reply(popped, c, Refusal(w, c))
      ELSE IF c.op \in {"input", "program"} THEN Reply(Write(popped, c), c, "accepted")
      ELSE [ApplyFacts(popped, c) EXCEPT !.running = c]

(* The barrier after the facts: the authority changes and the command is answered. *)
PumpEnd(w) ==
  LET c == w.running
      settled == IF c.op = "control" THEN [w EXCEPT !.epoch = c.next, !.holder = c.holder] ELSE w
  IN  Reply([settled EXCEPT !.running = NoCommand], c, "accepted")

(* Native input or a resize that fails half way leaves the run unwritable. *)
MayFail(w) ==
  LET c == Head(w.pending)
  IN  /\ c.op \in {"input", "program", "control", "resize"} /\ Refusal(w, c) = "none"
      /\ c.op \in {"control", "resize"} => c.geometry # w.geometry
PumpFails(w) ==
  LET c == Head(w.pending)
  IN  Reply([w EXCEPT !.pending = Tail(@), !.fenced = TRUE,
                      !.identities = IF c.op = "input" THEN @ \cup {c.sub} ELSE @], c, "unknown")

Busy(w) == w.pending # <<>> \/ w.running # NoCommand

(* The subscription no longer receives facts; its queued ones are dropped. *)
Fence(w, s) ==
  [w EXCEPT !.open = @ \ {s}, !.installed = @ \ {s}, !.streams[s] = <<>>]

(* A command read from the pipe (execute, executeAdmitted): route commands and cached status   *)
(* reads are handled at once, the rest enters the pump in arrival order.  A recover captures    *)
(* its baseline in the pump, and its stream starts after it.                                   *)
Receive(w, c) ==
  IF c.op = "unsubscribe"
    THEN [Fence(w, c.sub) EXCEPT !.pending = SelectSeq(@, LAMBDA p : p.op # "recover" \/ p.sub # c.sub)]
  ELSE IF c.op = "recover" THEN [Fence(w, c.sub) EXCEPT !.pending = Append(@, c)]
  ELSE IF c.op = "status" /\ Busy(w) THEN Reply(w, c, "accepted")
  ELSE IF c.op \in {"input", "resize"} /\ c.sub \notin w.installed THEN Reply(w, c, "resync")
  ELSE [w EXCEPT !.pending = Append(@, c)]

(* The process exits: the leader is gone at once, its exit fact follows the queued work. *)
Exits(w) == [w EXCEPT !.exited = TRUE, !.pending = Append(@, ExitCommand)]

Installs(w, s) == [w EXCEPT !.installed = @ \cup {s}]
===============================================================================
