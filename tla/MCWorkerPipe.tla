---------------------------- MODULE MCWorkerPipe ----------------------------
(* Instances of WorkerPipe: small sets of commands and how far the environment
   may interfere with each. *)
EXTENDS WorkerPipe

Req(id, type, sub, run) == [id |-> id, type |-> type, sub |-> sub, run |-> run]

Calm(reqs) ==
    [reqs |-> reqs, late |-> 0, gone |-> 0, events |-> 0, fulls |-> 0, offers |-> 0, losses |-> 0, early |-> FALSE]

\* Two subscriptions with four route-control commands share a worker's route window of two:
\* a command waits in the runtime, and two are parked in the worker.
Streaming ==
    [Calm({Req(1, "subscribe", "a", "r"), Req(2, "ack", "a", "r"), Req(3, "unsubscribe", "a", "r"),
           Req(4, "subscribe", "b", "r"), Req(5, "ack", "b", "r"), Req(6, "unsubscribe", "b", "r")})
       EXCEPT !.early = TRUE]

\* The same subscription against deadlines and full streams.
Attaching ==
    [Calm({Req(1, "subscribe", "a", "r"), Req(2, "ack", "a", "r"), Req(3, "unsubscribe", "a", "r")})
       EXCEPT !.early = TRUE, !.late = 1, !.fulls = 2, !.events = 1, !.losses = 1]

Recovering ==
    [Calm({Req(1, "subscribe", "a", "r"), Req(2, "recover", "a", "r"), Req(3, "unsubscribe", "a", "r")})
       EXCEPT !.late = 1, !.fulls = 1]

\* Three readers of the one status window.
Reading ==
    [Calm({Req(1, "status", "", "r"), Req(2, "status", "", "r"), Req(3, "status", "", "r")})
       EXCEPT !.late = 1, !.gone = 1, !.fulls = 1]

\* A transport that hands frames over late.
Postponing ==
    [Calm({Req(1, "status", "", "r"), Req(2, "stop", "", "r")})
       EXCEPT !.late = 2, !.gone = 1, !.offers = 2, !.losses = 1]

\* Ordinary commands against a worker whose output is backed up.
Pressing ==
    [Calm({Req(1, "subscribe", "a", "r"), Req(2, "write", "", "r"), Req(3, "ack", "a", "r")})
       EXCEPT !.fulls = 1, !.events = 2]

\* A terminal is created while a view attaches to it.
Creating ==
    [Calm({Req(1, "spawn", "", "n"), Req(2, "subscribe", "a", "n"), Req(3, "unsubscribe", "a", "n")})
       EXCEPT !.late = 1, !.fulls = 1, !.losses = 1]

\* A status read follows another as soon as its reply is read.
Hurrying ==
    [Calm({Req(1, "subscribe", "a", "r"), Req(2, "ack", "a", "r"), Req(3, "status", "", "r"), Req(4, "status", "", "r")})
       EXCEPT !.early = TRUE]

SafetyScenarios == {Streaming, Attaching, Recovering, Reading, Postponing, Pressing, Creating, Hurrying}

CreatingScenarios == {Creating}
=============================================================================
