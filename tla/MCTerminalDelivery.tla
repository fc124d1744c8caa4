-------------------------- MODULE MCTerminalDelivery --------------------------
(* Instances of TerminalDelivery for TLC. *)
EXTENDS TerminalDelivery
CONSTANTS r1, r2

RouteSymmetry == Permutations(Routes)

(* One subscription: two attempts, a baseline of two chunks and an event after it, of mixed  *)
(* sizes, with credit for less than the stream; and a longer stream of large frames.         *)
One ==
  [routes |-> 1, attempts |-> 2, seq |-> 1, chunks |-> 2, sizes |-> {1, 2},
   creditBytes |-> 4, outboundBytes |-> 6, controlBytes |-> 1, recordLimit |-> 4,
   itemLimit |-> 5, controlItems |-> 1, resultSlots |-> 1, metadataBytes |-> 0]

Longer == [One EXCEPT !.seq = 2, !.sizes = {2}]

(* Two subscriptions that share one connection too small for both. *)
Two ==
  [One EXCEPT !.routes = 2, !.attempts = 1, !.seq = 0, !.chunks = 1, !.sizes = {1},
              !.creditBytes = 2, !.outboundBytes = 2, !.itemLimit = 3]

(* Every frame as large as a frame can be, with metadata: what progress has to cope with. *)
Large ==
  [Longer EXCEPT !.chunks = 1, !.creditBytes = 6, !.metadataBytes = 1]

(* A replay longer than the credit. *)
LongReplay ==
  [Longer EXCEPT !.seq = 3, !.chunks = 1, !.creditBytes = 3]

SafetySetups == {One, Longer, Two}
LiveSetups == {Large}
ReplaySetups == {LongReplay}
=============================================================================
