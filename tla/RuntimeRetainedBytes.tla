------------------------ MODULE RuntimeRetainedBytes ------------------------
(***************************************************************************)
(* The aggregate byte account of the terminal runtime                      *)
(* (apps/server/src/terminal/runtime-retained-bytes.ts).                   *)
(*                                                                         *)
(* Every buffer, record and queue slot the runtime keeps is paid for from  *)
(* one account.  A reservation hands out a lease object whose release()    *)
(* runs at most once; a backing store shared by several users is charged   *)
(* once, when its first user retains it, and freed with its last user.     *)
(* Control work may use the whole account; ordinary work must leave        *)
(* controlReserve untouched.                                               *)
(*                                                                         *)
(* A lease is an element of Leases that is live while its owner holds it   *)
(* and fresh again afterwards.  A caller may call release() on a lease it  *)
(* already released (the code's `owned` flag makes that a no-op).          *)
(***************************************************************************)
EXTENDS Integers, FiniteSets, FiniteSetsExt

CONSTANTS Leases,          \* lease objects
          Backings,        \* array buffers that can be retained
          Users,           \* leases handed out by retainBacking
          limit,           \* the whole account
          controlReserve,  \* the part ordinary work never takes
          Sizes,           \* sizes a caller asks for
          RECORD           \* overhead of one backing record (256 in the code)

ASSUME LimitAssumption == limit \in Nat \ {0}
ASSUME ReserveAssumption == controlReserve \in Nat /\ controlReserve <= limit
ASSUME SizeAssumption == Sizes \subseteq Nat /\ RECORD \in Nat

NoLease == [bytes |-> 0, control |-> FALSE, owned |-> FALSE]
NoBacking == [users |-> 0, control |-> FALSE, bytes |-> 0]
NoUse == [backing |-> "none", control |-> FALSE, owned |-> FALSE]

VARIABLES total,     \* bytes of every live reservation
          ordinary,  \* bytes of the ordinary ones
          leases,    \* what each lease object holds
          backings,  \* the record of each retained array buffer
          uses       \* the lease objects retainBacking handed out

vars == <<total, ordinary, leases, backings, uses>>

Init ==
  /\ total = 0
  /\ ordinary = 0
  /\ leases = [l \in Leases |-> NoLease]
  /\ backings = [b \in Backings |-> NoBacking]
  /\ uses = [u \in Users |-> NoUse]

(* The admission test without the ordinary bound. *)
Fits_TotalOnly(bytes, control) ==
  bytes <= limit - total

(* The admission test of reserve(). *)
Fits(bytes, control) ==
  /\ bytes <= limit - total
  /\ control \/ bytes <= limit - controlReserve - ordinary

Charge(bytes, control) ==
  /\ total' = total + bytes
  /\ ordinary' = IF control THEN ordinary ELSE ordinary + bytes

Refund(bytes, control) ==
  /\ total' = total - bytes
  /\ ordinary' = IF control THEN ordinary ELSE ordinary - bytes

(* reserve() that succeeds; one that does not fit returns null and changes nothing. *)
Reserve(l, bytes, control) ==
  /\ ~leases[l].owned
  /\ Fits(bytes, control)
  /\ Charge(bytes, control)
  /\ leases' = [leases EXCEPT ![l] = [bytes |-> bytes, control |-> control, owned |-> TRUE]]
  /\ UNCHANGED <<backings, uses>>

(* release() without the `owned` flag: every call refunds the bytes again. *)
Release_EveryCall(l) ==
  /\ Refund(leases[l].bytes, leases[l].control)
  /\ leases' = [leases EXCEPT ![l].owned = FALSE]
  /\ UNCHANGED <<backings, uses>>

(* release() of a reservation; a second call finds owned false and returns. *)
Release(l) ==
  /\ IF leases[l].owned
       THEN /\ Refund(leases[l].bytes, leases[l].control)
            /\ leases' = [leases EXCEPT ![l].owned = FALSE]
       ELSE UNCHANGED <<total, ordinary, leases>>
  /\ UNCHANGED <<backings, uses>>

(* retainBacking(): the first user pays for the buffer and its record; a later *)
(* user shares it, but ordinary work cannot lean on a buffer control paid for. *)
RetainBacking(u, b, bytes, control) ==
  /\ ~uses[u].owned
  /\ \/ /\ backings[b].users = 0
        /\ Fits(bytes + RECORD, control)
        /\ Charge(bytes + RECORD, control)
        /\ backings' = [backings EXCEPT ![b] =
                          [users |-> 1, control |-> control, bytes |-> bytes + RECORD]]
     \/ /\ backings[b].users > 0
        /\ backings[b].control => control
        /\ backings' = [backings EXCEPT ![b].users = @ + 1]
        /\ UNCHANGED <<total, ordinary>>
  /\ uses' = [uses EXCEPT ![u] = [backing |-> b, control |-> control, owned |-> TRUE]]
  /\ UNCHANGED leases

(* release() of one user of a buffer; the last one frees the buffer's charge. *)
ReleaseBacking(u) ==
  LET b == uses[u].backing IN
  /\ uses[u].owned
  /\ uses' = [uses EXCEPT ![u].owned = FALSE]
  /\ IF backings[b].users = 1
       THEN /\ Refund(backings[b].bytes, backings[b].control)
            /\ backings' = [backings EXCEPT ![b] = NoBacking]
       ELSE /\ backings' = [backings EXCEPT ![b].users = @ - 1]
            /\ UNCHANGED <<total, ordinary>>
  /\ UNCHANGED leases

Next ==
  \/ \E l \in Leases, n \in Sizes, c \in BOOLEAN : Reserve(l, n, c)
  \/ \E l \in Leases : Release(l)
  \/ \E u \in Users, b \in Backings, n \in Sizes, c \in BOOLEAN : RetainBacking(u, b, n, c)
  \/ \E u \in Users : ReleaseBacking(u)

Spec == Init /\ [][Next]_vars
-----------------------------------------------------------------------------
LiveLeases == {l \in Leases : leases[l].owned}
UsersOf(b) == {u \in Users : uses[u].owned /\ uses[u].backing = b}

(* Type correctness of the account. *)
TypeOK ==
  /\ total \in Nat
  /\ ordinary \in Nat
  /\ leases \in [Leases -> [bytes : Nat, control : BOOLEAN, owned : BOOLEAN]]
  /\ backings \in [Backings -> [users : Nat, control : BOOLEAN, bytes : Nat]]
  /\ uses \in [Users -> [backing : Backings \cup {"none"}, control : BOOLEAN, owned : BOOLEAN]]

(* The two counters equal what the live leases and retained buffers really hold:   *)
(* nothing reserve() or retainBacking() charged is lost, and no release() refunds  *)
(* a lease twice or frees a buffer that still has a user.                          *)
AccountExact ==
  LET held(S) == MapThenSumSet(LAMBDA l : leases[l].bytes, S)
      kept(B) == MapThenSumSet(LAMBDA b : backings[b].bytes, B) IN
  /\ total = held(LiveLeases) + kept(Backings)
  /\ ordinary = held({l \in LiveLeases : ~leases[l].control})
                + kept({b \in Backings : ~backings[b].control})
  /\ \A b \in Backings : backings[b].users = Cardinality(UsersOf(b))

(* A control reservation that fits in what is left of the control reserve is never *)
(* refused, however much ordinary work the runtime has taken on: reserve() keeps   *)
(* ordinary work out of the reserve and the whole account within its limit.        *)
ControlReserveKept ==
  /\ total <= limit
  /\ \A n \in 0 .. (controlReserve - (total - ordinary)) : Fits(n, TRUE)

=============================================================================
