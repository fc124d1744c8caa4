--------------------- MODULE RuntimeRetainedBytesProofs ---------------------
(* The control reserve of RuntimeRetainedBytes holds for every set of leases, buffers *)
(* and sizes and for every limit.                                                     *)
EXTENDS RuntimeRetainedBytes, TLAPS

(* The inductive invariant: what a lease or a buffer record can refund is a natural *)
(* number, so releasing only lowers the counters, and both counters stay within the *)
(* bounds reserve() tests before it charges them.                                   *)
AccountBounds ==
  /\ total \in Int
  /\ ordinary \in Int
  /\ leases \in [Leases -> [bytes : Nat, control : BOOLEAN, owned : BOOLEAN]]
  /\ backings \in [Backings -> [users : Int, control : BOOLEAN, bytes : Nat]]
  /\ uses \in [Users -> [backing : Backings \cup {"none"}, control : BOOLEAN, owned : BOOLEAN]]
  /\ \A u \in Users : uses[u].owned => uses[u].backing \in Backings
  /\ total <= limit
  /\ ordinary <= limit - controlReserve

LEMMA BoundsInit == Init => AccountBounds
  BY LimitAssumption, ReserveAssumption
     DEF Init, AccountBounds, NoLease, NoBacking, NoUse

LEMMA BoundsStep == AccountBounds /\ [Next]_vars => AccountBounds'
<1> SUFFICES ASSUME AccountBounds, [Next]_vars
             PROVE  AccountBounds'
  OBVIOUS
<1> USE LimitAssumption, ReserveAssumption, SizeAssumption DEF AccountBounds
<1>1. ASSUME NEW l \in Leases, NEW n \in Sizes, NEW c \in BOOLEAN, Reserve(l, n, c)
      PROVE  AccountBounds'
  BY <1>1 DEF Reserve, Fits, Charge
<1>2. ASSUME NEW l \in Leases, Release(l)
      PROVE  AccountBounds'
  <2>1. leases[l].bytes \in Nat
    OBVIOUS
  <2>2. CASE leases[l].owned
    <3>1. leases' \in [Leases -> [bytes : Nat, control : BOOLEAN, owned : BOOLEAN]]
      <4>1. leases' = [leases EXCEPT ![l].owned = FALSE]
        BY <1>2, <2>2 DEF Release
      <4> QED
        BY <4>1
    <3>2. /\ total' \in Int /\ ordinary' \in Int
          /\ total' <= limit /\ ordinary' <= limit - controlReserve
      BY <1>2, <2>1, <2>2 DEF Release, Refund
    <3> QED
      BY <1>2, <3>1, <3>2 DEF Release
  <2>3. CASE ~leases[l].owned
    BY <1>2, <2>3 DEF Release
  <2> QED
    BY <2>2, <2>3
<1>3. ASSUME NEW u \in Users, NEW b \in Backings, NEW n \in Sizes, NEW c \in BOOLEAN,
             RetainBacking(u, b, n, c)
      PROVE  AccountBounds'
  <2>1. /\ uses' \in [Users -> [backing : Backings \cup {"none"}, control : BOOLEAN,
                               owned : BOOLEAN]]
        /\ \A v \in Users : uses'[v].owned => uses'[v].backing \in Backings
    BY <1>3 DEF RetainBacking
  <2>2. CASE backings[b].users = 0
    <3>1. backings' \in [Backings -> [users : Int, control : BOOLEAN, bytes : Nat]]
      BY <1>3, <2>2 DEF RetainBacking
    <3>2. /\ total' \in Int /\ ordinary' \in Int
          /\ total' <= limit /\ ordinary' <= limit - controlReserve
      BY <1>3, <2>2 DEF RetainBacking, Fits, Charge
    <3> QED
      BY <1>3, <2>1, <3>1, <3>2 DEF RetainBacking
  <2>3. CASE backings[b].users > 0
    <3>1. backings' \in [Backings -> [users : Int, control : BOOLEAN, bytes : Nat]]
      <4>1. backings' = [backings EXCEPT ![b].users = @ + 1]
        BY <1>3, <2>3 DEF RetainBacking
      <4> QED
        BY <4>1
    <3>2. UNCHANGED <<total, ordinary, leases>>
      BY <1>3, <2>3 DEF RetainBacking
    <3> QED
      BY <2>1, <3>1, <3>2
  <2> QED
    BY <1>3, <2>2, <2>3 DEF RetainBacking
<1>4. ASSUME NEW u \in Users, ReleaseBacking(u)
      PROVE  AccountBounds'
  <2> DEFINE b == uses[u].backing
  <2>1. b \in Backings /\ backings[b].bytes \in Nat
    BY <1>4 DEF ReleaseBacking
  <2>2. /\ uses' \in [Users -> [backing : Backings \cup {"none"}, control : BOOLEAN,
                               owned : BOOLEAN]]
        /\ \A v \in Users : uses'[v].owned => uses'[v].backing \in Backings
        /\ leases' = leases
    BY <1>4 DEF ReleaseBacking
  <2>3. CASE backings[b].users = 1
    <3>1. backings' \in [Backings -> [users : Int, control : BOOLEAN, bytes : Nat]]
      <4>1. backings' = [backings EXCEPT ![b] = NoBacking]
        BY <1>4, <2>3 DEF ReleaseBacking
      <4> QED
        BY <2>1, <4>1 DEF NoBacking
    <3>2. /\ total' \in Int /\ ordinary' \in Int
          /\ total' <= limit /\ ordinary' <= limit - controlReserve
      BY <1>4, <2>1, <2>3 DEF ReleaseBacking, Refund
    <3> QED
      BY <2>2, <3>1, <3>2
  <2>4. CASE backings[b].users # 1
    <3>1. backings' \in [Backings -> [users : Int, control : BOOLEAN, bytes : Nat]]
      BY <1>4, <2>1, <2>4 DEF ReleaseBacking
    <3>2. UNCHANGED <<total, ordinary>>
      BY <1>4, <2>4 DEF ReleaseBacking
    <3> QED
      BY <2>2, <3>1, <3>2
  <2> QED
    BY <2>3, <2>4
<1>5. CASE UNCHANGED vars
  BY <1>5 DEF vars
<1> QED
  BY <1>1, <1>2, <1>3, <1>4, <1>5 DEF Next

LEMMA BoundsKeepReserve == AccountBounds => ControlReserveKept
  BY LimitAssumption, ReserveAssumption DEF AccountBounds, ControlReserveKept, Fits

(* However reservations and releases interleave, control work that fits in the unused *)
(* part of the reserve is admitted, and the account never exceeds its limit (reserve  *)
(* and retainBacking of runtime-retained-bytes.ts).                                    *)
THEOREM ControlReserveTheorem == Spec => []ControlReserveKept
<1>1. Spec => []AccountBounds
  BY BoundsInit, BoundsStep, PTL DEF Spec
<1> QED
  BY <1>1, BoundsKeepReserve, PTL
=============================================================================
