----------------------- MODULE MCRuntimeRetainedBytes -----------------------
(* Two leases, two buffers and three buffer users against an account of six units. *)
EXTENDS RuntimeRetainedBytes, TLC

CONSTANTS l1, l2, b1, b2, u1, u2, u3

MCLeases == {l1, l2}
MCBackings == {b1, b2}
MCUsers == {u1, u2, u3}
Symmetry == Permutations(MCLeases) \cup Permutations(MCBackings) \cup Permutations(MCUsers)
=============================================================================
