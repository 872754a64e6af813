----------------------------- MODULE MCSessions -----------------------------
(***************************************************************************)
(* Instances of Sessions for TLC: one token the service never made.        *)
(***************************************************************************)
EXTENDS Sessions, TLC

CONSTANTS u1, u2, c1, c2

MCForeign == {<<"foreign", 1>>}

CallSymmetry == Permutations(Calls)

=============================================================================
