------------------------------ MODULE MCReset ------------------------------
(***************************************************************************)
(* Instances of Reset for TLC.                                             *)
(***************************************************************************)
EXTENDS Reset, TLC

CONSTANTS u1, u2, s1, s2

\* Requests in progress are interchangeable, and so are users: no operator
\* tells them apart.  Used for safety only.
SlotSymmetry == Permutations(Slots) \cup Permutations(Accounts)

=============================================================================
