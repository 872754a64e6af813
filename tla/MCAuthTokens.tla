---------------------------- MODULE MCAuthTokens ----------------------------
(***************************************************************************)
(* Instances of AuthTokens for TLC: the JWTs are foreign to the table.     *)
(***************************************************************************)
EXTENDS AuthTokens, TLC

CONSTANTS u1, u2, c1, c2

MCForeign == {Jwt(i) : i \in 1 .. MaxSessions}

CallSymmetry == Permutations(Calls)

=============================================================================
