------------------------------- MODULE MCIam -------------------------------
(***************************************************************************)
(* Instances of Iam for TLC.                                               *)
(***************************************************************************)
EXTENDS Iam, TLC

CONSTANTS u1, u2, s1, s2

SlotSymmetry == {p @@ q : p \in Permutations(Slots), q \in Permutations(Accounts)}

\* What the race runs look at.  The variables left out are never read by a
\* guard or by what another variable becomes, nor by the properties of these
\* runs, so states that differ in them only have the same futures.
RaceView == <<now, users, slotVars, issued, wrongs, started,
              askVars, secrets, asks, mfaWrongs, mfaStreak, granted>>

\* The same for the runs of one slot, whose properties ask of an exchange only
\* which token it found and for whom.
SerialView == <<now, users, slotVars, issued, started, method, secrets, asks,
                streak, mfaStreak,
                [i \in 1 .. Len(granted) |-> <<granted[i].token, granted[i].user>>]>>

=============================================================================
