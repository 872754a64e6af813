------------------------------ MODULE Delivery ------------------------------
(***************************************************************************)
(* What the audit trail promises its monitoring, with no buffer, timer or  *)
(* process in it: a report of every row sets out once, and arrives once or *)
(* is lost.  Reports arrive in any order, several at a time, and among     *)
(* what others send by the same way (Other), of which nothing is promised. *)
(***************************************************************************)
EXTENDS Naturals, Sequences, FiniteSets

VARIABLES
    sent,               \* reports that have set out, numbered from 1
    underWay,           \* those neither arrived nor lost
    arrived             \* what arrived, reports or not, in the order it did

Other == 0

deliveryVars == <<sent, underWay, arrived>>

DeliveryInit == sent = 0 /\ underWay = {} /\ arrived = <<>>

SetOut ==
    /\ sent' = sent + 1
    /\ underWay' = underWay \cup {sent'}
    /\ UNCHANGED arrived

\* The places in new after those of old.
Fresh(old, new) == (Len(old) + 1) .. Len(new)

Reports(seq, places) == {seq[n] : n \in places} \ {Other}

\* Each of the reports that arrive was under way, and none of them any more.
Arrive ==
    LET fresh == Fresh(arrived, arrived')
    IN  /\ SubSeq(arrived', 1, Len(arrived)) = arrived
        /\ Reports(arrived', fresh) \subseteq underWay
        /\ \A m, n \in fresh :
               arrived'[m] = arrived'[n] => m = n \/ arrived'[m] = Other
        /\ underWay' = underWay \ Reports(arrived', fresh)
        /\ UNCHANGED sent

Lose ==
    /\ underWay' \subseteq underWay
    /\ UNCHANGED <<sent, arrived>>

DeliveryNext == SetOut \/ Arrive \/ Lose

DeliverySpec == DeliveryInit /\ [][DeliveryNext]_deliveryVars

=============================================================================
