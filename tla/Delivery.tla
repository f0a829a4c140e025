------------------------------ MODULE Delivery ------------------------------
(***************************************************************************)
(* What a pair of cutting or of ciphering stages promises: the messages    *)
(* put in at one end come out at the other, whole and in order, some time  *)
(* later.  Several may come out at once, for the stages do not keep them   *)
(* apart.                                                                  *)
(***************************************************************************)
EXTENDS Naturals, Sequences

CONSTANT Size       \* sizes of messages

VARIABLES
    sent,       \* the sizes of the messages put in, in order
    got         \* how many of them have come out

Init == sent = <<>> /\ got = 0

Send == \E n \in Size : sent' = Append(sent, n) /\ UNCHANGED got

Deliver == got' \in (got + 1)..Len(sent) /\ UNCHANGED sent

Spec == Init /\ [][Send \/ Deliver]_<<sent, got>>

=============================================================================
