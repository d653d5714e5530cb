------------------------------ MODULE Collection ------------------------------
(***************************************************************************)
(* What the payment of an invoice promises: the customer chooses how to    *)
(* divide it, each part is collected once and in order, and a division can *)
(* be withdrawn only while nothing of it has been collected.  Once every   *)
(* part is in, further money may come in for what was added since.         *)
(***************************************************************************)
EXTENDS Integers, Sequences

VARIABLES parts,      \* the amounts of the division chosen, in order
          collected,  \* how many of them have come in
          received    \* all the money that has come in

vars == <<parts, collected, received>>

Init == parts = <<>> /\ collected = 0 /\ received = 0

Choose(p) ==
  /\ parts = <<>>
  /\ parts' = p
  /\ UNCHANGED <<collected, received>>

Withdraw ==
  /\ collected = 0
  /\ parts' = <<>>
  /\ UNCHANGED <<collected, received>>

Collect ==
  /\ collected < Len(parts)
  /\ collected' = collected + 1
  /\ received' = received + parts[collected + 1]
  /\ UNCHANGED parts

CollectExtra(n) ==
  /\ parts # <<>> /\ collected = Len(parts)
  /\ received' = received + n
  /\ UNCHANGED <<parts, collected>>

Next == \/ parts' \in Seq(Nat \ {0}) /\ Choose(parts')
        \/ Withdraw
        \/ Collect
        \/ received' - received \in Nat /\ CollectExtra(received' - received)

Spec == Init /\ [][Next]_vars
===============================================================================
