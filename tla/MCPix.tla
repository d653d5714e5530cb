--------------------------------- MODULE MCPix ---------------------------------
(***************************************************************************)
(* Instances of Pix for TLC.                                               *)
(***************************************************************************)
EXTENDS Pix, TLC

EveryOperation == AllOperations

PlanAndPay == {"select", "create", "webhook", "overdue"}

CreditTwoDebitOne == {-2, 1}

Interchangeable ==
  Permutations(Txn) \cup Permutations(Charge) \cup Permutations(Event)
===============================================================================
