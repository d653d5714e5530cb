------------------------------- MODULE MCLedger -------------------------------
(***************************************************************************)
(* Instances of Ledger for TLC: one customer unless said otherwise.        *)
(***************************************************************************)
EXTENDS Ledger, TLC

CONSTANT Ana

OwnerOfAll == [o \in Order |-> Ana]
Prices == [o \in Order |-> 1]
Limits == [c \in Customer |-> 2]
TightLimits == [c \in Customer |-> 1]

EveryOperation == AllOperations

\* Two customers: one order is of the other customer.
OwnedApart ==
  LET one == CHOOSE o \in Order : TRUE
  IN  [o \in Order |-> IF o = one THEN CHOOSE c \in Customer : c # Ana ELSE Ana]

PurchasesAndClosings == {"checkout", "close_customer", "close_reference"}

Sessions == Permutations(Txn)

\* Sessions are interchangeable, and so are orders of one customer and price.
Interchangeable == Permutations(Txn) \cup Permutations(Order)
===============================================================================
