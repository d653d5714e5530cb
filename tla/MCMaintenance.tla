----------------------------- MODULE MCMaintenance -----------------------------
(***************************************************************************)
(* Instances of Maintenance for TLC: the invoices of December.            *)
(***************************************************************************)
EXTENDS Maintenance, TLC

\* Two years without a February 29; day 0 is January 1 of the first.
FirstDay == <<0, 31, 59, 90, 120, 151, 181, 212, 243, 273, 304, 334>>

TwoYears == [m \in {1, 2} \X (1 .. 12) |-> 365 * (m[1] - 1) + FirstDay[m[2]]]

December == [p \in Period |-> <<1, 12>>]

\* December 31, January 1, the evening of January 10 (the due day), February 11.
LateInvoice == {2 * 364, 2 * 365, 2 * 374 + 1, 2 * 406}

Terms(enabled) ==
  [enabled |-> enabled, minInvoice |-> 2, minInstallment |-> 1, maximum |-> 2,
   interval |-> 1, afterDue |-> FALSE, adjust |-> TRUE]

OnAndOff == {Terms(TRUE), Terms(FALSE)}
Default == Terms(TRUE)

\* The due day itself.
Holiday == {<<374, FALSE>>}
===============================================================================
