------------------------------- MODULE MCAccounts -------------------------------
(***************************************************************************)
(* Instances of Accounts for TLC.                                          *)
(***************************************************************************)
EXTENDS Accounts, TLC

CONSTANTS boss, clerk, fresh, stranger

Row(status, failed, secret) ==
  [status |-> status, failed |-> failed, locked |-> FALSE, secret |-> secret, mfa |-> secret # None]

\* The first administrator is no customer; the second one is, and has mistyped
\* the password four times.  One user has registered, one is not known yet.
Office ==
  [u \in User |->
     CASE u = boss -> [user |-> Row("active", 0, 0), roles |-> {"system_admin"}, customer |-> None]
       [] u = clerk -> [user |-> Row("active", 4, 0), roles |-> {"system_admin"},
                        customer |-> [NewCustomer EXCEPT !.status = "approved", !.limit = DefaultLimit]]
       [] u = fresh -> [user |-> NewUser, roles |-> {}, customer |-> NewCustomer]
       [] OTHER -> None]

BothAdmins == <<boss, clerk>>
Newcomer == <<fresh>>

Interchangeable == Permutations(Txn)
===============================================================================
