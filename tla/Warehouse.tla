------------------------------- MODULE Warehouse -------------------------------
(***************************************************************************)
(* What the shop promises about its stock: an order takes the units of all *)
(* its lines at once, and only units that are there; it is placed once and *)
(* cancelled once at most, and then exactly its units come back.           *)
(***************************************************************************)
EXTENDS Integers

CONSTANTS Item, Key

VARIABLES
  units,  \* [Item -> units in stock]
  state,  \* [Key -> what has become of the order]
  lines   \* [Key -> [Item -> units ordered]]

vars == <<units, state, lines>>

Init ==
  /\ units \in [Item -> Nat]
  /\ state = [k \in Key |-> "absent"]
  /\ lines = [k \in Key |-> [i \in Item |-> 0]]

Place(k, wanted) ==
  /\ state[k] = "absent"
  /\ wanted \in [Item -> Nat] /\ \E i \in Item : wanted[i] > 0
  /\ \A i \in Item : wanted[i] <= units[i]
  /\ units' = [i \in Item |-> units[i] - wanted[i]]
  /\ state' = [state EXCEPT ![k] = "placed"]
  /\ lines' = [lines EXCEPT ![k] = wanted]

Cancel(k) ==
  /\ state[k] = "placed"
  /\ units' = [i \in Item |-> units[i] + lines[k][i]]
  /\ state' = [state EXCEPT ![k] = "cancelled"]
  /\ UNCHANGED lines

\* An entry, a loss or a count, of one item.
Move(i, n) ==
  /\ n \in Int /\ units[i] + n >= 0
  /\ units' = [units EXCEPT ![i] = @ + n]
  /\ UNCHANGED <<state, lines>>

Next ==
  \/ \E k \in Key : Place(k, lines'[k]) \/ Cancel(k)
  \/ \E i \in Item : Move(i, units'[i] - units[i])

Spec == Init /\ [][Next]_vars
===============================================================================
