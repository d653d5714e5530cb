-------------------------------- MODULE Delivery --------------------------------
(***************************************************************************)
(* What the outbox and the job queue promise: an item is handled by one    *)
(* worker at a time until it is done or given up, and is then left alone;  *)
(* it is lost only to the worker that holds it.                            *)
(***************************************************************************)
EXTENDS Naturals

CONSTANTS Item, Worker, None

VARIABLES
  state,   \* [Item -> what has become of it]
  holder   \* [Item -> the worker that handles it, or None]

State == {"absent", "queued", "held", "done", "given up", "lost"}

vars == <<state, holder>>

Init == state = [i \in Item |-> "absent"] /\ holder = [i \in Item |-> None]

Put(i) ==
  /\ state[i] = "absent"
  /\ state' = [state EXCEPT ![i] = "queued"]
  /\ UNCHANGED holder

\* A worker takes some of the queued items at once.
Take(w, taken) ==
  /\ \A i \in taken : state[i] = "queued" /\ holder[i] = None
  /\ state' = [i \in Item |-> IF i \in taken THEN "held" ELSE state[i]]
  /\ holder' = [i \in Item |-> IF i \in taken THEN w ELSE holder[i]]

\* Done, given up, back in the queue, or lost by an error.
Release(w, i, outcome) ==
  /\ state[i] = "held" /\ holder[i] = w
  /\ outcome \in {"done", "given up", "queued", "lost"}
  /\ state' = [state EXCEPT ![i] = outcome]
  /\ holder' = [holder EXCEPT ![i] = None]

\* The worker stops: what it held is lost.
Stop(w) ==
  /\ state' = [i \in Item |-> IF holder[i] = w THEN "lost" ELSE state[i]]
  /\ holder' = [i \in Item |-> IF holder[i] = w THEN None ELSE holder[i]]

Next ==
  \/ \E i \in Item : Put(i)
  \/ \E w \in Worker : \/ \E taken \in SUBSET Item : Take(w, taken)
                       \/ \E i \in Item, outcome \in State : Release(w, i, outcome)
                       \/ Stop(w)

Spec == Init /\ [][Next]_vars
===============================================================================
