------------------------------ MODULE OutboxProofs ------------------------------
(***************************************************************************)
(* Proofs about Outbox, for any number of workers, events and jobs, any    *)
(* size of the batches, any limit on the attempts and any number of faults.*)
(***************************************************************************)
EXTENDS Outbox, TLAPS

OutboxInv == TypeOK /\ ClaimedByOne

WorkerRow == [pc : {"down", "select", "claim", "handle", "settle"},
              queue : {Event, Job}, batch : SUBSET Item,
              item : Item \cup {None}, ok : BOOLEAN]

LEMMA InitInv == Init => OutboxInv
<1> SUFFICES ASSUME Init PROVE OutboxInv
  OBVIOUS
<1>1. Starting \in WorkerRow
  BY DEF Starting, WorkerRow
<1>2. TypeOK
  BY <1>1, OutboxAssumption DEF Init, TypeOK, WorkerRow, Starting
<1>3. ClaimedByOne
  BY DEF Init, ClaimedByOne, Starting
<1> QED
  BY <1>2, <1>3 DEF OutboxInv

LEMMA InsertInv ==
  ASSUME OutboxInv, NEW i \in Item, Insert(i)
  PROVE  OutboxInv'
<1>1. [status |-> "pending", attempts |-> 0] \in Row
  BY DEF Row
<1>2. TypeOK'
  BY <1>1 DEF OutboxInv, TypeOK, Insert
<1>3. ClaimedByOne'
  BY DEF OutboxInv, TypeOK, ClaimedByOne, Insert
<1> QED
  BY <1>2, <1>3 DEF OutboxInv

LEMMA SelectInv ==
  ASSUME OutboxInv, NEW w \in WorkerId, NEW found \in SUBSET worker[w].queue, Select(w, found)
  PROVE  OutboxInv'
<1> PICK r : r = worker[w]
  OBVIOUS
<1> DEFINE s == IF found = {} THEN [r EXCEPT !.queue = Other(@)] ELSE [r EXCEPT !.pc = "claim"]
<1>1. /\ r \in WorkerRow /\ worker \in [WorkerId -> WorkerRow]
      /\ r.pc = "select" /\ locks[w] = {} /\ r.batch = {}
  BY DEF OutboxInv, TypeOK, WorkerRow, Select
<1>2. found \subseteq Item
  BY <1>1 DEF WorkerRow, Item
<1>3. /\ s \in WorkerRow /\ s.batch = {}
      /\ s.pc = IF found = {} THEN "select" ELSE "claim"
  <2>1. Other(r.queue) \in {Event, Job}
    BY DEF Other
  <2> QED
    BY <1>1, <2>1 DEF WorkerRow
<1>4. /\ worker' = [worker EXCEPT ![w] = s]
      /\ locks' = [locks EXCEPT ![w] = found] /\ rows' = rows /\ faults' = faults
  BY DEF Select, Other
<1> HIDE DEF s
<1>5. TypeOK'
  BY <1>1, <1>2, <1>3, <1>4 DEF OutboxInv, TypeOK, WorkerRow
<1>6. \A i \in found : /\ rows[i] # None /\ rows[i].status = "pending"
                       /\ \A v \in WorkerId : i \notin locks[v]
  BY DEF Select, Pending
<1>7. ClaimedByOne'
  BY <1>1, <1>3, <1>4, <1>6 DEF OutboxInv, ClaimedByOne, TypeOK
<1> QED
  BY <1>5, <1>7 DEF OutboxInv

LEMMA ClaimInv ==
  ASSUME OutboxInv, NEW w \in WorkerId, Claim(w)
  PROVE  OutboxInv'
<1> PICK r : r = worker[w]
  OBVIOUS
<1> DEFINE s == [r EXCEPT !.pc = "handle", !.batch = locks[w]]
<1>1. /\ r \in WorkerRow /\ worker \in [WorkerId -> WorkerRow]
      /\ r.pc = "claim" /\ locks[w] \subseteq Item /\ r.batch = {}
  BY DEF OutboxInv, TypeOK, WorkerRow, Claim
<1>2. s \in WorkerRow /\ s.pc = "handle" /\ s.batch = locks[w]
  BY <1>1 DEF WorkerRow
<1>3. /\ worker' = [worker EXCEPT ![w] = s]
      /\ locks' = [locks EXCEPT ![w] = {}] /\ faults' = faults
      /\ rows' = [i \in Item |-> IF i \in locks[w] THEN Claimed(rows[i]) ELSE rows[i]]
  BY DEF Claim
<1> HIDE DEF s
<1>4. \A i \in locks[w] : rows[i] \in Row /\ rows[i].status = "pending"
  BY <1>1 DEF OutboxInv, ClaimedByOne, TypeOK
<1>5. ASSUME NEW row \in Row
      PROVE  Claimed(row) \in Row /\ Claimed(row).status = "taken"
  <2>1. row.attempts \in Nat /\ row.attempts + 1 \in Nat
    BY DEF Row
  <2> QED
    BY <2>1 DEF Row, Claimed
<1>6. rows' \in [Item -> Row \cup {None}]
  BY <1>3, <1>4, <1>5 DEF OutboxInv, TypeOK
<1>7. TypeOK'
  BY <1>1, <1>2, <1>3, <1>6 DEF OutboxInv, TypeOK, WorkerRow
<1>8. \A i \in locks[w] : rows'[i] # None /\ rows'[i].status = "taken"
  BY <1>1, <1>3, <1>4, <1>5, NoneRow
<1>9. ClaimedByOne'
  <2> SUFFICES ASSUME NEW v \in WorkerId
               PROVE  /\ \A i \in locks'[v] :
                           /\ rows'[i] # None /\ rows'[i].status = "pending"
                           /\ \A u \in WorkerId \ {v} : i \notin locks'[u]
                      /\ \A i \in worker'[v].batch :
                           /\ rows'[i] # None /\ rows'[i].status = "taken"
                           /\ \A u \in WorkerId \ {v} : i \notin worker'[u].batch
    BY DEF ClaimedByOne
  <2>1. CASE v = w
    <3>1. locks'[v] = {} /\ worker'[v].batch = locks[w]
      BY <1>1, <1>2, <1>3, <2>1 DEF OutboxInv, TypeOK
    <3>2. \A i \in locks[w], u \in WorkerId \ {w} : i \notin worker'[u].batch
      BY <1>1, <1>3, <1>4 DEF OutboxInv, ClaimedByOne
    <3> QED
      BY <1>8, <2>1, <3>1, <3>2
  <2>2. CASE v # w
    <3>1. locks'[v] = locks[v] /\ worker'[v] = worker[v]
      BY <1>1, <1>3, <2>2 DEF OutboxInv, TypeOK
    <3>2. \A i \in locks[v] \cup worker[v].batch : i \in Item /\ i \notin locks[w] /\ rows'[i] = rows[i]
      BY <1>1, <1>3, <1>4, <2>2 DEF OutboxInv, ClaimedByOne, TypeOK
    <3>3. \A u \in WorkerId : locks'[u] \subseteq locks[u]
      BY <1>3 DEF OutboxInv, TypeOK
    <3>4. \A u \in WorkerId \ {v} : worker'[u].batch \subseteq worker[u].batch \cup locks[w]
      BY <1>1, <1>2, <1>3 DEF OutboxInv, TypeOK
    <3> QED
      BY <3>1, <3>2, <3>3, <3>4 DEF OutboxInv, ClaimedByOne
  <2> QED
    BY <2>1, <2>2
<1> QED
  BY <1>7, <1>9 DEF OutboxInv

\* What is left of a batch stays claimed by its worker alone, whatever the row of
\* an item that leaves the batch has become.
LEMMA LeaveBatch ==
  ASSUME OutboxInv, NEW w \in WorkerId, NEW s \in WorkerRow, NEW i \in worker[w].batch,
         s.pc = "handle", s.batch = worker[w].batch \ {i},
         worker' = [worker EXCEPT ![w] = s], worker[w].pc = "settle",
         locks' = locks, faults' \in 0 .. MaxFaults,
         NEW row \in Row, rows' = [rows EXCEPT ![i] = row]
  PROVE  OutboxInv'
<1>1. /\ worker \in [WorkerId -> WorkerRow] /\ locks[w] = {} /\ i \in Item
      /\ rows[i].status = "taken"
  BY DEF OutboxInv, TypeOK, WorkerRow, ClaimedByOne
<1>2. TypeOK'
  BY <1>1 DEF OutboxInv, TypeOK, WorkerRow
<1>3. \A v \in WorkerId : /\ worker'[v].batch \subseteq worker[v].batch /\ i \notin worker'[v].batch
                          /\ i \notin locks[v]
  BY <1>1 DEF OutboxInv, TypeOK, ClaimedByOne
<1>4. \A j \in Item \ {i} : rows'[j] = rows[j]
  BY DEF OutboxInv, TypeOK
<1>5. ClaimedByOne'
  BY <1>1, <1>3, <1>4 DEF OutboxInv, ClaimedByOne, TypeOK
<1> QED
  BY <1>2, <1>5 DEF OutboxInv

\* The row and the process after Settle.
LEMMA SettledRows ==
  ASSUME OutboxInv, NEW w \in WorkerId, worker[w].pc = "settle"
  PROVE  /\ worker[w].item \in worker[w].batch
         /\ worker[w].item \in Item
         /\ rows[worker[w].item] \in Row
         /\ rows[worker[w].item].status = "taken"
         /\ \A ok \in BOOLEAN : Settled(worker[w].item, ok) \in Row
         /\ Afterwards(w) \in WorkerRow
         /\ Afterwards(w).pc = "handle"
         /\ Afterwards(w).batch = worker[w].batch \ {worker[w].item}
<1>1. worker[w] \in WorkerRow /\ worker[w].item \in worker[w].batch /\ worker[w].item \in Item
  BY DEF OutboxInv, TypeOK, WorkerRow
<1>2. rows[worker[w].item] \in Row /\ rows[worker[w].item].status = "taken"
  BY <1>1 DEF OutboxInv, TypeOK, ClaimedByOne
<1>3. \A ok \in BOOLEAN : Settled(worker[w].item, ok) \in Row
  BY <1>2 DEF Settled, Row
<1>4. /\ Afterwards(w) \in WorkerRow /\ Afterwards(w).pc = "handle"
      /\ Afterwards(w).batch = worker[w].batch \ {worker[w].item}
  BY <1>1 DEF Afterwards, WorkerRow
<1> QED
  BY <1>1, <1>2, <1>3, <1>4

LEMMA SettleInv ==
  ASSUME OutboxInv, NEW w \in WorkerId, Settle(w)
  PROVE  OutboxInv'
<1> PICK i : i = worker[w].item
  OBVIOUS
<1>1. /\ worker[w].pc = "settle" /\ worker' = [worker EXCEPT ![w] = Afterwards(w)]
      /\ rows' = [rows EXCEPT ![i] = Settled(i, worker[w].ok)]
      /\ locks' = locks /\ faults' = faults
  BY DEF Settle
<1>2. worker[w].ok \in BOOLEAN /\ faults' \in 0 .. MaxFaults
  BY <1>1 DEF OutboxInv, TypeOK
<1> QED
  BY <1>1, <1>2, SettledRows, LeaveBatch

LEMMA SettleFailsInv ==
  ASSUME OutboxInv, NEW w \in WorkerId, SettleFails(w)
  PROVE  OutboxInv'
<1> PICK i : i = worker[w].item
  OBVIOUS
<1> PICK s : s = Afterwards(w)
  OBVIOUS
<1> PICK row : row = rows[i]
  OBVIOUS
<1>1. /\ worker[w].pc = "settle" /\ worker' = [worker EXCEPT ![w] = s]
      /\ locks' = locks /\ faults' \in 0 .. MaxFaults
  BY OutboxAssumption DEF SettleFails, OutboxInv, TypeOK
<1>2. rows' = [rows EXCEPT ![i] = row]
  BY <1>1, SettledRows DEF SettleFails, OutboxInv, TypeOK
<1>3. row \in Row /\ i \in worker[w].batch
  BY <1>1, SettledRows
<1>4. s \in WorkerRow /\ s.pc = "handle" /\ s.batch = worker[w].batch \ {i}
  BY <1>1, SettledRows
<1> QED
  BY <1>1, <1>2, <1>3, <1>4, LeaveBatch

\* A step of a process that holds no more afterwards than before.
LEMMA HoldsLess ==
  ASSUME OutboxInv, NEW w \in WorkerId, NEW s \in WorkerRow, NEW ls \in SUBSET locks[w],
         worker' = [worker EXCEPT ![w] = s], locks' = [locks EXCEPT ![w] = ls],
         s.batch \subseteq worker[w].batch, rows' = rows, faults' \in 0 .. MaxFaults,
         s.pc # "claim" => ls = {},
         s.pc \notin {"handle", "settle"} => s.batch = {},
         s.pc = "settle" => s.item \in s.batch
  PROVE  OutboxInv'
<1>1. worker \in [WorkerId -> WorkerRow] /\ locks \in [WorkerId -> SUBSET Item]
  BY DEF OutboxInv, TypeOK, WorkerRow
<1>2. TypeOK'
  BY <1>1 DEF OutboxInv, TypeOK, WorkerRow
<1>3. \A v \in WorkerId : locks'[v] \subseteq locks[v] /\ worker'[v].batch \subseteq worker[v].batch
  BY <1>1
<1>4. ClaimedByOne'
  BY <1>3 DEF OutboxInv, ClaimedByOne
<1> QED
  BY <1>2, <1>4 DEF OutboxInv

LEMMA OtherStepsInv ==
  ASSUME OutboxInv, NEW w \in WorkerId,
         \/ \E i \in worker[w].batch, ok \in BOOLEAN : Handle(w, i, ok)
         \/ BatchDone(w) \/ ClaimFails(w) \/ Crash(w) \/ Restart(w)
  PROVE  OutboxInv'
<1> PICK r : r = worker[w]
  OBVIOUS
<1>1. /\ r \in WorkerRow /\ worker \in [WorkerId -> WorkerRow]
      /\ locks \in [WorkerId -> SUBSET Item] /\ locks = [locks EXCEPT ![w] = locks[w]]
      /\ r.pc # "claim" => locks[w] = {}
      /\ r.pc \notin {"handle", "settle"} => r.batch = {}
      /\ faults \in 0 .. MaxFaults
  BY DEF OutboxInv, TypeOK, WorkerRow
<1>2. Other(r.queue) \in {Event, Job}
  BY DEF Other
<1>3. ASSUME NEW i \in r.batch, NEW ok \in BOOLEAN, Handle(w, i, ok)
      PROVE  OutboxInv'
  <2> DEFINE s == [r EXCEPT !.pc = "settle", !.item = i, !.ok = ok]
  <2>1. s \in WorkerRow /\ s.pc = "settle" /\ s.item = i /\ s.batch = r.batch
    BY <1>1 DEF WorkerRow
  <2>2. /\ worker' = [worker EXCEPT ![w] = s] /\ rows' = rows /\ faults' = faults
        /\ locks' = [locks EXCEPT ![w] = locks[w]] /\ locks[w] = {}
    BY <1>1, <1>3 DEF Handle
  <2> HIDE DEF s
  <2> QED
    BY <1>1, <2>1, <2>2, HoldsLess
<1>4. ASSUME BatchDone(w) PROVE OutboxInv'
  <2> DEFINE s == [r EXCEPT !.pc = "select", !.queue = Other(@)]
  <2>1. s \in WorkerRow /\ s.pc = "select" /\ s.batch = r.batch
    BY <1>1, <1>2 DEF WorkerRow
  <2>2. /\ worker' = [worker EXCEPT ![w] = s] /\ rows' = rows /\ faults' = faults
        /\ locks' = [locks EXCEPT ![w] = locks[w]] /\ locks[w] = {} /\ r.batch = {}
    BY <1>1, <1>4 DEF BatchDone, Other
  <2> HIDE DEF s
  <2> QED
    BY <1>1, <2>1, <2>2, HoldsLess
<1>5. ASSUME ClaimFails(w) PROVE OutboxInv'
  <2> DEFINE s == [r EXCEPT !.pc = "select", !.queue = Other(@)]
  <2>1. s \in WorkerRow /\ s.pc = "select" /\ s.batch = r.batch
    BY <1>1, <1>2 DEF WorkerRow
  <2>2. /\ worker' = [worker EXCEPT ![w] = s] /\ rows' = rows /\ faults' \in 0 .. MaxFaults
        /\ locks' = [locks EXCEPT ![w] = {}] /\ r.batch = {}
    BY <1>1, <1>5, OutboxAssumption DEF ClaimFails, Other
  <2> HIDE DEF s
  <2> QED
    BY <1>1, <2>1, <2>2, HoldsLess
<1>6. ASSUME Crash(w) PROVE OutboxInv'
  <2> DEFINE s == [Starting EXCEPT !.pc = "down"]
  <2>1. s \in WorkerRow /\ s.pc = "down" /\ s.batch = {}
    BY DEF WorkerRow, Starting
  <2>2. /\ worker' = [worker EXCEPT ![w] = s] /\ rows' = rows /\ faults' \in 0 .. MaxFaults
        /\ locks' = [locks EXCEPT ![w] = {}]
    BY <1>1, <1>6, OutboxAssumption DEF Crash
  <2> HIDE DEF s
  <2> QED
    BY <1>1, <2>1, <2>2, HoldsLess
<1>7. ASSUME Restart(w) PROVE OutboxInv'
  <2>1. Starting \in WorkerRow /\ Starting.pc = "select" /\ Starting.batch = {}
    BY DEF WorkerRow, Starting
  <2>2. /\ worker' = [worker EXCEPT ![w] = Starting] /\ rows' = rows /\ faults' = faults
        /\ locks' = [locks EXCEPT ![w] = locks[w]] /\ locks[w] = {}
    BY <1>1, <1>7 DEF Restart
  <2> QED
    BY <1>1, <2>1, <2>2, HoldsLess
<1> QED
  BY <1>3, <1>4, <1>5, <1>6, <1>7

LEMMA StepInv == OutboxInv /\ [Next]_vars => OutboxInv'
<1> SUFFICES ASSUME OutboxInv, [Next]_vars PROVE OutboxInv'
  OBVIOUS
<1>1. ASSUME UNCHANGED vars PROVE OutboxInv'
  BY <1>1 DEF vars, OutboxInv, TypeOK, ClaimedByOne
<1>2. ASSUME NEW w \in WorkerId, Works(w) PROVE OutboxInv'
  BY <1>2, SelectInv, ClaimInv, SettleInv, OtherStepsInv DEF Works
<1> QED
  BY <1>1, <1>2, InsertInv, SettleFailsInv, OtherStepsInv DEF Next

THEOREM OutboxInvariant == Spec => []OutboxInv
BY InitInv, StepInv, PTL DEF Spec

\* What a worker holds is what its position in the loop allows, whatever fails.
THEOREM TypeCorrect == Spec => []TypeOK
<1>1. OutboxInv => TypeOK
  BY DEF OutboxInv
<1> QED
  BY <1>1, OutboxInvariant, PTL

\* An item is claimed or handled by one worker at a time (AcquireOutbox, Acquire).
THEOREM AlwaysClaimedByOne == Spec => []ClaimedByOne
<1>1. OutboxInv => ClaimedByOne
  BY DEF OutboxInv
<1> QED
  BY <1>1, OutboxInvariant, PTL

-------------------------------------------------------------------------------
(* The two queues implement Delivery.                                        *)

\* Where the rows and the batches say that an item is.
LEMMA Places ==
  ASSUME OutboxInv, NEW i \in Item
  PROVE  /\ \A w \in WorkerId : i \in worker[w].batch
              => StateOf(i) = "held" /\ HolderOf(i) = w
         /\ (\A w \in WorkerId : i \notin worker[w].batch) => HolderOf(i) = None
         /\ rows[i] = None => StateOf(i) = "absent" /\ HolderOf(i) = None
         /\ rows[i] # None /\ rows[i].status = "pending"
              => StateOf(i) = "queued" /\ HolderOf(i) = None
<1>1. ASSUME NEW w \in WorkerId, i \in worker[w].batch
      PROVE  StateOf(i) = "held" /\ HolderOf(i) = w
  <2>1. HeldBy(i) = {w} /\ rows[i] # None /\ rows[i].status = "taken"
    BY <1>1 DEF OutboxInv, ClaimedByOne, HeldBy
  <2> QED
    BY <2>1 DEF StateOf, HolderOf
<1>2. ASSUME \A w \in WorkerId : i \notin worker[w].batch PROVE HolderOf(i) = None
  BY <1>2 DEF HolderOf, HeldBy
<1>3. rows[i] = None \/ rows[i].status = "pending" => \A w \in WorkerId : i \notin worker[w].batch
  BY DEF OutboxInv, ClaimedByOne
<1> QED
  BY <1>1, <1>2, <1>3 DEF StateOf

\* An item whose row and whose holders stay is where it was.
LEMMA PlacesKept ==
  ASSUME NEW i \in Item, rows'[i] = rows[i],
         \A w \in WorkerId : i \in worker'[w].batch <=> i \in worker[w].batch
  PROVE  StateOf(i)' = StateOf(i) /\ HolderOf(i)' = HolderOf(i)
<1>1. HeldBy(i)' = HeldBy(i)
  BY DEF HeldBy
<1> QED
  BY <1>1 DEF StateOf, HolderOf

LEMMA StutterStep ==
  ASSUME rows' = rows, \A w \in WorkerId : worker'[w].batch = worker[w].batch
  PROVE  UNCHANGED Promise!vars
<1>1. \A i \in Item : StateOf(i)' = StateOf(i) /\ HolderOf(i)' = HolderOf(i)
  BY PlacesKept
<1> QED
  BY <1>1 DEF Promise!vars

LEMMA InsertPuts ==
  ASSUME OutboxInv, OutboxInv', NEW i \in Item, Insert(i)
  PROVE  Promise!Put(i)
<1>1. /\ rows[i] = None /\ worker' = worker
      /\ rows' = [rows EXCEPT ![i] = [status |-> "pending", attempts |-> 0]]
  BY DEF Insert
<1>2. \A j \in Item \ {i} : StateOf(j)' = StateOf(j) /\ HolderOf(j)' = HolderOf(j)
  BY <1>1, PlacesKept DEF OutboxInv, TypeOK
<1>3. StateOf(i) = "absent" /\ HolderOf(i) = None
  BY <1>1, Places
<1>4. rows'[i] # None /\ rows'[i].status = "pending"
  BY <1>1, NoneRow DEF OutboxInv, TypeOK, Row
<1>5. StateOf(i)' = "queued"
  BY <1>4 DEF StateOf
<1>6. HolderOf(i)' = None
  BY <1>1, <1>3 DEF HolderOf, HeldBy
<1> QED
  BY <1>2, <1>3, <1>5, <1>6 DEF Promise!Put

LEMMA ClaimTakes ==
  ASSUME OutboxInv, OutboxInv', NEW w \in WorkerId, Claim(w)
  PROVE  Promise!Take(w, locks[w]) /\ locks[w] \in SUBSET Item
<1>1. /\ locks[w] \subseteq Item
      /\ worker' = [worker EXCEPT ![w] = [worker[w] EXCEPT !.pc = "handle", !.batch = locks[w]]]
      /\ rows' = [i \in Item |-> IF i \in locks[w] THEN Claimed(rows[i]) ELSE rows[i]]
      /\ worker[w] \in WorkerRow /\ worker[w].batch = {}
  BY DEF Claim, OutboxInv, TypeOK, WorkerRow
<1>2. worker'[w].batch = locks[w]
  BY <1>1 DEF OutboxInv, TypeOK, WorkerRow
<1>3. \A v \in WorkerId \ {w} : worker'[v] = worker[v]
  BY <1>1 DEF OutboxInv, TypeOK
<1>4. ASSUME NEW i \in Item, i \in locks[w]
      PROVE  /\ StateOf(i) = "queued" /\ HolderOf(i) = None
             /\ StateOf(i)' = "held" /\ HolderOf(i)' = w
  <2>1. rows[i] # None /\ rows[i].status = "pending"
    BY <1>4 DEF OutboxInv, ClaimedByOne
  <2>2. StateOf(i) = "queued" /\ HolderOf(i) = None
    BY <2>1, Places
  <2>3. HeldBy(i)' = {w} /\ rows'[i] # None /\ rows'[i].status = "taken"
    BY <1>2, <1>4 DEF OutboxInv, ClaimedByOne, HeldBy
  <2>4. StateOf(i)' = "held" /\ HolderOf(i)' = w
    BY <2>3 DEF StateOf, HolderOf
  <2> QED
    BY <2>2, <2>4
<1>5. ASSUME NEW i \in Item, i \notin locks[w]
      PROVE  StateOf(i)' = StateOf(i) /\ HolderOf(i)' = HolderOf(i)
  BY <1>1, <1>2, <1>3, <1>5, PlacesKept
<1> QED
  BY <1>1, <1>4, <1>5 DEF Promise!Take

\* The item at hand leaves the batch of its worker, with this row.
LEMMA LeavingReleases ==
  ASSUME OutboxInv, NEW w \in WorkerId, worker[w].pc = "settle",
         worker' = [worker EXCEPT ![w] = Afterwards(w)],
         NEW row \in Row, rows' = [rows EXCEPT ![worker[w].item] = row]
  PROVE  \E outcome \in {"done", "given up", "queued", "lost"} :
           Promise!Release(w, worker[w].item, outcome)
<1> PICK i : i = worker[w].item
  OBVIOUS
<1>1. i \in worker[w].batch /\ i \in Item /\ Afterwards(w).batch = worker[w].batch \ {i}
  BY SettledRows
<1>2. StateOf(i) = "held" /\ HolderOf(i) = w
  BY <1>1, Places
<1>3. /\ worker'[w].batch = worker[w].batch \ {i}
      /\ \A v \in WorkerId \ {w} : worker'[v] = worker[v]
  BY <1>1 DEF OutboxInv, TypeOK
<1>4. HeldBy(i)' = {}
  BY <1>1, <1>3 DEF OutboxInv, ClaimedByOne, HeldBy
<1>5. rows'[i] = row /\ row # None /\ row.status \in {"pending", "taken", "done", "failed"}
  BY <1>1, NoneRow DEF OutboxInv, TypeOK, Row
<1>6. HolderOf(i)' = None
  BY <1>4 DEF HolderOf
<1>7. StateOf(i)' \in {"done", "given up", "queued", "lost"}
  BY <1>4, <1>5 DEF StateOf
<1>8. ASSUME NEW j \in Item, j # i
      PROVE  StateOf(j)' = StateOf(j) /\ HolderOf(j)' = HolderOf(j)
  <2>1. rows'[j] = rows[j]
    BY <1>8 DEF OutboxInv, TypeOK
  <2>2. \A v \in WorkerId : j \in worker'[v].batch <=> j \in worker[v].batch
    BY <1>3, <1>8
  <2> QED
    BY <2>1, <2>2, PlacesKept
<1>9. PICK outcome : outcome = StateOf(i)'
  OBVIOUS
<1>10. Promise!Release(w, i, outcome)
  BY <1>1, <1>2, <1>6, <1>7, <1>8, <1>9 DEF Promise!Release
<1> QED
  BY <1>7, <1>9, <1>10

LEMMA CrashStops ==
  ASSUME OutboxInv, OutboxInv', NEW w \in WorkerId, Crash(w)
  PROVE  Promise!Stop(w)
<1>1. /\ rows' = rows /\ worker'[w].batch = {}
      /\ \A v \in WorkerId \ {w} : worker'[v] = worker[v]
  BY DEF Crash, Starting, OutboxInv, TypeOK
<1>2. ASSUME NEW i \in Item, i \in worker[w].batch
      PROVE  HolderOf(i) = w /\ StateOf(i)' = "lost" /\ HolderOf(i)' = None
  <2>1. /\ rows'[i] # None /\ rows'[i].status = "taken"
        /\ \A v \in WorkerId \ {w} : i \notin worker[v].batch
    BY <1>1, <1>2 DEF OutboxInv, ClaimedByOne
  <2>2. HeldBy(i)' = {}
    BY <1>1, <2>1 DEF HeldBy
  <2>3. HolderOf(i) = w
    BY <1>2, Places
  <2> QED
    BY <2>1, <2>2, <2>3 DEF StateOf, HolderOf
<1>3. ASSUME NEW i \in Item, i \notin worker[w].batch
      PROVE  HolderOf(i) # w /\ StateOf(i)' = StateOf(i) /\ HolderOf(i)' = HolderOf(i)
  <2>1. HolderOf(i) # w
    <3>1. CASE \E v \in WorkerId : i \in worker[v].batch
      BY <1>3, <3>1, Places
    <3>2. CASE \A v \in WorkerId : i \notin worker[v].batch
      BY <3>2, Places, OutboxAssumption
    <3> QED
      BY <3>1, <3>2
  <2> QED
    BY <1>1, <1>3, <2>1, PlacesKept
<1> QED
  BY <1>2, <1>3 DEF Promise!Stop

LEMMA InitMaps == Init => Promise!Init
<1> SUFFICES ASSUME Init PROVE Promise!Init
  OBVIOUS
<1>1. \A i \in Item : StateOf(i) = "absent" /\ HolderOf(i) = None
  BY InitInv, Places DEF Init
<1> QED
  BY <1>1 DEF Promise!Init

LEMMA WorksMaps ==
  ASSUME OutboxInv, OutboxInv', NEW w \in WorkerId, Works(w)
  PROVE  [Promise!Next]_(Promise!vars)
<1>1. ASSUME NEW found, Select(w, found) PROVE UNCHANGED Promise!vars
  <2>1. rows' = rows /\ \A v \in WorkerId : worker'[v].batch = worker[v].batch
    BY <1>1 DEF Select, OutboxInv, TypeOK
  <2> QED
    BY <2>1, StutterStep
<1>2. ASSUME Claim(w) PROVE Promise!Next
  BY <1>2, ClaimTakes DEF Promise!Next
<1>3. ASSUME NEW i, NEW ok, Handle(w, i, ok) PROVE UNCHANGED Promise!vars
  <2>1. rows' = rows /\ \A v \in WorkerId : worker'[v].batch = worker[v].batch
    BY <1>3 DEF Handle, OutboxInv, TypeOK
  <2> QED
    BY <2>1, StutterStep
<1>4. ASSUME Settle(w) PROVE Promise!Next
  <2>1. /\ worker[w].pc = "settle" /\ worker[w].ok \in BOOLEAN
        /\ worker' = [worker EXCEPT ![w] = Afterwards(w)]
    BY <1>4 DEF Settle, OutboxInv, TypeOK
  <2>2. PICK row \in Row : rows' = [rows EXCEPT ![worker[w].item] = row]
    BY <1>4, <2>1, SettledRows DEF Settle
  <2>3. worker[w].item \in Item
    BY <2>1, SettledRows
  <2> QED
    BY <2>1, <2>2, <2>3, LeavingReleases DEF Promise!Next, Promise!State
<1>5. ASSUME BatchDone(w) PROVE UNCHANGED Promise!vars
  <2>1. rows' = rows /\ \A v \in WorkerId : worker'[v].batch = worker[v].batch
    BY <1>5 DEF BatchDone, OutboxInv, TypeOK
  <2> QED
    BY <2>1, StutterStep
<1> QED
  BY <1>1, <1>2, <1>3, <1>4, <1>5 DEF Works

LEMMA FaultMaps ==
  ASSUME OutboxInv, OutboxInv', NEW w \in WorkerId,
         ClaimFails(w) \/ SettleFails(w) \/ Crash(w) \/ Restart(w)
  PROVE  [Promise!Next]_(Promise!vars)
<1>1. ASSUME ClaimFails(w) PROVE UNCHANGED Promise!vars
  <2>1. rows' = rows /\ \A v \in WorkerId : worker'[v].batch = worker[v].batch
    BY <1>1 DEF ClaimFails, OutboxInv, TypeOK
  <2> QED
    BY <2>1, StutterStep
<1>2. ASSUME SettleFails(w) PROVE Promise!Next
  <2>1. /\ worker[w].pc = "settle" /\ rows' = rows
        /\ worker' = [worker EXCEPT ![w] = Afterwards(w)]
    BY <1>2 DEF SettleFails
  <2>2. worker[w].item \in Item /\ rows[worker[w].item] \in Row
    BY <2>1, SettledRows
  <2>3. rows' = [rows EXCEPT ![worker[w].item] = rows[worker[w].item]]
    BY <2>1, <2>2 DEF OutboxInv, TypeOK
  <2> QED
    BY <2>1, <2>2, <2>3, LeavingReleases DEF Promise!Next, Promise!State
<1>3. ASSUME Crash(w) PROVE Promise!Next
  BY <1>3, CrashStops DEF Promise!Next
<1>4. ASSUME Restart(w) PROVE UNCHANGED Promise!vars
  <2>1. rows' = rows /\ \A v \in WorkerId : worker'[v].batch = worker[v].batch
    BY <1>4 DEF Restart, Starting, OutboxInv, TypeOK
  <2> QED
    BY <2>1, StutterStep
<1> QED
  BY <1>1, <1>2, <1>3, <1>4

LEMMA StepMaps == OutboxInv /\ OutboxInv' /\ [Next]_vars => [Promise!Next]_(Promise!vars)
<1> SUFFICES ASSUME OutboxInv, OutboxInv', [Next]_vars
             PROVE  [Promise!Next]_(Promise!vars)
  OBVIOUS
<1>1. ASSUME UNCHANGED vars PROVE UNCHANGED Promise!vars
  BY <1>1, StutterStep DEF vars
<1>2. ASSUME NEW i \in Item, Insert(i) PROVE Promise!Next
  BY <1>2, InsertPuts DEF Promise!Next
<1> QED
  BY <1>1, <1>2, WorksMaps, FaultMaps DEF Next

\* The tables, the SKIP LOCKED claims and the crashes of any number of workers
\* are steps of the abstract queue: nothing handled is handled again, and only a
\* worker that stops or fails loses an item.
THEOREM ImplementsDelivery == Spec => DeliversAsPromised
<1>1. Init => Promise!Init
  BY InitMaps
<1>2. OutboxInv /\ OutboxInv' /\ [Next]_vars => [Promise!Next]_(Promise!vars)
  BY StepMaps
<1> QED
  BY <1>1, <1>2, OutboxInvariant, PTL DEF Spec, DeliversAsPromised, Promise!Spec
===============================================================================
