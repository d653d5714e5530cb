------------------------------- MODULE PixProofs -------------------------------
(***************************************************************************)
(* Proofs about Pix, for any number of sessions, charges and events, any   *)
(* amount and any division of it.                                          *)
(***************************************************************************)
EXTENDS Pix, TLAPS, FiniteSetTheorems, Sums

PlanRow == <<"plan", None>>
InvoiceRow == <<"invoice", None>>
InstRow(i) == <<"inst", i>>
EventRow(e) == <<"event", e>>

\* The requests that are transactions, and can hold locks.
Transactions == {"select", "reset", "webhook", "overdue", "adjust"}

\* What an instalment that is neither paid nor waiting for its turn can be.
Due(row) == row.status \in {"open", "pix_active"}

\* Locks belong to transactions, and no locked instalment is removed.
LocksOK ==
  /\ \A l \in locks : tx[l.tx].op \in Transactions
  /\ \A s \in Txn, i \in InstId : Holds(s, InstRow(i), "X") => i \in Rows

\* What the session t, which is at r, knows whatever the others do.
SelectOK(t, r) ==
  /\ r.pc \in {"lock_plan", "commit"} /\ r.count \in Number /\ r.amount > 0
  /\ r.pc = "commit" => /\ Holds(t, PlanRow, "X")
                        /\ plan = "pending_selection" /\ selections < MaxPlan
                        /\ r.count <= r.amount

ResetOK(t, r) == r.pc = "commit" /\ Holds(t, PlanRow, "X") /\ PaidRows = {}

CreateOK(r) ==
  /\ r.pc \in {"look_up", "insert_charge", "mark_active"} /\ r.inst \in InstId /\ r.amount \in Nat
  /\ r.pc = "mark_active" => \E c \in Charge : charges[c] # None /\ charges[c].inst = r.inst

CreateForInvoiceOK(r) ==
  r.pc \in {"look_up", "insert_charge"} /\ r.inst = None /\ r.amount \in Nat /\ plan = "completed"

WebhookOK(t, r) ==
  /\ r.pc \in {"lock_charge", "insert_payment", "lock_inst", "lock_plan", "lock_invoice", "commit"}
  /\ r.charge \in Charge /\ charges[r.charge] # None
  /\ r.event \in Event /\ Holds(t, EventRow(r.event), "X") /\ r.event \notin events
  /\ r.pc # "lock_charge" =>
       r.inst = charges[r.charge].inst /\ r.amount = charges[r.charge].amount
  /\ r.pc \in {"lock_inst", "lock_plan"} => r.inst # None
  /\ r.pc \in {"lock_plan", "lock_invoice", "commit"} /\ r.inst # None =>
       Holds(t, InstRow(r.inst), "X") /\ Payable(r)
  /\ r.pc \in {"lock_invoice", "commit"} /\ r.inst # None => Holds(t, PlanRow, "X")
  /\ r.pc = "commit" => Holds(t, InvoiceRow, "X")

OverdueOK(t, r) ==
  /\ r.pc \in {"mark_invoice", "mark_by_date"}
  /\ r.pc = "mark_invoice" =>
       \A i \in InstId : Holds(t, InstRow(i), "X") => Due(insts[i])

AdjustOK(t, r) ==
  r.pc = "commit" /\ Holds(t, InvoiceRow, "X") /\ invoice.total + r.amount >= invoice.paid

SessionOK(t, r) ==
  /\ r.op = "idle" => r = Idle
  /\ r.op = "select" => SelectOK(t, r)
  /\ r.op = "reset" => ResetOK(t, r)
  /\ r.op = "create" => CreateOK(r)
  /\ r.op = "create_for_invoice" => CreateForInvoiceOK(r)
  /\ r.op = "webhook" => WebhookOK(t, r)
  /\ r.op = "overdue" => OverdueOK(t, r)
  /\ r.op = "adjust" => AdjustOK(t, r)

\* A charge is for an instalment that exists, or for an invoice whose plan has
\* run its course.
ChargesOK ==
  /\ \A c \in settled : charges[c] # None
  /\ \A c \in Charge : charges[c] # None =>
       IF charges[c].inst = None THEN plan = "completed" ELSE charges[c].inst \in Rows

\* Every payment has its event and its charge, every paid instalment its payment.
PaymentsOK ==
  /\ events = {p.event : p \in payments}
  /\ \A p, q \in payments : p.event = q.event => p = q
  /\ \A p \in payments : charges[p.charge] # None /\ charges[p.charge].inst = p.inst
  /\ \A p \in payments : p.inst # None => p.inst \in PaidRows
  /\ \A p, q \in payments : p.inst = q.inst /\ p.inst # None => p = q
  /\ \A i \in PaidRows : \E p \in payments : p.inst = i

\* The plan is divided in k parts, of which the first n - 1 are paid.
Divided(k, n) ==
  /\ plan = IF n = k + 1 THEN "completed" ELSE "active"
  /\ selections >= 1
  /\ \A i \in InstId : i \in Rows <=> i.plan = selections /\ i.number <= k
  /\ \A i \in Rows : /\ i.number < n <=> insts[i].status = "paid"
                     /\ i.number > n <=> insts[i].status = "scheduled"
                     /\ insts[i].amount > 0

PlanOK == IF plan = "pending_selection" THEN Rows = {}
          ELSE \E k \in Number : \E n \in 1 .. k + 1 : Divided(k, n)

SessionsOK == \A t \in Txn : SessionOK(t, tx[t])

PixInv ==
  TypeOK /\ MutexOK /\ LocksOK /\ ChargesOK /\ PaymentsOK /\ PlanOK /\ SessionsOK

-------------------------------------------------------------------------------
(* Locks.                                                                    *)

\* Two sessions do not hold an instalment, an invoice, ... together.
LEMMA Excludes ==
  ASSUME MutexOK, NEW s, NEW t, s # t, NEW row, NEW m, NEW n,
         Holds(s, row, m), Holds(t, row, n)
  PROVE  m = "S" /\ n = "S"
BY DEF MutexOK, Holds

LEMMA Waits ==
  ASSUME NEW s, NEW t, s # t, NEW row, NEW m, NEW n,
         CanLock(t, row, n), Holds(s, row, m)
  PROVE  m = "S" /\ n = "S"
BY DEF CanLock, Holds

\* The locks of the other sessions are what they were.
OthersKeep(t) == \A l \in LocksOn(Row) : l.tx # t => (l \in locks' <=> l \in locks)

LocksMove(t) == locks' \subseteq LocksOn(Row) /\ MutexOK' /\ OthersKeep(t)

LEMMA SameLocks ==
  ASSUME locks \subseteq LocksOn(Row), MutexOK, locks' = locks, NEW t
  PROVE  LocksMove(t)
BY DEF MutexOK, LocksMove, OthersKeep

LEMMA MoreLocks ==
  ASSUME locks \subseteq LocksOn(Row), MutexOK, NEW t \in Txn, NEW L, L \subseteq LocksOn(Row),
         \A l \in L : l.tx = t /\ CanLock(t, l.row, l.mode), locks' = locks \cup L
  PROVE  LocksMove(t)
<1>1. ASSUME NEW l \in locks', NEW k \in locks', l.row = k.row, l.tx # k.tx
      PROVE  l.mode = "S" /\ k.mode = "S"
  <2>1. CASE l \in locks /\ k \in locks
    BY <1>1, <2>1 DEF MutexOK
  <2>2. CASE l \in L
    <3>1. k \in locks /\ k.row = l.row /\ k.tx # t
      BY <1>1, <2>2
    <3> QED
      BY <2>2, <3>1 DEF CanLock
  <2>3. CASE k \in L
    <3>1. l \in locks /\ l.row = k.row /\ l.tx # t
      BY <1>1, <2>3
    <3> QED
      BY <2>3, <3>1 DEF CanLock
  <2> QED
    BY <1>1, <2>1, <2>2, <2>3
<1>2. OthersKeep(t)
  BY DEF OthersKeep
<1> QED
  BY <1>1, <1>2 DEF MutexOK, LocksMove

LEMMA OneLock ==
  ASSUME locks \subseteq LocksOn(Row), MutexOK, NEW t \in Txn, NEW row \in Row, NEW m \in Mode,
         CanLock(t, row, m), locks' = WithLock(t, row, m)
  PROVE  LocksMove(t)
<1> DEFINE l == [row |-> row, tx |-> t, mode |-> m]
<1>1. l \in LocksOn(Row) /\ l.tx = t /\ l.row = row /\ l.mode = m
  BY DEF LocksOn
<1>2. locks' = locks \cup {l}
  BY DEF WithLock
<1>3. \A k \in {l} : k.tx = t /\ CanLock(t, k.row, k.mode)
  BY <1>1
<1> DEFINE L == {l}
<1>4. L \subseteq LocksOn(Row) /\ locks' = locks \cup L
  BY <1>1, <1>2
<1>5. \A k \in L : k.tx = t /\ CanLock(t, k.row, k.mode)
  BY <1>3
<1> HIDE DEF L
<1> QED
  BY <1>4, <1>5, MoreLocks

LEMMA FewerLocks ==
  ASSUME locks \subseteq LocksOn(Row), MutexOK, NEW t \in Txn, locks' = WithoutLocks(t)
  PROVE  LocksMove(t) /\ \A l \in locks' : l.tx # t
BY DEF MutexOK, LocksMove, OthersKeep, WithoutLocks

LEMMA KnownRows ==
  /\ PlanRow \in Row /\ InvoiceRow \in Row
  /\ \A i \in InstId : InstRow(i) \in Row
  /\ \A c \in Charge : <<"charge", c>> \in Row
  /\ \A e \in Event : EventRow(e) \in Row
  /\ \A i \in InstId : InstRow(i) # PlanRow /\ InstRow(i) # InvoiceRow
BY DEF Row, PlanRow, InvoiceRow, InstRow, EventRow


-------------------------------------------------------------------------------
(* What a step leaves to a session that does not take it.                    *)

ChargesGrow ==
  \A c \in Charge : charges[c] # None =>
    /\ charges'[c] # None
    /\ charges'[c].inst = charges[c].inst /\ charges'[c].amount = charges[c].amount

Spared(s) ==
  /\ plan = "completed" => plan' = "completed"
  /\ Holds(s, PlanRow, "X") => /\ plan' = plan /\ selections' = selections
                               /\ PaidRows = {} => PaidRows' = {}
  /\ \A i \in InstId : Holds(s, InstRow(i), "X") => insts'[i] = insts[i]
  /\ \A e \in Event : Holds(s, EventRow(e), "X") /\ e \in events' => e \in events
  /\ Holds(s, InvoiceRow, "X") => invoice' = invoice

LEMMA KeepsHolding ==
  ASSUME NEW s \in Txn, NEW t \in Txn, s # t, OthersKeep(t), NEW row \in Row
  PROVE  Holds(s, row, "X")' <=> Holds(s, row, "X")
BY DEF Holds, OthersKeep, LocksOn, Mode

LEMMA SessionKept ==
  ASSUME NEW s \in Txn, NEW r, r \in TxState, ChargesGrow, Spared(s), SessionOK(s, r),
         \A row \in Row : Holds(s, row, "X")' <=> Holds(s, row, "X")
  PROVE  SessionOK(s, r)'
<1>1. \A row \in Row : Holds(s, row, "X")' <=> Holds(s, row, "X")
  OBVIOUS
<1>2. SelectOK(s, r) => SelectOK(s, r)'
  BY <1>1, KnownRows DEF SelectOK, Spared
<1>3. ResetOK(s, r) => ResetOK(s, r)'
  BY <1>1, KnownRows DEF ResetOK, Spared
<1>4. CreateOK(r) => CreateOK(r)'
  BY DEF CreateOK, ChargesGrow
<1>5. CreateForInvoiceOK(r) => CreateForInvoiceOK(r)'
  BY DEF CreateForInvoiceOK, Spared
<1>6. WebhookOK(s, r) => WebhookOK(s, r)'
  <2> SUFFICES ASSUME WebhookOK(s, r) PROVE WebhookOK(s, r)'
    OBVIOUS
  <2>1. /\ charges'[r.charge] # None
        /\ charges'[r.charge].inst = charges[r.charge].inst
        /\ charges'[r.charge].amount = charges[r.charge].amount
    BY DEF WebhookOK, ChargesGrow
  <2>2. Holds(s, EventRow(r.event), "X")' /\ r.event \notin events'
    BY <1>1, KnownRows DEF WebhookOK, Spared
  <2>3. ASSUME r.pc \in {"lock_plan", "lock_invoice", "commit"}, r.inst # None
        PROVE  Holds(s, InstRow(r.inst), "X")' /\ Payable(r)'
    <3>1. r.inst \in InstId /\ Holds(s, InstRow(r.inst), "X") /\ Payable(r)
      BY <2>3 DEF WebhookOK, TxState
    <3> QED
      BY <1>1, <3>1, KnownRows DEF Spared, Payable
  <2>4. r.pc \in {"lock_invoice", "commit"} /\ r.inst # None => Holds(s, PlanRow, "X")'
    BY <1>1, KnownRows DEF WebhookOK
  <2>5. r.pc = "commit" => Holds(s, InvoiceRow, "X")'
    BY <1>1, KnownRows DEF WebhookOK
  <2> QED
    BY <2>1, <2>2, <2>3, <2>4, <2>5 DEF WebhookOK
<1>7. OverdueOK(s, r) => OverdueOK(s, r)'
  <2> SUFFICES ASSUME OverdueOK(s, r), r.pc = "mark_invoice",
                      NEW i \in InstId, Holds(s, InstRow(i), "X")'
               PROVE  Due(insts[i])'
    BY DEF OverdueOK
  <2> QED
    BY <1>1, KnownRows DEF OverdueOK, Spared, Due
<1>8. AdjustOK(s, r) => AdjustOK(s, r)'
  BY <1>1, KnownRows DEF AdjustOK, Spared
<1> QED
  BY <1>2, <1>3, <1>4, <1>5, <1>6, <1>7, <1>8 DEF SessionOK


\* A step of t leaves the tables in order, and to the others what they rely on.
TablesTyped ==
  /\ day \in 1 .. MaxDay
  /\ invoice \in Invoice
  /\ plan \in {"pending_selection", "active", "completed"}
  /\ selections \in 0 .. MaxPlan
  /\ insts \in [InstId -> Inst \cup {None}]
  /\ charges \in [Charge -> ChargeRow \cup {None}]
  /\ payments \subseteq Payment
  /\ events \subseteq Event
  /\ settled \subseteq Charge

TablesMove(t) ==
  /\ TablesTyped' /\ ChargesOK' /\ PaymentsOK' /\ PlanOK' /\ ChargesGrow
  /\ \A s \in Txn \ {t} : /\ Spared(s)
                          /\ \A i \in InstId : Holds(s, InstRow(i), "X") => i \in Rows'

LEMMA SameTables ==
  ASSUME PixInv, UNCHANGED <<tables, settled>>, day' \in 1 .. MaxDay, NEW t
  PROVE  TablesMove(t)
<1>1. TablesTyped'
  BY DEF PixInv, TypeOK, TablesTyped, tables
<1>2. Rows' = Rows /\ PaidRows' = PaidRows
  BY DEF Rows, PaidRows, tables
<1>3. ChargesOK' /\ PaymentsOK'
  BY <1>2 DEF PixInv, ChargesOK, PaymentsOK, tables
<1>4. PlanOK'
  BY <1>2 DEF PixInv, PlanOK, Divided, tables
<1>5. \A s \in Txn : Spared(s) /\ \A i \in InstId : Holds(s, InstRow(i), "X") => i \in Rows'
  BY <1>2 DEF Spared, tables, PixInv, LocksOK
<1> QED
  BY <1>1, <1>3, <1>4, <1>5 DEF TablesMove, ChargesGrow, tables

SessionMoves(t, r) ==
  r \in TxState /\ tx' = [tx EXCEPT ![t] = r] /\ SessionOK(t, r)'

LEMMA StepOK ==
  ASSUME PixInv, NEW t \in Txn, NEW r, TablesMove(t), LocksMove(t), SessionMoves(t, r),
         \A l \in locks' : l.tx = t => r.op \in Transactions,
         \A i \in InstId : Holds(t, InstRow(i), "X")' => i \in Rows'
  PROVE  PixInv'
<1>1. tx' \in [Txn -> TxState] /\ tx'[t] = r /\ \A s \in Txn \ {t} : tx'[s] = tx[s]
  BY DEF SessionMoves, PixInv, TypeOK
<1>2. TypeOK' /\ MutexOK'
  BY <1>1 DEF TablesMove, TablesTyped, LocksMove, TypeOK
<1>3. SessionsOK'
  <2> SUFFICES ASSUME NEW s \in Txn PROVE SessionOK(s, tx[s])'
    BY DEF SessionsOK
  <2> PICK q : q = tx'[s]
    OBVIOUS
  <2>1. SessionOK(s, q)'
    <3>1. CASE s = t
      BY <1>1, <3>1 DEF SessionMoves
    <3>2. CASE s # t
      <4>1. q = tx[s] /\ q \in TxState
        BY <1>1, <3>2
      <4>2. SessionOK(s, q)
        BY <4>1 DEF PixInv, SessionsOK
      <4>3. \A row \in Row : Holds(s, row, "X")' <=> Holds(s, row, "X")
        BY <3>2, KeepsHolding DEF LocksMove
      <4> QED
        BY <3>2, <4>1, <4>2, <4>3, SessionKept DEF TablesMove
    <3> QED
      BY <3>1, <3>2
  <2> QED
    BY <2>1
<1>4. LocksOK'
  <2>1. ASSUME NEW l \in locks' PROVE tx'[l.tx].op \in Transactions
    <3>1. CASE l.tx = t
      BY <1>1, <3>1
    <3>2. CASE l.tx # t
      <4>1. l \in locks /\ l.tx \in Txn
        BY <3>2 DEF LocksMove, OthersKeep, LocksOn
      <4> QED
        BY <1>1, <3>2, <4>1 DEF PixInv, LocksOK
    <3> QED
      BY <3>1, <3>2
  <2>2. ASSUME NEW s \in Txn, NEW i \in InstId, Holds(s, InstRow(i), "X")' PROVE i \in Rows'
    <3>1. CASE s = t
      BY <2>2, <3>1
    <3>2. CASE s # t
      <4>1. Holds(s, InstRow(i), "X")
        BY <2>2, <3>2, KeepsHolding, KnownRows DEF LocksMove
      <4> QED
        BY <3>2, <4>1 DEF TablesMove
    <3> QED
      BY <3>1, <3>2
  <2> QED
    BY <2>1, <2>2 DEF LocksOK
<1> QED
  BY <1>2, <1>3, <1>4 DEF PixInv, TablesMove

LEMMA IdleOK == Idle \in TxState /\ \A t : SessionOK(t, Idle)'
BY DEF Idle, TxState, SessionOK, AllOperations, Pc

\* A request ends, and lets its locks go.
LEMMA Ends ==
  ASSUME PixInv, NEW t \in Txn, TablesMove(t), Finish(t)
  PROVE  PixInv'
<1>1. LocksMove(t) /\ \A l \in locks' : l.tx # t
  BY FewerLocks DEF Finish, PixInv, TypeOK
<1>2. SessionMoves(t, Idle)
  BY IdleOK DEF Finish, SessionMoves
<1>3. \A i \in InstId : ~Holds(t, InstRow(i), "X")'
  BY <1>1 DEF Holds
<1> QED
  BY <1>1, <1>2, <1>3, StepOK

\* A transaction goes on, perhaps with more locks, none of an instalment.
LEMMA Goes ==
  ASSUME PixInv, NEW t \in Txn, NEW r, TablesMove(t), LocksMove(t), SessionMoves(t, r),
         r.op \in Transactions,
         \A i \in InstId : Holds(t, InstRow(i), "X")' => Holds(t, InstRow(i), "X") \/ i \in Rows',
         Rows \subseteq Rows'
  PROVE  PixInv'
BY StepOK DEF PixInv, LocksOK

\* A request that is no transaction has no locks.
LEMMA GoesFree ==
  ASSUME PixInv, NEW t \in Txn, NEW r, TablesMove(t), locks' = locks, SessionMoves(t, r),
         tx[t].op \notin Transactions
  PROVE  PixInv'
<1>1. \A l \in locks' : l.tx # t
  BY DEF PixInv, LocksOK
<1>2. \A i \in InstId : ~Holds(t, InstRow(i), "X")'
  BY <1>1 DEF Holds
<1>3. LocksMove(t)
  BY SameLocks DEF PixInv, TypeOK
<1> QED
  BY <1>1, <1>2, <1>3, StepOK


-------------------------------------------------------------------------------
(* Selection and reset of the plan.                                          *)

LEMMA Amounts ==
  ASSUME PixInv
  PROVE  /\ Remaining(invoice) \in Nat
         /\ \A i \in Rows : insts[i] \in Inst /\ Left(insts[i]) \in Nat
         /\ \A c \in Charge : charges[c] # None => charges[c] \in ChargeRow
         /\ Number \subseteq Nat
BY PixAssumption DEF PixInv, TypeOK, Invoice, Remaining, Rows, Inst, Left, Number

\* A request as it begins.
LEMMA NewRequest ==
  ASSUME NEW op \in AllOperations, NEW pc \in Pc, NEW r, r = Request(op, pc)
  PROVE  /\ r \in TxState /\ r.op = op /\ r.pc = pc
         /\ r.inst = None /\ r.charge = None /\ r.event = None /\ r.amount = 0 /\ r.count = 0
<1>1. r = [op |-> op, pc |-> pc, inst |-> None, charge |-> None, event |-> None,
           amount |-> 0, count |-> 0]
  BY DEF Request, Idle
<1> QED
  BY <1>1 DEF TxState

LEMMA SelectBeginInv ==
  ASSUME PixInv, NEW t \in Txn, NEW n \in Number, SelectBegin(t, n)
  PROVE  PixInv'
<1> PICK q : q = Request("select", "lock_plan")
  OBVIOUS
<1> PICK r : r = [q EXCEPT !.amount = Remaining(invoice), !.count = n]
  OBVIOUS
<1>0. q \in TxState /\ q.op = "select" /\ q.pc = "lock_plan"
  BY NewRequest DEF AllOperations, Pc
<1>1. /\ r \in TxState /\ r.op = "select" /\ r.pc = "lock_plan"
      /\ r.count \in Number /\ r.amount > 0
  <2>1. r \in TxState /\ r.op = "select" /\ r.pc = "lock_plan" /\ r.amount = Remaining(invoice) /\ r.count = n
    <3>1. Remaining(invoice) \in Int /\ n \in Nat
      BY Amounts
    <3> QED
      BY <1>0, <3>1 DEF TxState
  <2> QED
    BY <2>1 DEF SelectBegin
<1>2. SessionMoves(t, r)
  BY <1>1 DEF SessionMoves, SelectBegin, SessionOK, SelectOK
<1>3. TablesMove(t)
  BY SameTables DEF SelectBegin, PixInv, TypeOK
<1>4. tx[t].op \notin Transactions
  BY DEF SelectBegin, Idle, Transactions
<1> QED
  BY <1>2, <1>3, <1>4, GoesFree DEF SelectBegin

LEMMA MinIsLeast ==
  ASSUME NEW S, NEW m \in S, \A x \in S : m <= x, S \subseteq Int
  PROVE  Min(S) = m
<1>1. Min(S) \in S /\ \A x \in S : Min(S) <= x
  BY DEF Min
<1> PICK x : x = Min(S)
  OBVIOUS
<1>2. x \in Int /\ m \in Int /\ x <= m /\ m <= x
  BY <1>1
<1>3. x = m
  BY <1>2
<1> QED
  BY <1>3

\* No more parts than cents.
LEMMA CountBounded ==
  ASSUME NEW total \in Nat, total > 0, NEW count \in Nat, count <= MaxCount(total)
  PROVE  count <= total
<1>1. total \div MinInstallment \in Nat /\ total \div MinInstallment <= total
  BY PixAssumption
<1>2. CASE total \div MinInstallment < 1
  BY <1>2 DEF MaxCount
<1>3. CASE total \div MinInstallment <= MaxInstallment
  <2>1. Min({total \div MinInstallment, MaxInstallment}) = total \div MinInstallment
    BY <1>1, <1>3, MinIsLeast, PixAssumption
  <2> QED
    BY <1>1, <1>2, <2>1 DEF MaxCount
<1>4. CASE total \div MinInstallment > MaxInstallment
  <2>1. Min({total \div MinInstallment, MaxInstallment}) = MaxInstallment
    BY <1>1, <1>4, MinIsLeast, PixAssumption
  <2> QED
    BY <1>1, <1>2, <1>4, <2>1, PixAssumption DEF MaxCount
<1> QED
  BY <1>1, <1>2, <1>3, <1>4, PixAssumption

LEMMA LockPlanInv ==
  ASSUME PixInv, NEW t \in Txn, LockPlan(t)
  PROVE  PixInv'
<1> PICK q : q = tx[t]
  OBVIOUS
<1> PICK r : r = [q EXCEPT !.pc = IF q.op = "webhook" THEN "lock_invoice" ELSE "commit"]
  OBVIOUS
<1>1. q \in TxState /\ SessionOK(t, q)
  BY DEF PixInv, TypeOK, SessionsOK
<1>2. q.pc = "lock_plan" /\ q.op \in {"select", "webhook"}
  BY <1>1 DEF LockPlan, SessionOK, SelectOK, ResetOK, CreateOK, CreateForInvoiceOK, OverdueOK,
              AdjustOK, TxState, AllOperations, Idle
<1>3. /\ r \in TxState /\ r.op = q.op /\ r.inst = q.inst /\ r.charge = q.charge
      /\ r.event = q.event /\ r.amount = q.amount /\ r.count = q.count
      /\ r.pc = IF q.op = "webhook" THEN "lock_invoice" ELSE "commit"
  BY <1>1 DEF TxState, Pc
<1>4. TablesMove(t)
  BY SameTables DEF LockPlan, PixInv, TypeOK
<1>5. LocksMove(t)
  BY OneLock, KnownRows DEF LockPlan, PixInv, TypeOK, PlanRow, Mode
<1>6. \A row \in Row : Holds(t, row, "X") => Holds(t, row, "X")'
  BY DEF LockPlan, WithLock, Holds
<1>7. Holds(t, PlanRow, "X")'
  BY DEF LockPlan, WithLock, Holds, PlanRow
<1>8. \A i \in InstId : Holds(t, InstRow(i), "X")' => Holds(t, InstRow(i), "X")
  BY DEF LockPlan, WithLock, Holds, InstRow
<1>9. SessionOK(t, r)'
  <2>1. CASE q.op = "select"
    <3>1. SelectOK(t, q) /\ q.count <= q.amount
      BY <1>1, <1>2, <2>1, CountBounded, Amounts DEF SessionOK, SelectOK, LockPlan, TxState
    <3>2. plan' = "pending_selection" /\ selections' < MaxPlan
      BY <2>1 DEF LockPlan, tables
    <3>3. SelectOK(t, r)'
      BY <1>3, <1>7, <2>1, <3>1, <3>2 DEF SelectOK
    <3> QED
      BY <1>3, <2>1, <3>3 DEF SessionOK
  <2>2. CASE q.op = "webhook"
    <3>1. WebhookOK(t, q)
      BY <1>1, <2>2 DEF SessionOK
    <3>2. r.inst \in InstId
      BY <1>1, <1>2, <1>3, <3>1 DEF WebhookOK, TxState
    <3>3. Holds(t, EventRow(r.event), "X")' /\ Holds(t, InstRow(r.inst), "X")'
      BY <1>2, <1>3, <1>6, <3>1, <3>2, KnownRows DEF WebhookOK
    <3>4. charges' = charges /\ events' = events /\ insts' = insts
      BY DEF LockPlan, tables
    <3>5. Payable(r)'
      BY <1>2, <1>3, <3>1, <3>4 DEF WebhookOK, Payable
    <3>6. WebhookOK(t, r)'
      BY <1>2, <1>3, <1>7, <2>2, <3>1, <3>2, <3>3, <3>4, <3>5 DEF WebhookOK
    <3> QED
      BY <1>3, <2>2, <3>6 DEF SessionOK
  <2> QED
    BY <1>2, <2>1, <2>2
<1>10. SessionMoves(t, r) /\ r.op \in Transactions
  BY <1>2, <1>3, <1>9 DEF SessionMoves, LockPlan, Transactions
<1>11. Rows' = Rows
  BY DEF Rows, LockPlan, tables
<1> QED
  BY <1>4, <1>5, <1>8, <1>10, <1>11, Goes

LEMMA ResetBeginInv ==
  ASSUME PixInv, NEW t \in Txn, ResetBegin(t)
  PROVE  PixInv'
<1> PICK r : r = Request("reset", "commit")
  OBVIOUS
<1>1. r \in TxState /\ r.op = "reset" /\ r.pc = "commit"
  BY NewRequest DEF AllOperations, Pc
<1>2. TablesMove(t)
  BY SameTables DEF ResetBegin, PixInv, TypeOK
<1>3. LocksMove(t)
  BY OneLock, KnownRows DEF ResetBegin, PixInv, TypeOK, PlanRow, Mode
<1>4. Holds(t, PlanRow, "X")' /\ PaidRows' = {}
  BY DEF ResetBegin, WithLock, Holds, PlanRow, PaidRows, Rows, tables
<1>5. \A i \in InstId : Holds(t, InstRow(i), "X")' => Holds(t, InstRow(i), "X")
  BY DEF ResetBegin, WithLock, Holds, InstRow
<1>6. SessionMoves(t, r)
  BY <1>1, <1>4 DEF SessionMoves, ResetBegin, SessionOK, ResetOK
<1>7. Rows' = Rows /\ r.op \in Transactions
  BY <1>1 DEF Rows, ResetBegin, tables, Transactions
<1> QED
  BY <1>2, <1>3, <1>5, <1>6, <1>7, Goes


\* Every part of a division has at least one cent.
LEMMA PartsPositive ==
  ASSUME NEW total \in Nat, NEW count \in Nat, count > 0, count <= total, NEW n \in 1 .. count
  PROVE  Distribute(total, count)[n] \in Nat \ {0}
<1>1. total \div count \in Nat /\ total \div count >= 1
  <2> PICK q, m : q = total \div count /\ m = total % count
    OBVIOUS
  <2>1. q \in Int /\ m \in 0 .. count - 1 /\ total = count * q + m
    OBVIOUS
  <2>2. q >= 1
    <3>1. q <= 0 => count * q <= 0
      BY <2>1
    <3> QED
      BY <2>1, <3>1
  <2> QED
    BY <2>1, <2>2
<1> QED
  BY <1>1 DEF Distribute

LEMMA CommitSelectTables ==
  ASSUME PixInv, NEW t \in Txn, CommitSelect(t)
  PROVE  TablesMove(t)
<1> PICK r : r = tx[t]
  OBVIOUS
<1>1. /\ r \in TxState /\ Holds(t, PlanRow, "X") /\ plan = "pending_selection"
      /\ r.count \in Number /\ r.count <= r.amount /\ r.amount > 0 /\ selections < MaxPlan
  BY DEF PixInv, TypeOK, SessionsOK, SessionOK, SelectOK, CommitSelect
<1>2. Rows = {} /\ PaidRows = {} /\ \A i \in InstId : insts[i] = None
  BY <1>1 DEF PixInv, PlanOK, Rows, PaidRows
<1>3. \A c \in Charge : charges[c] = None
  BY <1>1, <1>2 DEF PixInv, ChargesOK
<1>4. r.amount \in Nat /\ r.count \in Nat /\ r.count > 0
  BY <1>1, Amounts DEF TxState, Number
<1>5. /\ plan' = "active" /\ selections' = selections + 1 /\ selections' \in 1 .. MaxPlan
      /\ UNCHANGED <<day, settled, invoice, charges, payments, events>>
  <2>1. /\ plan' = "active" /\ selections' = selections + 1
        /\ UNCHANGED <<day, settled, invoice, charges, payments, events>>
    BY DEF CommitSelect
  <2>2. selections \in 0 .. MaxPlan
    BY DEF PixInv, TypeOK
  <2> QED
    BY <1>1, <2>1, <2>2, PixAssumption
<1>6. ASSUME NEW i \in InstId
      PROVE  IF i.plan = selections' /\ i.number <= r.count
               THEN /\ insts'[i] \in Inst /\ insts'[i].amount > 0
                    /\ insts'[i].status = IF i.number = 1 THEN "open" ELSE "scheduled"
               ELSE insts'[i] = None
  <2>1. i.number \in Nat /\ i.number >= 1 /\ i.plan \in Nat
    BY DEF InstId, Number
  <2>2. CASE i.plan = selections' /\ i.number <= r.count
    <3>1. Distribute(r.amount, r.count)[i.number] \in Nat \ {0}
      BY <1>1, <1>4, <2>1, <2>2, PartsPositive
    <3>2. insts'[i] = [amount |-> Distribute(r.amount, r.count)[i.number],
                       status |-> IF i.number = 1 THEN "open" ELSE "scheduled"]
      BY <1>5, <2>2 DEF CommitSelect
    <3> QED
      BY <2>2, <3>1, <3>2 DEF Inst, InstStatus
  <2>3. CASE ~(i.plan = selections' /\ i.number <= r.count)
    BY <1>2, <1>5, <2>3 DEF CommitSelect
  <2> QED
    BY <2>2, <2>3
<1>7. \A i \in InstId : i \in Rows' <=> i.plan = selections' /\ i.number <= r.count
  BY <1>6, NoneRow DEF Rows
<1>8. PaidRows' = {}
  BY <1>6, <1>7 DEF PaidRows, Rows
<1>9. TablesTyped'
  <2>1. insts' \in [InstId -> Inst \cup {None}]
    <3>1. insts' = [i \in InstId |-> insts'[i]]
      BY DEF CommitSelect
    <3> QED
      BY <1>6, <3>1
  <2> QED
    BY <1>5, <2>1, PixAssumption DEF TablesTyped, PixInv, TypeOK
<1>10. ChargesOK'
  BY <1>3, <1>5 DEF ChargesOK, PixInv
<1>11. PaymentsOK'
  BY <1>2, <1>5, <1>8 DEF PaymentsOK, PixInv
<1>12. PlanOK'
  <2>1. Divided(r.count, 1)'
    <3>1. \A i \in Rows' : i \in InstId /\ i.number \in Nat /\ i.number >= 1
      BY DEF Rows, InstId, Number
    <3> QED
      BY <1>4, <1>5, <1>6, <1>7, <3>1 DEF Divided
  <2> QED
    BY <1>1, <1>4, <1>5, <2>1 DEF PlanOK
<1>13. ASSUME NEW s \in Txn \ {t}
       PROVE  Spared(s) /\ \A i \in InstId : ~Holds(s, InstRow(i), "X")
  <2>1. ~Holds(s, PlanRow, "X")
    BY <1>1, Excludes DEF PixInv
  <2>2. \A i \in InstId : ~Holds(s, InstRow(i), "X")
    BY <1>2 DEF PixInv, LocksOK
  <2> QED
    BY <1>1, <1>5, <2>1, <2>2 DEF Spared
<1>14. ChargesGrow
  BY <1>3 DEF ChargesGrow
<1> QED
  BY <1>9, <1>10, <1>11, <1>12, <1>13, <1>14 DEF TablesMove

LEMMA CommitResetTables ==
  ASSUME PixInv, NEW t \in Txn, CommitReset(t)
  PROVE  TablesMove(t)
<1>1. PaidRows = {} /\ Holds(t, PlanRow, "X")
  BY DEF PixInv, TypeOK, SessionsOK, SessionOK, ResetOK, CommitReset
<1>2. /\ plan' = "pending_selection" /\ insts' = [i \in InstId |-> None]
      /\ UNCHANGED <<day, settled, invoice, selections, charges, payments, events>>
  BY DEF CommitReset
<1>3. Rows' = {} /\ PaidRows' = {}
  BY <1>2 DEF Rows, PaidRows
<1>4. plan # "completed"
  <2> SUFFICES ASSUME plan = "completed" PROVE FALSE
    OBVIOUS
  <2>1. PICK k \in Number : \E n \in 1 .. k + 1 : Divided(k, n)
    BY DEF PixInv, PlanOK
  <2>2. PICK n \in 1 .. k + 1 : Divided(k, n)
    BY <2>1
  <2>3. k \in Nat /\ k >= 1 /\ n = k + 1
    BY <2>2 DEF Number, Divided
  <2> DEFINE i == [plan |-> selections, number |-> 1]
  <2>4. i \in InstId /\ i.plan = selections /\ i.number = 1
    BY <2>2, <2>3, PixAssumption DEF InstId, Divided, PixInv, TypeOK, Number
  <2> HIDE DEF i
  <2>5. i \in Rows /\ insts[i].status = "paid"
    BY <2>2, <2>3, <2>4 DEF Divided
  <2> QED
    BY <1>1, <2>5 DEF PaidRows
<1>5. \A c \in Charge : charges[c] = None
  BY <1>4 DEF CommitReset, PixInv, ChargesOK
<1>6. TablesTyped' /\ ChargesOK' /\ PlanOK' /\ ChargesGrow
  BY <1>2, <1>3, <1>5 DEF TablesTyped, PixInv, TypeOK, ChargesOK, PlanOK, ChargesGrow
<1>7. PaymentsOK'
  BY <1>1, <1>2, <1>3 DEF PaymentsOK, PixInv
<1>8. ASSUME NEW s \in Txn \ {t}
      PROVE  Spared(s) /\ \A i \in InstId : ~Holds(s, InstRow(i), "X")
  <2>1. ~Holds(s, PlanRow, "X")
    BY <1>1, Excludes DEF PixInv
  <2>2. ASSUME NEW i \in InstId, Holds(s, InstRow(i), "X") PROVE FALSE
    <3>1. i \in Rows
      BY <2>2 DEF PixInv, LocksOK
    <3> QED
      BY <2>2, <3>1, Waits DEF CommitReset, InstRow
  <2> QED
    BY <1>2, <1>4, <2>1, <2>2 DEF Spared
<1> QED
  BY <1>6, <1>7, <1>8 DEF TablesMove


LEMMA PlanStepInv ==
  ASSUME PixInv, NEW t \in Txn, PlanStep(t)
  PROVE  PixInv'
<1>1. CASE CommitSelect(t)
  BY <1>1, CommitSelectTables, Ends DEF CommitSelect
<1>2. CASE CommitReset(t)
  BY <1>2, CommitResetTables, Ends DEF CommitReset
<1> QED
  BY <1>1, <1>2, SelectBeginInv, ResetBeginInv, LockPlanInv DEF PlanStep

-------------------------------------------------------------------------------
(* Charges.                                                                  *)

\* Which request a session is at, by the statement that comes next.
LEMMA Phases ==
  ASSUME PixInv, NEW t \in Txn, NEW q, q = tx[t]
  PROVE  /\ q \in TxState
         /\ q.pc \in {"look_up", "insert_charge"} =>
              \/ q.op = "create" /\ CreateOK(q)
              \/ q.op = "create_for_invoice" /\ CreateForInvoiceOK(q)
         /\ q.pc = "mark_active" => q.op = "create" /\ CreateOK(q)
         /\ q.pc \in {"lock_charge", "insert_payment", "lock_inst", "lock_invoice"} =>
              q.op = "webhook" /\ WebhookOK(t, q)
         /\ q.pc \in {"mark_invoice", "mark_by_date"} => q.op = "overdue" /\ OverdueOK(t, q)
<1>1. q \in TxState /\ SessionOK(t, q)
  BY DEF PixInv, TypeOK, SessionsOK
<1>2. q.op \in AllOperations \cup {"idle"}
  BY <1>1 DEF TxState
<1>3. q.op = "idle" => q.pc = "idle"
  BY <1>1 DEF SessionOK, Idle
<1> QED
  BY <1>1, <1>2, <1>3 DEF AllOperations, SessionOK, SelectOK, ResetOK, CreateOK, CreateForInvoiceOK,
                          WebhookOK, OverdueOK, AdjustOK

LEMMA CreateBeginInv ==
  ASSUME PixInv, NEW t \in Txn, NEW i \in InstId, CreateBegin(t, i)
  PROVE  PixInv'
<1> PICK q : q = Request("create", "look_up")
  OBVIOUS
<1> PICK a : a = Left(insts[i])
  OBVIOUS
<1> PICK r : r = [q EXCEPT !.inst = i, !.amount = a]
  OBVIOUS
<1>1. q \in TxState /\ q.op = "create" /\ q.pc = "look_up"
  BY NewRequest DEF AllOperations, Pc
<1>2. a \in Nat
  BY Amounts DEF CreateBegin
<1>3. r \in TxState /\ r.op = "create" /\ r.pc = "look_up" /\ r.inst = i /\ r.amount = a
  <2>1. i \in InstId \cup {None} /\ a \in Int
    BY <1>2
  <2>2. r \in TxState
    BY <1>1, <2>1 DEF TxState
  <2>3. r.op = q.op /\ r.pc = q.pc /\ r.inst = i /\ r.amount = a
    BY <1>1 DEF TxState
  <2> QED
    BY <1>1, <2>2, <2>3
<1>4. SessionMoves(t, r)
  BY <1>2, <1>3 DEF SessionMoves, CreateBegin, SessionOK, CreateOK
<1>5. TablesMove(t)
  BY SameTables DEF CreateBegin, PixInv, TypeOK
<1>6. tx[t].op \notin Transactions
  BY DEF CreateBegin, Idle, Transactions
<1> QED
  BY <1>4, <1>5, <1>6, GoesFree DEF CreateBegin

LEMMA CreateForInvoiceBeginInv ==
  ASSUME PixInv, NEW t \in Txn, CreateForInvoiceBegin(t)
  PROVE  PixInv'
<1> PICK q : q = Request("create_for_invoice", "look_up")
  OBVIOUS
<1> PICK r : r = [q EXCEPT !.amount = Remaining(invoice)]
  OBVIOUS
<1>1. q \in TxState /\ q.op = "create_for_invoice" /\ q.pc = "look_up" /\ q.inst = None
  BY NewRequest DEF AllOperations, Pc
<1>2. /\ r \in TxState /\ r.op = "create_for_invoice" /\ r.pc = "look_up"
      /\ r.inst = None /\ r.amount \in Nat
  BY <1>1, Amounts DEF TxState
<1>3. plan' = "completed"
  BY DEF CreateForInvoiceBegin, tables
<1>4. SessionMoves(t, r)
  BY <1>2, <1>3 DEF SessionMoves, CreateForInvoiceBegin, SessionOK, CreateForInvoiceOK
<1>5. TablesMove(t)
  BY SameTables DEF CreateForInvoiceBegin, PixInv, TypeOK
<1>6. tx[t].op \notin Transactions
  BY DEF CreateForInvoiceBegin, Idle, Transactions
<1> QED
  BY <1>4, <1>5, <1>6, GoesFree DEF CreateForInvoiceBegin

LEMMA LookUpInv ==
  ASSUME PixInv, NEW t \in Txn, LookUp(t)
  PROVE  PixInv'
<1> PICK q : q = tx[t]
  OBVIOUS
<1> PICK r : r = [q EXCEPT !.pc = "insert_charge"]
  OBVIOUS
<1>1. /\ q \in TxState /\ q.pc = "look_up"
      /\ \/ q.op = "create" /\ CreateOK(q)
         \/ q.op = "create_for_invoice" /\ CreateForInvoiceOK(q)
  BY Phases DEF LookUp
<1>2. /\ r \in TxState /\ r.op = q.op /\ r.pc = "insert_charge"
      /\ r.inst = q.inst /\ r.amount = q.amount
  BY <1>1 DEF TxState, Pc
<1>3. TablesMove(t)
  BY SameTables DEF LookUp, PixInv, TypeOK
<1>4. q.op \notin Transactions
  BY <1>1 DEF Transactions
<1>5. CASE tx' = [tx EXCEPT ![t] = r]
  <2>1. SessionOK(t, r)'
    BY <1>1, <1>2 DEF SessionOK, CreateOK, CreateForInvoiceOK, LookUp, tables
  <2> QED
    BY <1>2, <1>3, <1>4, <1>5, <2>1, GoesFree DEF LookUp, SessionMoves
<1>6. CASE tx' = [tx EXCEPT ![t] = Idle]
  BY <1>3, <1>4, <1>6, IdleOK, GoesFree DEF LookUp, SessionMoves
<1> QED
  BY <1>5, <1>6 DEF LookUp

LEMMA InsertChargeInv ==
  ASSUME PixInv, NEW t \in Txn, NEW c \in Charge, InsertCharge(t, c)
  PROVE  PixInv'
<1> PICK q : q = tx[t]
  OBVIOUS
<1> PICK r : r = [q EXCEPT !.pc = "mark_active"]
  OBVIOUS
<1> PICK new : new = [inst |-> q.inst, amount |-> q.amount, status |-> "pending", live |-> TRUE]
  OBVIOUS
<1>1. /\ q \in TxState /\ q.pc = "insert_charge"
      /\ \/ q.op = "create" /\ CreateOK(q)
         \/ q.op = "create_for_invoice" /\ CreateForInvoiceOK(q)
  BY Phases DEF InsertCharge
<1>2. /\ r \in TxState /\ r.op = q.op /\ r.pc = "mark_active"
      /\ r.inst = q.inst /\ r.amount = q.amount
  BY <1>1 DEF TxState, Pc
<1>3. q.inst \in InstId \cup {None} /\ q.amount \in Nat
  BY <1>1, <1>2 DEF CreateOK, CreateForInvoiceOK
<1>4. new \in ChargeRow /\ new.inst = q.inst
  <2>1. \A b \in BOOLEAN :
          [inst |-> q.inst, amount |-> q.amount, status |-> "pending", live |-> b] \in ChargeRow
    BY <1>3 DEF ChargeRow
  <2>2. TRUE \in BOOLEAN
    OBVIOUS
  <2> QED
    BY <2>1, <2>2
<1>5. /\ charges[c] = None /\ charges' = [charges EXCEPT ![c] = new]
      /\ q.inst # None => insts[q.inst] # None
      /\ UNCHANGED <<day, settled, invoice, plan, selections, insts, payments, events, locks>>
  BY DEF InsertCharge
<1>6. /\ charges' \in [Charge -> ChargeRow \cup {None}] /\ charges'[c] = new
      /\ \A d \in Charge : d # c => charges'[d] = charges[d]
  BY <1>4, <1>5 DEF PixInv, TypeOK
<1>7. Rows' = Rows /\ PaidRows' = PaidRows
  BY <1>5 DEF Rows, PaidRows
<1>8. TablesTyped' /\ PlanOK'
  BY <1>5, <1>6, <1>7 DEF TablesTyped, PixInv, TypeOK, PlanOK, Divided
<1>9. new # None
  <2>1. None \notin ChargeRow
    BY NoneRow
  <2> QED
    BY <1>4, <2>1
<1>10. ChargesGrow
  BY <1>5, <1>6 DEF ChargesGrow
<1>11. ChargesOK'
  <2>1. IF new.inst = None THEN plan = "completed" ELSE new.inst \in Rows
    BY <1>1, <1>3, <1>4, <1>5, NoneRow DEF CreateOK, CreateForInvoiceOK, Rows
  <2> QED
    BY <1>4, <1>5, <1>6, <1>7, <1>9, <2>1 DEF ChargesOK, PixInv, TypeOK
<1>12. PaymentsOK'
  <2>1. \A p \in payments : p.charge \in Charge
    BY DEF PixInv, TypeOK, Payment
  <2> QED
    BY <1>5, <1>6, <1>7, <2>1 DEF PaymentsOK, PixInv
<1>13. TablesMove(t)
  BY <1>5, <1>7, <1>8, <1>10, <1>11, <1>12 DEF TablesMove, Spared, PixInv, LocksOK
<1>14. q.op \notin Transactions
  BY <1>1 DEF Transactions
<1>15. CASE q.inst = None
  BY <1>5, <1>13, <1>14, <1>15, IdleOK, GoesFree DEF InsertCharge, SessionMoves
<1>16. CASE q.inst # None
  <2>1. q.op = "create" /\ CreateOK(q)
    BY <1>1, <1>16 DEF CreateForInvoiceOK
  <2>2. CreateOK(r)'
    BY <1>2, <1>4, <1>6, <1>9, <2>1 DEF CreateOK
  <2>3. SessionMoves(t, r)
    BY <1>2, <1>16, <2>1, <2>2 DEF InsertCharge, SessionMoves, SessionOK
  <2> QED
    BY <1>5, <1>13, <1>14, <2>3, GoesFree
<1> QED
  BY <1>15, <1>16


\* The status of an instalment moves, neither to nor from paid and scheduled, under
\* its lock; the invoice moves when nobody else has locked it.
Marks(t) ==
  /\ UNCHANGED <<day, settled, plan, selections, charges, payments, events>>
  /\ invoice' \in Invoice
  /\ \A s \in Txn \ {t} : Holds(s, InvoiceRow, "X") => invoice' = invoice
  /\ insts' \in [InstId -> Inst \cup {None}]
  /\ \A i \in InstId :
       \/ insts'[i] = insts[i]
       \/ /\ insts[i] \in Inst /\ insts'[i] \in Inst /\ insts'[i].amount = insts[i].amount
          /\ insts[i].status \notin {"paid", "scheduled"}
          /\ insts'[i].status \notin {"paid", "scheduled"}
          /\ \A s \in Txn \ {t} : ~Holds(s, InstRow(i), "X")

LEMMA MarksTables ==
  ASSUME PixInv, NEW t \in Txn, Marks(t)
  PROVE  TablesMove(t) /\ Rows' = Rows /\ PaidRows' = PaidRows
<1>1. \A i \in InstId :
        /\ insts'[i] = None <=> insts[i] = None
        /\ insts[i] # None => /\ insts'[i].status = "paid" <=> insts[i].status = "paid"
                              /\ insts'[i].status = "scheduled" <=> insts[i].status = "scheduled"
                              /\ insts'[i].amount = insts[i].amount
  BY NoneRow DEF Marks
<1>2. Rows' = Rows /\ PaidRows' = PaidRows
  <2>1. Rows' = Rows
    BY <1>1 DEF Rows
  <2>2. \A i \in Rows : insts'[i].status = "paid" <=> insts[i].status = "paid"
    BY <1>1 DEF Rows
  <2> QED
    BY <2>1, <2>2 DEF PaidRows
<1>3. TablesTyped'
  BY DEF Marks, TablesTyped, PixInv, TypeOK
<1>4. ChargesOK' /\ PaymentsOK' /\ ChargesGrow
  BY <1>2 DEF Marks, ChargesOK, PaymentsOK, ChargesGrow, PixInv
<1>5. PlanOK'
  <2>1. ASSUME NEW k, NEW n, Divided(k, n) PROVE Divided(k, n)'
    <3>1. \A i \in Rows : i \in InstId /\ insts[i] # None
      BY DEF Rows
    <3> QED
      BY <1>1, <1>2, <2>1, <3>1 DEF Divided, Marks
  <2> QED
    BY <1>2, <2>1 DEF PlanOK, Marks, PixInv
<1>6. \A s \in Txn \ {t} : Spared(s)
  BY <1>2 DEF Spared, Marks
<1> QED
  BY <1>2, <1>3, <1>4, <1>5, <1>6 DEF TablesMove, PixInv, LocksOK

LEMMA MarkActiveMarks ==
  ASSUME PixInv, NEW t \in Txn, MarkActive(t)
  PROVE  Marks(t) /\ invoice' = invoice
<1> PICK q : q = tx[t]
  OBVIOUS
<1> PICK i : i = q.inst
  OBVIOUS
<1>1. q.op = "create" /\ CreateOK(q) /\ q.pc = "mark_active"
  BY Phases DEF MarkActive
<1>2. i \in InstId /\ i \in Rows
  BY <1>1, NoneRow DEF CreateOK, PixInv, ChargesOK
<1>3. insts[i] \in Inst
  BY <1>2, Amounts
<1>4. \A s \in Txn \ {t} : ~Holds(s, InstRow(i), "X")
  BY Waits DEF MarkActive, InstRow
<1>5. UNCHANGED <<day, settled, plan, selections, charges, payments, events, invoice>>
  BY DEF MarkActive
<1>6. invoice \in Invoice /\ insts \in [InstId -> Inst \cup {None}]
  BY DEF PixInv, TypeOK
<1>7. CASE insts[i].status = "open"
  <2> PICK row : row = [insts[i] EXCEPT !.status = "pix_active"]
    OBVIOUS
  <2>1. row \in Inst /\ row.amount = insts[i].amount /\ row.status = "pix_active"
    BY <1>3 DEF Inst, InstStatus
  <2>2. insts' = [insts EXCEPT ![i] = row]
    BY <1>7 DEF MarkActive
  <2> QED
    BY <1>2, <1>3, <1>4, <1>5, <1>6, <1>7, <2>1, <2>2 DEF Marks
<1>8. CASE insts[i].status # "open"
  BY <1>5, <1>6, <1>8 DEF Marks, MarkActive
<1> QED
  BY <1>5, <1>7, <1>8

LEMMA MarkActiveInv ==
  ASSUME PixInv, NEW t \in Txn, MarkActive(t)
  PROVE  PixInv'
<1>1. tx[t].op = "create"
  BY Phases DEF MarkActive
<1>2. TablesMove(t)
  BY MarkActiveMarks, MarksTables
<1>3. SessionMoves(t, Idle) /\ locks' = locks
  BY IdleOK DEF SessionMoves, MarkActive
<1> QED
  BY <1>1, <1>2, <1>3, GoesFree DEF Transactions

LEMMA ChargeStepInv ==
  ASSUME PixInv, NEW t \in Txn, ChargeStep(t)
  PROVE  PixInv'
BY CreateBeginInv, CreateForInvoiceBeginInv, LookUpInv, InsertChargeInv, MarkActiveInv DEF ChargeStep

-------------------------------------------------------------------------------
(* The webhook.                                                              *)

LEMMA WebhookBeginInv ==
  ASSUME PixInv, NEW t \in Txn, NEW e \in Event, NEW c \in Charge, WebhookBegin(t, e, c)
  PROVE  PixInv'
<1> PICK q : q = Request("webhook", "lock_charge")
  OBVIOUS
<1> PICK r : r = [q EXCEPT !.event = e, !.charge = c]
  OBVIOUS
<1>1. q \in TxState /\ q.op = "webhook" /\ q.pc = "lock_charge"
  BY NewRequest DEF AllOperations, Pc
<1>2. r \in TxState
  BY <1>1 DEF TxState
<1>3. r.op = "webhook" /\ r.pc = "lock_charge" /\ r.event = e /\ r.charge = c
  BY <1>1 DEF TxState
<1>4. TablesMove(t)
  BY SameTables DEF WebhookBegin, PixInv, TypeOK
<1>5. LocksMove(t)
  BY OneLock, KnownRows DEF WebhookBegin, PixInv, TypeOK, EventRow, Mode
<1>6. Holds(t, EventRow(e), "X")'
  BY DEF WebhookBegin, WithLock, Holds, EventRow
<1>7. \A i \in InstId : Holds(t, InstRow(i), "X")' => Holds(t, InstRow(i), "X")
  BY DEF WebhookBegin, WithLock, Holds, InstRow
<1>8. charges'[c] # None /\ e \notin events'
  BY DEF WebhookBegin, PixInv, ChargesOK, tables
<1>9. SessionOK(t, r)'
  BY <1>3, <1>6, <1>8 DEF SessionOK, WebhookOK
<1>10. SessionMoves(t, r) /\ r.op \in Transactions
  BY <1>2, <1>3, <1>9 DEF SessionMoves, WebhookBegin, Transactions
<1>11. Rows' = Rows
  BY DEF Rows, WebhookBegin, tables
<1> QED
  BY <1>4, <1>5, <1>7, <1>10, <1>11, Goes

\* A statement of the webhook that locks rows and moves on.
Locks(t, r) ==
  /\ UNCHANGED <<day, settled, tables>>
  /\ LocksMove(t) /\ locks \subseteq locks'
  /\ r \in TxState /\ tx' = [tx EXCEPT ![t] = r] /\ r.op = "webhook"

LEMMA WebhookGoes ==
  ASSUME PixInv, NEW t \in Txn, NEW r, Locks(t, r), WebhookOK(t, r)',
         \A i \in InstId : Holds(t, InstRow(i), "X")' => Holds(t, InstRow(i), "X") \/ i \in Rows
  PROVE  PixInv'
<1>1. TablesMove(t)
  BY SameTables DEF Locks, PixInv, TypeOK
<1>2. Rows' = Rows
  BY DEF Rows, Locks, tables
<1>3. SessionMoves(t, r) /\ r.op \in Transactions
  BY DEF Locks, SessionMoves, SessionOK, Transactions
<1> QED
  BY <1>1, <1>2, <1>3, Goes DEF Locks

\* What the webhook knew of its event and its charge stays true.
LEMMA WebhookKnows ==
  ASSUME PixInv, NEW t \in Txn, NEW q, q = tx[t], q.op = "webhook", NEW r, Locks(t, r),
         r.event = q.event, r.charge = q.charge
  PROVE  /\ r.charge \in Charge /\ charges'[r.charge] # None
         /\ r.event \in Event /\ Holds(t, EventRow(r.event), "X")' /\ r.event \notin events'
         /\ charges' = charges /\ insts' = insts /\ insts \in [InstId -> Inst \cup {None}]
         /\ \A row \in Row : Holds(t, row, "X") => Holds(t, row, "X")'
<1>1. WebhookOK(t, q)
  BY DEF PixInv, SessionsOK, SessionOK
<1>2. charges' = charges /\ insts' = insts /\ events' = events
  BY DEF Locks, tables
<1>3. \A row \in Row : Holds(t, row, "X") => Holds(t, row, "X")'
  BY DEF Locks, Holds
<1> QED
  BY <1>1, <1>2, <1>3, KnownRows DEF WebhookOK, PixInv, TypeOK

LEMMA LockChargeInv ==
  ASSUME PixInv, NEW t \in Txn, LockCharge(t)
  PROVE  PixInv'
<1> PICK q : q = tx[t]
  OBVIOUS
<1> PICK ch : ch = charges[q.charge]
  OBVIOUS
<1>0. PICK r : r = [q EXCEPT !.pc = "insert_payment", !.inst = ch.inst, !.amount = ch.amount]
  OBVIOUS
<1>1. q \in TxState /\ q.op = "webhook" /\ WebhookOK(t, q) /\ q.pc = "lock_charge"
  BY Phases DEF LockCharge
<1>2. ch \in ChargeRow
  BY <1>1, Amounts DEF WebhookOK
<1>3. ch.inst \in InstId \cup {None} /\ ch.amount \in Int
  BY <1>2 DEF ChargeRow
<1>4. r \in TxState
  BY ZenonT(40), <1>0, <1>1, <1>3 DEF TxState, Pc
<1>5. /\ r.op = "webhook" /\ r.pc = "insert_payment" /\ r.inst = ch.inst /\ r.amount = ch.amount
      /\ r.event = q.event /\ r.charge = q.charge
  BY <1>0, <1>1 DEF TxState
<1>6. tx' = [tx EXCEPT ![t] = r]
  BY <1>0, <1>1 DEF LockCharge, PixInv, TypeOK, TxState
<1>7. LocksMove(t) /\ locks \subseteq locks'
  <2>1. q.charge \in Charge
    BY <1>1 DEF WebhookOK
  <2> QED
    BY <2>1, OneLock, KnownRows DEF LockCharge, PixInv, TypeOK, Mode, WithLock
<1>8. Locks(t, r)
  BY <1>4, <1>5, <1>6, <1>7 DEF Locks, LockCharge
<1>9. WebhookOK(t, r)'
  <2>1. /\ r.charge \in Charge /\ charges'[r.charge] # None
        /\ r.event \in Event /\ Holds(t, EventRow(r.event), "X")' /\ r.event \notin events'
        /\ charges' = charges
    BY <1>1, <1>5, <1>8, WebhookKnows
  <2> QED
    BY <1>5, <2>1 DEF WebhookOK
<1>10. \A i \in InstId : Holds(t, InstRow(i), "X")' => Holds(t, InstRow(i), "X")
  BY DEF LockCharge, WithLock, Holds, InstRow
<1> QED
  BY <1>8, <1>9, <1>10, WebhookGoes


LEMMA InsertPaymentInv ==
  ASSUME PixInv, NEW t \in Txn, InsertPayment(t)
  PROVE  PixInv'
<1> PICK q : q = tx[t]
  OBVIOUS
<1>0. PICK r : r = [q EXCEPT !.pc = IF q.inst = None THEN "lock_invoice" ELSE "lock_inst"]
  OBVIOUS
<1>1. q \in TxState /\ q.op = "webhook" /\ WebhookOK(t, q) /\ q.pc = "insert_payment"
  BY Phases DEF InsertPayment
<1>2. r \in TxState
  BY <1>0, <1>1 DEF TxState, Pc
<1>3. /\ r.op = q.op /\ r.event = q.event /\ r.charge = q.charge
      /\ r.inst = q.inst /\ r.amount = q.amount
      /\ r.pc = IF q.inst = None THEN "lock_invoice" ELSE "lock_inst"
  BY <1>0, <1>1 DEF TxState
<1>4. tx' = [tx EXCEPT ![t] = r]
  BY <1>0 DEF InsertPayment
<1>5. PICK rows : /\ rows = {<<"invoice", None>>} \cup
                               (IF q.inst = None THEN {} ELSE {<<"inst", q.inst>>})
                  /\ \A row \in rows : CanLock(t, row, "S")
                  /\ locks' = locks \cup {[row |-> row, tx |-> t, mode |-> "S"] : row \in rows}
  BY DEF InsertPayment
<1> PICK L : L = {[row |-> row, tx |-> t, mode |-> "S"] : row \in rows}
  OBVIOUS
<1>6. rows \subseteq Row
  <2>1. q.inst \in InstId \cup {None}
    BY <1>1 DEF TxState
  <2> QED
    BY <1>5, <2>1, KnownRows DEF InvoiceRow, InstRow
<1>7. L \subseteq LocksOn(Row) /\ \A l \in L : l.tx = t /\ l.mode = "S" /\ CanLock(t, l.row, l.mode)
  BY <1>5, <1>6 DEF LocksOn, Mode
<1>8. LocksMove(t) /\ locks \subseteq locks'
  BY <1>5, <1>7, MoreLocks DEF PixInv, TypeOK
<1>9. Locks(t, r)
  BY <1>1, <1>2, <1>3, <1>4, <1>8 DEF Locks, InsertPayment
<1>10. WebhookOK(t, r)'
  <2>1. /\ r.charge \in Charge /\ charges'[r.charge] # None
        /\ r.event \in Event /\ Holds(t, EventRow(r.event), "X")' /\ r.event \notin events'
        /\ charges' = charges
    BY <1>1, <1>3, <1>9, WebhookKnows
  <2> QED
    BY <1>1, <1>3, <2>1 DEF WebhookOK
<1>11. \A i \in InstId : Holds(t, InstRow(i), "X")' => Holds(t, InstRow(i), "X")
  BY <1>5, <1>7 DEF Holds
<1> QED
  BY <1>9, <1>10, <1>11, WebhookGoes

LEMMA LockInstInv ==
  ASSUME PixInv, NEW t \in Txn, LockInst(t)
  PROVE  PixInv'
<1> PICK q : q = tx[t]
  OBVIOUS
<1>0. PICK r : r = [q EXCEPT !.pc = "lock_plan"]
  OBVIOUS
<1>1. q \in TxState /\ q.op = "webhook" /\ WebhookOK(t, q) /\ q.pc = "lock_inst"
  BY Phases DEF LockInst
<1>2. r \in TxState
  BY <1>0, <1>1 DEF TxState, Pc
<1>3. /\ r.op = q.op /\ r.event = q.event /\ r.charge = q.charge
      /\ r.inst = q.inst /\ r.amount = q.amount /\ r.pc = "lock_plan"
  BY <1>0, <1>1 DEF TxState
<1>4. tx' = [tx EXCEPT ![t] = r]
  BY <1>0 DEF LockInst
<1>5. q.inst \in InstId
  BY <1>1 DEF WebhookOK, TxState
<1>6. LocksMove(t) /\ locks \subseteq locks' /\ Holds(t, InstRow(q.inst), "X")'
  <2>1. LocksMove(t)
    BY <1>5, OneLock, KnownRows DEF LockInst, PixInv, TypeOK, Mode, InstRow
  <2> QED
    BY <2>1 DEF LockInst, WithLock, Holds, InstRow
<1>7. Locks(t, r)
  BY <1>1, <1>2, <1>3, <1>4, <1>6 DEF Locks, LockInst
<1>8. Payable(q)
  BY DEF LockInst
<1>9. q.inst \in Rows
  <2>1. charges[q.charge].inst = q.inst /\ charges[q.charge] # None /\ q.charge \in Charge
    BY <1>1 DEF WebhookOK
  <2> QED
    BY <1>5, <2>1, NoneRow DEF PixInv, ChargesOK
<1>10. WebhookOK(t, r)'
  <2>1. /\ r.charge \in Charge /\ charges'[r.charge] # None
        /\ r.event \in Event /\ Holds(t, EventRow(r.event), "X")' /\ r.event \notin events'
        /\ charges' = charges /\ insts' = insts
    BY <1>1, <1>3, <1>7, WebhookKnows
  <2>2. Payable(r)'
    BY <1>3, <1>8, <2>1 DEF Payable
  <2>3. r.inst # None
    BY <1>3, <1>5, NoneRow
  <2> QED
    BY <1>1, <1>3, <1>6, <2>1, <2>2, <2>3 DEF WebhookOK
<1>11. \A i \in InstId : Holds(t, InstRow(i), "X")' => Holds(t, InstRow(i), "X") \/ i \in Rows
  BY <1>9 DEF LockInst, WithLock, Holds, InstRow
<1> QED
  BY <1>7, <1>10, <1>11, WebhookGoes

LEMMA LockInvoiceInv ==
  ASSUME PixInv, NEW t \in Txn, LockInvoice(t)
  PROVE  PixInv'
<1> PICK q : q = tx[t]
  OBVIOUS
<1>0. PICK r : r = [q EXCEPT !.pc = "commit"]
  OBVIOUS
<1>1. q \in TxState /\ q.op = "webhook" /\ WebhookOK(t, q) /\ q.pc = "lock_invoice"
  BY Phases DEF LockInvoice
<1>2. r \in TxState
  BY <1>0, <1>1 DEF TxState, Pc
<1>3. /\ r.op = q.op /\ r.event = q.event /\ r.charge = q.charge
      /\ r.inst = q.inst /\ r.amount = q.amount /\ r.pc = "commit"
  BY <1>0, <1>1 DEF TxState
<1>4. tx' = [tx EXCEPT ![t] = r]
  BY <1>0 DEF LockInvoice
<1>5. LocksMove(t) /\ locks \subseteq locks' /\ Holds(t, InvoiceRow, "X")'
  <2>1. LocksMove(t)
    BY OneLock, KnownRows DEF LockInvoice, PixInv, TypeOK, Mode, InvoiceRow
  <2> QED
    BY <2>1 DEF LockInvoice, WithLock, Holds, InvoiceRow
<1>6. Locks(t, r)
  BY <1>1, <1>2, <1>3, <1>4, <1>5 DEF Locks, LockInvoice
<1>7. WebhookOK(t, r)'
  <2>1. /\ r.charge \in Charge /\ charges'[r.charge] # None
        /\ r.event \in Event /\ Holds(t, EventRow(r.event), "X")' /\ r.event \notin events'
        /\ charges' = charges /\ insts' = insts
        /\ \A row \in Row : Holds(t, row, "X") => Holds(t, row, "X")'
    BY <1>1, <1>3, <1>6, WebhookKnows
  <2>2. r.inst \in InstId \cup {None}
    BY <1>2 DEF TxState
  <2>3. r.inst # None => Payable(r)' /\ Holds(t, InstRow(r.inst), "X")' /\ Holds(t, PlanRow, "X")'
    BY <1>1, <1>3, <2>1, <2>2, KnownRows DEF Payable, WebhookOK
  <2> QED
    BY <1>1, <1>3, <1>5, <2>1, <2>3 DEF WebhookOK
<1>8. \A i \in InstId : Holds(t, InstRow(i), "X")' => Holds(t, InstRow(i), "X")
  BY DEF LockInvoice, WithLock, Holds, InstRow
<1> QED
  BY <1>6, <1>7, <1>8, WebhookGoes


\* The row of payments that the webhook writes.
PaymentOf(q) == [event |-> q.event, charge |-> q.charge, inst |-> q.inst, amount |-> q.amount]

\* What either way of applying a payment writes of it.
LEMMA RecordedOnce ==
  ASSUME PixInv, NEW t \in Txn, NEW q, q \in TxState, WebhookOK(t, q), q.pc = "commit",
         RecordPayment(q)
  PROVE  /\ charges' \in [Charge -> ChargeRow \cup {None}] /\ ChargesGrow
         /\ \A c \in Charge : charges[c] = None => charges'[c] = None
         /\ q.amount \in Nat
         /\ payments' = payments \cup {PaymentOf(q)} /\ payments' \subseteq Payment
         /\ events' = events \cup {q.event} /\ events' \subseteq Event
         /\ events' = {p.event : p \in payments'}
         /\ \A p, r \in payments' : p.event = r.event => p = r
         /\ \A p \in payments' : charges'[p.charge] # None /\ charges'[p.charge].inst = p.inst
         /\ \A s \in Txn \ {t}, e \in Event :
              Holds(s, EventRow(e), "X") /\ e \in events' => e \in events
<1> PICK c : c = q.charge
  OBVIOUS
<1> PICK ch : ch = charges[c]
  OBVIOUS
<1>0. PICK new : new = [ch EXCEPT !.status = "paid"]
  OBVIOUS
<1> PICK p : p = PaymentOf(q)
  OBVIOUS
<1>1. /\ c \in Charge /\ ch # None /\ ch.inst = q.inst /\ ch.amount = q.amount
      /\ q.event \in Event /\ q.event \notin events /\ Holds(t, EventRow(q.event), "X")
  BY DEF WebhookOK
<1>2. ch \in ChargeRow
  BY <1>1, Amounts
<1>3. new \in ChargeRow
  BY <1>0, <1>2 DEF ChargeRow
<1>4. new.inst = ch.inst /\ new.amount = ch.amount
  BY <1>0, <1>2 DEF ChargeRow
<1>5. charges' = [charges EXCEPT ![c] = new]
  BY <1>0 DEF RecordPayment
<1>6. /\ charges' \in [Charge -> ChargeRow \cup {None}] /\ charges'[c] = new
      /\ \A d \in Charge : d # c => charges'[d] = charges[d]
  BY <1>1, <1>3, <1>5 DEF PixInv, TypeOK
<1>7. new # None
  BY <1>3, NoneRow
<1>8. ChargesGrow /\ \A d \in Charge : charges[d] = None => charges'[d] = None
  BY <1>1, <1>4, <1>6, <1>7 DEF ChargesGrow
<1>9. /\ p.event = q.event /\ p.charge = c /\ p.inst = q.inst /\ p.amount = q.amount
      /\ p \in Payment /\ q.amount \in Nat
  <2>1. q.amount \in Nat /\ q.inst \in InstId \cup {None}
    BY <1>1, <1>2 DEF ChargeRow
  <2> QED
    BY <1>1, <2>1 DEF PaymentOf, Payment
<1>10. payments' = payments \cup {p} /\ events' = events \cup {q.event}
  BY DEF RecordPayment, PaymentOf
<1>11. payments' \subseteq Payment /\ events' \subseteq Event
  BY <1>1, <1>9, <1>10 DEF PixInv, TypeOK
<1>12. events' = {x.event : x \in payments'}
  BY <1>9, <1>10 DEF PixInv, PaymentsOK
<1>13. \A x, y \in payments' : x.event = y.event => x = y
  <2>1. \A x \in payments : x.event \in events /\ x.event # p.event
    BY <1>1, <1>9 DEF PixInv, PaymentsOK
  <2> QED
    BY <1>10, <2>1 DEF PixInv, PaymentsOK
<1>14. \A x \in payments' : charges'[x.charge] # None /\ charges'[x.charge].inst = x.inst
  <2>1. \A x \in payments : x.charge \in Charge
    BY DEF PixInv, TypeOK, Payment
  <2>2. \A x \in payments : charges'[x.charge] # None /\ charges'[x.charge].inst = x.inst
    BY <1>8, <2>1 DEF PixInv, PaymentsOK, ChargesGrow
  <2>3. charges'[p.charge] # None /\ charges'[p.charge].inst = p.inst
    BY <1>1, <1>4, <1>6, <1>7, <1>9
  <2> QED
    BY <1>10, <2>2, <2>3
<1>15. \A s \in Txn \ {t}, e \in Event : Holds(s, EventRow(e), "X") /\ e \in events' => e \in events
  BY <1>1, <1>10, Excludes DEF PixInv
<1> QED
  BY <1>6, <1>8, <1>9, <1>10, <1>11, <1>12, <1>13, <1>14, <1>15

LEMMA CommitInvoicePaymentTables ==
  ASSUME PixInv, NEW t \in Txn, CommitInvoicePayment(t)
  PROVE  TablesMove(t) /\ Rows' = Rows /\ PaidRows' = PaidRows
<1> PICK q : q = tx[t]
  OBVIOUS
<1>1. q \in TxState /\ WebhookOK(t, q) /\ q.pc = "commit" /\ q.inst = None /\ RecordPayment(q)
  BY DEF CommitInvoicePayment, PixInv, TypeOK, SessionsOK, SessionOK
<1>2. /\ charges' \in [Charge -> ChargeRow \cup {None}] /\ ChargesGrow
      /\ \A c \in Charge : charges[c] = None => charges'[c] = None
      /\ q.amount \in Nat
      /\ payments' = payments \cup {PaymentOf(q)} /\ payments' \subseteq Payment
      /\ events' \subseteq Event /\ events' = {p.event : p \in payments'}
      /\ \A p, r \in payments' : p.event = r.event => p = r
      /\ \A p \in payments' : charges'[p.charge] # None /\ charges'[p.charge].inst = p.inst
      /\ \A s \in Txn \ {t}, e \in Event :
           Holds(s, EventRow(e), "X") /\ e \in events' => e \in events
  BY <1>1, RecordedOnce
<1>3. UNCHANGED <<day, settled, plan, selections, insts>>
  BY DEF CommitInvoicePayment
<1>4. Rows' = Rows /\ PaidRows' = PaidRows
  BY <1>3 DEF Rows, PaidRows
<1>5. invoice' \in Invoice
  <2> PICK v : v = invoice
    OBVIOUS
  <2> PICK paid : paid = v.paid + q.amount
    OBVIOUS
  <2> PICK status : status = IF paid >= v.total THEN "paid" ELSE v.status
    OBVIOUS
  <2>1. v \in Invoice
    BY DEF PixInv, TypeOK
  <2>2. paid \in Nat /\ status \in {"open", "partially_paid", "paid", "overdue"}
    BY <1>2, <2>1 DEF Invoice
  <2>3. invoice' = [v EXCEPT !.paid = paid, !.status = status]
    BY <2>1 DEF CommitInvoicePayment, Invoice
  <2> QED
    BY <2>1, <2>2, <2>3 DEF Invoice
<1>6. TablesTyped' /\ PlanOK'
  BY <1>2, <1>3, <1>4, <1>5 DEF TablesTyped, PixInv, TypeOK, PlanOK, Divided
<1>7. ChargesOK'
  BY <1>2, <1>3, <1>4 DEF ChargesOK, PixInv, ChargesGrow, TypeOK
<1>8. PaymentsOK'
  <2>1. PaymentOf(q).inst = None
    BY <1>1 DEF PaymentOf
  <2> QED
    BY <1>2, <1>4, <2>1 DEF PaymentsOK, PixInv
<1>9. \A s \in Txn \ {t} : ~Holds(s, InvoiceRow, "X")
  BY <1>1, Excludes DEF WebhookOK, PixInv
<1>10. \A s \in Txn \ {t} : Spared(s) /\ \A i \in InstId : Holds(s, InstRow(i), "X") => i \in Rows'
  BY <1>2, <1>3, <1>4, <1>9 DEF Spared, PixInv, LocksOK
<1> QED
  BY <1>2, <1>4, <1>6, <1>7, <1>8, <1>10 DEF TablesMove


\* The instalment that a webhook pays is the first not paid.
LEMMA PaysTheNext ==
  ASSUME PixInv, NEW t \in Txn, NEW q, q = tx[t], q \in TxState, WebhookOK(t, q), q.pc = "commit",
         q.inst # None
  PROVE  /\ q.inst \in Rows /\ insts[q.inst] \in Inst /\ insts[q.inst].status \in {"open", "pix_active"}
         /\ q.amount = insts[q.inst].amount
         /\ \E k \in Number : k \in Nat /\ q.inst.number <= k /\ Divided(k, q.inst.number)
<1>1. q.inst \in InstId /\ Holds(t, InstRow(q.inst), "X") /\ Payable(q)
  BY DEF WebhookOK, TxState
<1>2. q.inst \in Rows
  BY <1>1 DEF PixInv, LocksOK
<1>3. insts[q.inst] \in Inst
  BY <1>2, Amounts
<1>4. insts[q.inst].status \in {"open", "pix_active"} /\ q.amount = insts[q.inst].amount
  BY <1>1 DEF Payable, Left
<1>5. PICK k \in Number : \E n \in 1 .. k + 1 : Divided(k, n)
  BY <1>2 DEF PixInv, PlanOK
<1>6. PICK n \in 1 .. k + 1 : Divided(k, n)
  BY <1>5
<1>7. k \in Nat /\ n \in Nat /\ q.inst.number \in Nat
  BY <1>1 DEF Number, InstId
<1>8. q.inst.number <= k /\ q.inst.number = n
  BY <1>1, <1>2, <1>4, <1>6, <1>7 DEF Divided
<1> QED
  BY <1>2, <1>3, <1>4, <1>6, <1>7, <1>8

LEMMA CommitInstallmentTables ==
  ASSUME PixInv, NEW t \in Txn, CommitInstallment(t)
  PROVE  /\ TablesMove(t) /\ Rows' = Rows /\ PaidRows' = PaidRows \cup {tx[t].inst}
         /\ tx[t].inst \in Rows \ PaidRows
         /\ \A i \in Rows : insts'[i].amount = insts[i].amount
<1> PICK q : q = tx[t]
  OBVIOUS
<1> PICK i : i = q.inst
  OBVIOUS
<1>0. PICK next, paid, opens, left :
        /\ next = [i EXCEPT !.number = @ + 1]
        /\ paid = [insts EXCEPT ![i].status = "paid"]
        /\ opens \in BOOLEAN
        /\ opens <=> next \in InstId /\ insts[next] # None /\ insts[next].status = "scheduled"
        /\ left = Unpaid(paid)
  OBVIOUS
<1>1. q \in TxState /\ WebhookOK(t, q) /\ q.pc = "commit" /\ i # None /\ RecordPayment(q)
  BY DEF CommitInstallment, PixInv, TypeOK, SessionsOK, SessionOK
<1>2. /\ i \in Rows /\ insts[i] \in Inst /\ insts[i].status \in {"open", "pix_active"}
      /\ \E k \in Number : k \in Nat /\ i.number <= k /\ Divided(k, i.number)
  BY <1>1, PaysTheNext
<1>3. PICK k \in Number : k \in Nat /\ i.number <= k /\ Divided(k, i.number)
  BY <1>2
<1>4. i \in InstId /\ i.number \in Nat /\ i.number >= 1 /\ i.plan = selections
  BY <1>2, <1>3 DEF Rows, InstId, Number, Divided
<1>5. next.number = i.number + 1 /\ next.plan = selections
  BY <1>0, <1>4 DEF InstId
<1>6. i.number < k => next \in InstId /\ next \in Rows
  <2> SUFFICES ASSUME i.number < k PROVE next \in InstId /\ next \in Rows
    OBVIOUS
  <2>1. i.number + 1 \in Number
    BY <1>3, <1>4, PixAssumption DEF Number
  <2>2. next \in InstId
    BY <1>0, <1>4, <2>1 DEF InstId
  <2>3. i.number + 1 <= k
    BY <1>3, <1>4
  <2> QED
    BY <1>3, <1>5, <2>2, <2>3 DEF Divided
<1>7. opens <=> i.number < k
  <2>1. ASSUME i.number < k PROVE opens
    <3>1. insts[next] # None /\ insts[next].status = "scheduled"
      BY <1>3, <1>4, <1>5, <1>6, <2>1 DEF Divided, Rows
    <3> QED
      BY <1>0, <1>6, <2>1, <3>1
  <2>2. ASSUME opens PROVE i.number < k
    <3>1. next \in Rows
      BY <1>0, <2>2 DEF Rows
    <3>2. next.number <= k
      BY <1>0, <1>3, <2>2, <3>1 DEF Divided
    <3> QED
      BY <1>3, <1>4, <1>5, <3>2
  <2> QED
    BY <2>1, <2>2
<1>8. /\ UNCHANGED <<day, settled, selections>>
      /\ insts' = IF opens THEN [paid EXCEPT ![next].status = "open"] ELSE paid
      /\ plan' = IF left = {} THEN "completed" ELSE plan
      /\ opens => CanLock(t, InstRow(next), "X")
  BY <1>0 DEF CommitInstallment, InstRow
<1>9. next # i
  BY <1>4, <1>5
<1>10. /\ paid \in [InstId -> Inst \cup {None}]
       /\ paid[i] \in Inst /\ paid[i].status = "paid" /\ paid[i].amount = insts[i].amount
       /\ \A j \in InstId : j # i => paid[j] = insts[j]
  <2>1. PICK row : row = [insts[i] EXCEPT !.status = "paid"]
    OBVIOUS
  <2>2. row \in Inst /\ row.status = "paid" /\ row.amount = insts[i].amount
    BY <1>2, <2>1 DEF Inst, InstStatus
  <2>3. paid = [insts EXCEPT ![i] = row]
    BY <1>0, <2>1
  <2> QED
    BY <1>4, <2>2, <2>3 DEF PixInv, TypeOK
<1>11. /\ insts' \in [InstId -> Inst \cup {None}]
       /\ insts'[i] \in Inst /\ insts'[i].status = "paid" /\ insts'[i].amount = insts[i].amount
       /\ opens => /\ insts'[next] \in Inst /\ insts'[next].status = "open"
                   /\ insts'[next].amount = insts[next].amount
       /\ \A j \in InstId : j # i /\ (opens => j # next) => insts'[j] = insts[j]
  <2>1. CASE opens
    <3>1. PICK row : row = [paid[next] EXCEPT !.status = "open"]
      OBVIOUS
    <3>2. next \in InstId /\ insts[next] # None /\ paid[next] = insts[next]
      BY <1>0, <1>9, <1>10, <2>1
    <3>3. paid[next] \in Inst
      BY <1>10, <3>2
    <3>4. row \in Inst /\ row.status = "open" /\ row.amount = insts[next].amount
      BY <3>1, <3>2, <3>3 DEF Inst, InstStatus
    <3>5. insts' = [paid EXCEPT ![next] = row]
      BY <1>8, <2>1, <3>1
    <3> QED
      BY <1>4, <1>9, <1>10, <2>1, <3>2, <3>4, <3>5
  <2>2. CASE ~opens
    BY <1>8, <1>10, <2>2
  <2> QED
    BY <1>0, <2>1, <2>2
<1>12. Rows' = Rows
  <2>1. \A j \in InstId : insts'[j] = None <=> insts[j] = None
    BY <1>0, <1>2, <1>11, NoneRow
  <2> QED
    BY <2>1 DEF Rows
<1>13. \A j \in Rows : insts'[j].amount = insts[j].amount
  BY <1>11 DEF Rows
<1>14. \A j \in Rows : /\ insts'[j].status = "paid" <=> j.number < i.number + 1
                       /\ insts'[j].status = "scheduled" <=> j.number > i.number + 1
  <2> SUFFICES ASSUME NEW j \in Rows
               PROVE  /\ insts'[j].status = "paid" <=> j.number < i.number + 1
                      /\ insts'[j].status = "scheduled" <=> j.number > i.number + 1
    OBVIOUS
  <2>1. j \in InstId /\ j.number \in Nat /\ j.plan = selections /\ j.number <= k
    BY <1>3 DEF Rows, InstId, Number, Divided
  <2>2. j = i <=> j.number = i.number
    BY <1>4, <2>1 DEF InstId
  <2>3. CASE j.number = i.number
    BY <1>4, <1>11, <2>2, <2>3
  <2>4. CASE j.number = i.number + 1
    <3>1. opens
      BY <1>3, <1>4, <1>7, <2>1, <2>4
    <3>2. j = next
      BY <1>0, <1>4, <1>5, <2>1, <2>4, <3>1 DEF InstId
    <3> QED
      BY <1>4, <1>11, <2>4, <3>1, <3>2
  <2>5. CASE j.number # i.number /\ j.number # i.number + 1
    <3>1. insts'[j] = insts[j]
      BY <1>5, <1>11, <2>1, <2>2, <2>5
    <3>2. /\ insts[j].status = "paid" <=> j.number < i.number
          /\ insts[j].status = "scheduled" <=> j.number > i.number
      BY <1>3 DEF Divided
    <3> QED
      BY <1>4, <2>1, <2>5, <3>1, <3>2
  <2> QED
    BY <2>3, <2>4, <2>5
<1>15. \A j \in InstId : j \in left <=> j \in Rows /\ j.number > i.number
  <2>1. \A j \in InstId : j \in left <=> paid[j] # None /\ paid[j].status # "paid"
    BY <1>0 DEF Unpaid
  <2>2. \A j \in Rows : j \in InstId /\ insts[j] # None /\ j.number \in Nat
    BY DEF Rows, InstId, Number
  <2>3. \A j \in Rows : insts[j].status = "paid" <=> j.number < i.number
    BY <1>3 DEF Divided
  <2>4. \A j \in Rows : j.number = i.number => j = i
    BY <1>3, <1>4 DEF Divided, Rows, InstId
  <2> QED
    BY <1>4, <1>10, <2>1, <2>2, <2>3, <2>4 DEF Rows
<1>16. left = {} <=> i.number = k
  <2>1. ASSUME i.number < k PROVE left # {}
    BY <1>4, <1>5, <1>6, <1>15, <2>1
  <2>2. ASSUME i.number = k PROVE left = {}
    <3>1. left \subseteq InstId
      BY <1>0 DEF Unpaid
    <3>2. \A j \in Rows : j.number \in Nat /\ j.number <= k
      BY <1>3 DEF Rows, InstId, Number, Divided
    <3> QED
      BY <1>4, <1>15, <2>2, <3>1, <3>2
  <2> QED
    BY <1>3, <1>4, <2>1, <2>2
<1>17. plan' = IF i.number = k THEN "completed" ELSE "active"
  BY <1>3, <1>4, <1>8, <1>16 DEF Divided
<1>18. PlanOK'
  <2>1. Divided(k, i.number + 1)'
    <3>1. i.number + 1 = k + 1 <=> i.number = k
      BY <1>3, <1>4
    <3>2. selections' >= 1 /\ plan' = IF i.number + 1 = k + 1 THEN "completed" ELSE "active"
      BY <1>3, <1>8, <1>17, <3>1 DEF Divided
    <3>3. \A j \in InstId : j \in Rows' <=> j.plan = selections' /\ j.number <= k
      BY <1>3, <1>8, <1>12 DEF Divided
    <3>4. \A j \in Rows' : insts'[j].amount > 0
      BY <1>3, <1>12, <1>13 DEF Divided
    <3>5. \A j \in Rows' : /\ j.number < i.number + 1 <=> insts'[j].status = "paid"
                           /\ j.number > i.number + 1 <=> insts'[j].status = "scheduled"
      BY <1>12, <1>14
    <3> QED
      BY <3>2, <3>3, <3>4, <3>5 DEF Divided
  <2>2. i.number + 1 \in 1 .. k + 1
    BY <1>3, <1>4
  <2> QED
    BY <1>3, <1>17, <2>1, <2>2 DEF PlanOK
<1>19. PaidRows' = PaidRows \cup {i} /\ i \notin PaidRows
  <2>1. \A j \in Rows : insts[j].status = "paid" <=> j.number < i.number
    BY <1>3 DEF Divided
  <2>2. \A j \in Rows : j.number \in Nat /\ (j.number = i.number => j = i)
    BY <1>3, <1>4 DEF Divided, Rows, InstId, Number
  <2>3. \A j \in Rows : insts'[j].status = "paid" <=> insts[j].status = "paid" \/ j = i
    <3> SUFFICES ASSUME NEW j \in Rows
                 PROVE  insts'[j].status = "paid" <=> insts[j].status = "paid" \/ j = i
      OBVIOUS
    <3>1. insts'[j].status = "paid" <=> j.number < i.number + 1
      BY <1>14
    <3>2. j.number < i.number + 1 <=> j.number < i.number \/ j = i
      BY <1>4, <2>2
    <3> QED
      BY <2>1, <3>1, <3>2
  <2> QED
    BY <1>2, <1>12, <2>3 DEF PaidRows
<1>20. ChargesOK' /\ PaymentsOK' /\ ChargesGrow
  <2>1. /\ charges' \in [Charge -> ChargeRow \cup {None}] /\ ChargesGrow
        /\ \A c \in Charge : charges[c] = None => charges'[c] = None
        /\ payments' = payments \cup {PaymentOf(q)}
        /\ events' = {p.event : p \in payments'}
        /\ \A p, r \in payments' : p.event = r.event => p = r
        /\ \A p \in payments' : charges'[p.charge] # None /\ charges'[p.charge].inst = p.inst
    BY <1>1, RecordedOnce
  <2>2. PaymentOf(q).inst = i
    BY DEF PaymentOf
  <2>3. ChargesOK'
    <3>1. plan # "completed"
      BY <1>3, <1>4 DEF Divided
    <3>2. \A c \in settled : c \in Charge /\ charges[c] # None
      BY DEF PixInv, TypeOK, ChargesOK
    <3>3. \A c \in Charge : charges[c] # None => charges[c].inst # None /\ charges[c].inst \in Rows
      BY <3>1 DEF PixInv, ChargesOK
    <3> QED
      BY <1>8, <1>12, <2>1, <3>2, <3>3 DEF ChargesOK, ChargesGrow
  <2>4. \A p \in payments' : p.inst # None => p.inst \in PaidRows'
    BY <1>19, <2>1, <2>2 DEF PixInv, PaymentsOK
  <2>5. \A p \in payments : p.inst # i
    BY <1>1, <1>19 DEF PixInv, PaymentsOK
  <2>6. \A p, r \in payments' : p.inst = r.inst /\ p.inst # None => p = r
    BY <2>1, <2>2, <2>5 DEF PixInv, PaymentsOK
  <2>7. \A j \in PaidRows' : \E p \in payments' : p.inst = j
    BY <1>19, <2>1, <2>2 DEF PixInv, PaymentsOK
  <2> QED
    BY <2>1, <2>3, <2>4, <2>6, <2>7 DEF PaymentsOK
<1>21. invoice' \in Invoice
  <2> PICK v : v = invoice
    OBVIOUS
  <2>0. PICK money, status, due :
          /\ money = v.paid + q.amount
          /\ status = IF money >= v.total THEN "paid" ELSE "partially_paid"
          /\ due = IF money >= v.total \/ left = {} THEN v.due ELSE Min({j.number : j \in left})
    OBVIOUS
  <2>1. v \in Invoice /\ q.amount \in Nat
    BY <1>1, RecordedOnce DEF PixInv, TypeOK
  <2>2. money \in Nat /\ status \in {"open", "partially_paid", "paid", "overdue"}
    BY <2>0, <2>1 DEF Invoice
  <2>3. due \in Number
    <3>1. v.due \in Number
      BY <2>1 DEF Invoice
    <3>2. ASSUME left # {} PROVE Min({j.number : j \in left}) \in Number
      <4>1. i.number < k
        BY <1>3, <1>4, <1>16, <3>2
      <4>2. next \in left
        BY <1>4, <1>5, <1>6, <1>15, <4>1
      <4>3. \A j \in left : j \in InstId /\ j.number \in Int /\ i.number + 1 <= j.number
        <5>1. left \subseteq InstId
          BY <1>0 DEF Unpaid
        <5> QED
          BY <1>4, <1>15, <5>1 DEF InstId, Number
      <4> DEFINE S == {j.number : j \in left}
      <4>4. S \subseteq Int /\ next.number \in S /\ \A x \in S : next.number <= x
        BY <1>5, <4>2, <4>3
      <4> HIDE DEF S
      <4>5. Min(S) = next.number
        BY <4>4, MinIsLeast
      <4> QED
        BY <1>6, <4>1, <4>5 DEF S, InstId
    <3> QED
      BY <2>0, <3>1, <3>2
  <2>4. invoice' = [v EXCEPT !.paid = money, !.status = status, !.due = due]
    BY <1>0, <2>0, <2>1 DEF CommitInstallment, Invoice
  <2> QED
    BY <2>1, <2>2, <2>3, <2>4 DEF Invoice
<1>22. TablesTyped'
  BY <1>1, <1>8, <1>11, <1>17, <1>21, RecordedOnce DEF TablesTyped, PixInv, TypeOK
<1>23. ASSUME NEW s \in Txn \ {t} PROVE Spared(s)
  <2>1. Holds(t, PlanRow, "X") /\ Holds(t, InvoiceRow, "X") /\ Holds(t, InstRow(i), "X")
    BY <1>1 DEF WebhookOK
  <2>2. ~Holds(s, PlanRow, "X") /\ ~Holds(s, InvoiceRow, "X") /\ ~Holds(s, InstRow(i), "X")
    BY <2>1, Excludes DEF PixInv
  <2>3. opens => ~Holds(s, InstRow(next), "X")
    BY <1>8, Waits
  <2>4. \A j \in InstId : Holds(s, InstRow(j), "X") => insts'[j] = insts[j]
    BY <1>11, <2>2, <2>3
  <2>5. \A e \in Event : Holds(s, EventRow(e), "X") /\ e \in events' => e \in events
    BY <1>1, RecordedOnce
  <2>6. plan = "completed" => plan' = "completed"
    BY <1>8
  <2> QED
    BY <2>2, <2>4, <2>5, <2>6 DEF Spared
<1>24. TablesMove(t)
  BY <1>12, <1>18, <1>20, <1>22, <1>23 DEF TablesMove, PixInv, LocksOK
<1> QED
  BY <1>2, <1>12, <1>13, <1>19, <1>24


LEMMA WebhookStepInv ==
  ASSUME PixInv, NEW t \in Txn, WebhookStep(t)
  PROVE  PixInv'
<1>1. CASE RejectPayment(t)
  <2>1. TablesMove(t)
    BY SMTT(30), <1>1, SameTables DEF RejectPayment, PixInv, TypeOK
  <2> QED
    BY <1>1, <2>1, Ends DEF RejectPayment
<1>2. CASE CommitInstallment(t)
  BY Zenon, <1>2, CommitInstallmentTables, Ends DEF CommitInstallment
<1>3. CASE CommitInvoicePayment(t)
  BY <1>3, CommitInvoicePaymentTables, Ends DEF CommitInvoicePayment
<1> QED
  BY <1>1, <1>2, <1>3, LockChargeInv, InsertPaymentInv, LockInstInv, LockInvoiceInv DEF WebhookStep

-------------------------------------------------------------------------------
(* Overdue marking and adjustments.                                          *)

LEMMA OverdueBeginInv ==
  ASSUME PixInv, NEW t \in Txn, OverdueBegin(t)
  PROVE  PixInv'
<1> PICK r : r = Request("overdue", "mark_invoice")
  OBVIOUS
<1> PICK L : L = {[row |-> <<"inst", i>>, tx |-> t, mode |-> "X"] : i \in Late}
  OBVIOUS
<1>1. r \in TxState /\ r.op = "overdue" /\ r.pc = "mark_invoice"
  BY NewRequest DEF AllOperations, Pc
<1>2. Late \subseteq Rows /\ Late \subseteq InstId /\ \A i \in Late : Due(insts[i])
  BY DEF Late, Rows, Due
<1>3. /\ L \subseteq LocksOn(Row) /\ \A l \in L : l.tx = t /\ CanLock(t, l.row, l.mode)
      /\ \A i \in InstId : [row |-> InstRow(i), tx |-> t, mode |-> "X"] \in L => i \in Late
  <2>1. ASSUME NEW l \in L
        PROVE  /\ l \in LocksOn(Row) /\ l.tx = t /\ CanLock(t, l.row, l.mode)
               /\ \E i \in Late : l.row = InstRow(i)
    <3>1. PICK i \in Late : l = [row |-> InstRow(i), tx |-> t, mode |-> "X"]
      BY <2>1 DEF InstRow
    <3>2. l.row = InstRow(i) /\ l.tx = t /\ l.mode = "X" /\ InstRow(i) \in Row
      BY <1>2, <3>1, KnownRows
    <3>3. l \in LocksOn(Row)
      BY <3>1, <3>2 DEF LocksOn, Mode
    <3>4. CanLock(t, InstRow(i), "X")
      BY DEF OverdueBegin, InstRow
    <3> QED
      BY <3>2, <3>3, <3>4
  <2>2. \A i, j : InstRow(i) = InstRow(j) => i = j
    BY DEF InstRow
  <2>3. ASSUME NEW i \in InstId, [row |-> InstRow(i), tx |-> t, mode |-> "X"] \in L
        PROVE  i \in Late
    <3> PICK l : l = [row |-> InstRow(i), tx |-> t, mode |-> "X"]
      OBVIOUS
    <3>1. l.row = InstRow(i)
      OBVIOUS
    <3> QED
      BY <2>1, <2>2, <2>3, <3>1
  <2> QED
    BY <2>1, <2>3
<1>4. locks' = locks \cup L /\ LocksMove(t)
  BY <1>3, MoreLocks DEF OverdueBegin, PixInv, TypeOK
<1>5. \A l \in locks : l.tx # t
  BY DEF OverdueBegin, PixInv, LocksOK, Idle, Transactions
<1>6. \A i \in InstId : Holds(t, InstRow(i), "X")' => i \in Late
  BY <1>3, <1>4, <1>5 DEF Holds
<1>7. TablesMove(t)
  BY SameTables DEF OverdueBegin, PixInv, TypeOK
<1>8. SessionOK(t, r)'
  <2>1. insts' = insts
    BY DEF OverdueBegin, tables
  <2>2. OverdueOK(t, r)'
    BY <1>1, <1>2, <1>6, <2>1 DEF OverdueOK, Due
  <2> QED
    BY <1>1, <2>2 DEF SessionOK
<1>9. SessionMoves(t, r) /\ r.op \in Transactions
  BY <1>1, <1>8 DEF SessionMoves, OverdueBegin, Transactions
<1>10. Rows' = Rows
  BY DEF OverdueBegin, Rows, tables
<1> QED
  BY <1>2, <1>4, <1>6, <1>7, <1>9, <1>10, Goes

\* The status of the invoice becomes overdue, or nothing changes.
LEMMA InvoiceMarked ==
  ASSUME PixInv, NEW t \in Txn, NEW hit, hit => CanLock(t, InvoiceRow, "X"),
         invoice' = IF hit THEN [invoice EXCEPT !.status = "overdue"] ELSE invoice
  PROVE  /\ invoice' \in Invoice /\ invoice'.paid = invoice.paid
         /\ \A s \in Txn \ {t} : Holds(s, InvoiceRow, "X") => invoice' = invoice
<1>1. invoice \in Invoice
  BY DEF PixInv, TypeOK
<1>2. CASE hit
  <2>1. invoice' = [invoice EXCEPT !.status = "overdue"]
    BY <1>2
  <2>2. invoice' \in Invoice /\ invoice'.paid = invoice.paid
    BY <1>1, <2>1 DEF Invoice
  <2> QED
    BY <1>2, <2>2, Waits
<1>3. CASE ~hit
  BY <1>1, <1>3
<1> QED
  BY <1>2, <1>3

LEMMA MarkInvoiceMarks ==
  ASSUME PixInv, NEW t \in Txn, MarkInvoice(t)
  PROVE  Marks(t) /\ invoice'.paid = invoice.paid
<1> PICK q : q = tx[t]
  OBVIOUS
<1>1. PICK mine, hit :
        /\ mine = {i \in Rows : Holds(t, InstRow(i), "X")}
        /\ hit => CanLock(t, InvoiceRow, "X")
        /\ insts' = [i \in InstId |-> IF i \in mine THEN [insts[i] EXCEPT !.status = "overdue"]
                                                    ELSE insts[i]]
        /\ invoice' = IF hit THEN [invoice EXCEPT !.status = "overdue"] ELSE invoice
  BY DEF MarkInvoice, InstRow, InvoiceRow
<1>2. q.pc = "mark_invoice" /\ OverdueOK(t, q)
  BY Phases DEF MarkInvoice
<1>3. /\ invoice' \in Invoice /\ invoice'.paid = invoice.paid
      /\ \A s \in Txn \ {t} : Holds(s, InvoiceRow, "X") => invoice' = invoice
  BY <1>1, InvoiceMarked
<1>4. ASSUME NEW i \in mine
      PROVE  /\ i \in InstId /\ insts[i] \in Inst /\ Due(insts[i])
             /\ insts'[i] \in Inst /\ insts'[i].amount = insts[i].amount
             /\ insts'[i].status = "overdue"
             /\ \A s \in Txn \ {t} : ~Holds(s, InstRow(i), "X")
  <2>1. i \in Rows /\ i \in InstId /\ Holds(t, InstRow(i), "X")
    BY <1>1, <1>4 DEF Rows
  <2>2. insts[i] \in Inst
    BY <2>1, Amounts
  <2>3. insts'[i] = [insts[i] EXCEPT !.status = "overdue"]
    BY <1>1, <1>4, <2>1
  <2>4. insts'[i] \in Inst /\ insts'[i].amount = insts[i].amount /\ insts'[i].status = "overdue"
    BY <2>2, <2>3 DEF Inst, InstStatus
  <2>5. \A s \in Txn \ {t} : ~Holds(s, InstRow(i), "X")
    BY <2>1, Excludes DEF PixInv
  <2> QED
    BY <1>2, <2>1, <2>2, <2>4, <2>5 DEF OverdueOK
<1>5. \A i \in InstId : i \notin mine => insts'[i] = insts[i]
  BY <1>1
<1>6. insts' \in [InstId -> Inst \cup {None}]
  <2>1. insts \in [InstId -> Inst \cup {None}]
    BY DEF PixInv, TypeOK
  <2>2. insts' = [i \in InstId |-> insts'[i]]
    BY <1>1
  <2> QED
    BY <1>4, <1>5, <2>1, <2>2
<1>7. UNCHANGED <<day, settled, plan, selections, charges, payments, events>>
  BY DEF MarkInvoice
<1> QED
  BY <1>3, <1>4, <1>5, <1>6, <1>7 DEF Marks, Due

LEMMA MarkInvoiceInv ==
  ASSUME PixInv, NEW t \in Txn, MarkInvoice(t)
  PROVE  PixInv'
<1> PICK q : q = tx[t]
  OBVIOUS
<1>0. PICK r : r = [q EXCEPT !.pc = "mark_by_date"]
  OBVIOUS
<1>1. q \in TxState /\ q.op = "overdue"
  BY Phases DEF MarkInvoice
<1>2. r \in TxState
  BY <1>0, <1>1 DEF TxState, Pc
<1>3. r.op = "overdue" /\ r.pc = "mark_by_date"
  BY <1>0, <1>1 DEF TxState
<1>4. tx' = [tx EXCEPT ![t] = r]
  BY <1>0 DEF MarkInvoice
<1>5. LocksMove(t) /\ \A l \in locks' : l.tx # t
  BY FewerLocks DEF MarkInvoice, PixInv, TypeOK
<1>6. TablesMove(t)
  BY MarkInvoiceMarks, MarksTables
<1>7. SessionMoves(t, r)
  BY <1>2, <1>3, <1>4 DEF SessionMoves, SessionOK, OverdueOK
<1>8. \A i \in InstId : ~Holds(t, InstRow(i), "X")'
  BY <1>5 DEF Holds
<1> QED
  BY <1>5, <1>6, <1>7, <1>8, StepOK

LEMMA MarkByDateMarks ==
  ASSUME PixInv, NEW t \in Txn, MarkByDate(t)
  PROVE  Marks(t) /\ invoice'.paid = invoice.paid
<1>1. PICK hit : /\ hit => CanLock(t, InvoiceRow, "X")
                 /\ invoice' = IF hit THEN [invoice EXCEPT !.status = "overdue"] ELSE invoice
  BY DEF MarkByDate, InvoiceRow
<1>2. /\ invoice' \in Invoice /\ invoice'.paid = invoice.paid
      /\ \A s \in Txn \ {t} : Holds(s, InvoiceRow, "X") => invoice' = invoice
  BY <1>1, InvoiceMarked
<1> QED
  BY <1>2 DEF Marks, MarkByDate, PixInv, TypeOK

LEMMA AdjustBeginInv ==
  ASSUME PixInv, NEW t \in Txn, NEW n \in Adjustments, AdjustBegin(t, n)
  PROVE  PixInv'
<1> PICK q : q = Request("adjust", "commit")
  OBVIOUS
<1>0. PICK r : r = [q EXCEPT !.amount = n]
  OBVIOUS
<1>1. q \in TxState /\ q.op = "adjust" /\ q.pc = "commit"
  BY NewRequest DEF AllOperations, Pc
<1>2. r \in TxState
  BY <1>0, <1>1, PixAssumption DEF TxState
<1>3. r.op = "adjust" /\ r.pc = "commit" /\ r.amount = n
  BY <1>0, <1>1 DEF TxState
<1>4. TablesMove(t)
  BY SameTables DEF AdjustBegin, PixInv, TypeOK
<1>5. LocksMove(t)
  BY OneLock, KnownRows DEF AdjustBegin, PixInv, TypeOK, InvoiceRow, Mode
<1>6. Holds(t, InvoiceRow, "X")' /\ invoice'.total + n >= invoice'.paid
  BY DEF AdjustBegin, WithLock, Holds, InvoiceRow, tables
<1>7. \A i \in InstId : Holds(t, InstRow(i), "X")' => Holds(t, InstRow(i), "X")
  BY DEF AdjustBegin, WithLock, Holds, InstRow
<1>8. SessionMoves(t, r)
  <2>1. SessionOK(t, r)'
    BY <1>3, <1>6 DEF SessionOK, AdjustOK
  <2> QED
    BY <1>0, <1>2, <2>1 DEF SessionMoves, AdjustBegin
<1>9. Rows' = Rows /\ r.op \in Transactions
  BY <1>3 DEF Rows, AdjustBegin, tables, Transactions
<1> QED
  BY <1>4, <1>5, <1>7, <1>8, <1>9, Goes

LEMMA CommitAdjustTables ==
  ASSUME PixInv, NEW t \in Txn, CommitAdjust(t)
  PROVE  TablesMove(t) /\ invoice'.paid = invoice.paid
<1> PICK q : q = tx[t]
  OBVIOUS
<1> PICK v : v = invoice
  OBVIOUS
<1>0. PICK total, covered, pending, status :
        /\ total = v.total + q.amount
        /\ covered <=> total <= v.paid
        /\ pending = {c \in Charge : charges[c] # None /\ charges[c].status = "pending"}
        /\ status = IF covered THEN "paid" ELSE v.status
  OBVIOUS
<1>1. q \in TxState /\ AdjustOK(t, q) /\ v \in Invoice
  BY DEF PixInv, TypeOK, SessionsOK, SessionOK, CommitAdjust
<1>2. total \in Nat
  BY <1>0, <1>1 DEF AdjustOK, Invoice, TxState
<1>3. invoice' = [v EXCEPT !.total = total, !.status = status]
  BY <1>0, <1>1 DEF CommitAdjust, Invoice
<1>4. status \in {"open", "partially_paid", "paid", "overdue"}
  BY <1>0, <1>1 DEF Invoice
<1>5. invoice' \in Invoice /\ invoice'.paid = invoice.paid
  BY <1>1, <1>2, <1>3, <1>4 DEF Invoice
<1>6. charges' = [c \in Charge |-> IF covered /\ c \in pending
                                     THEN [charges[c] EXCEPT !.status = "expired"]
                                     ELSE charges[c]]
  BY <1>0 DEF CommitAdjust
<1>7. ASSUME NEW c \in Charge
      PROVE  \/ charges'[c] = charges[c]
             \/ /\ charges[c] # None /\ charges'[c] \in ChargeRow
                /\ charges'[c].inst = charges[c].inst /\ charges'[c].amount = charges[c].amount
  <2>1. CASE covered /\ c \in pending
    <3>1. charges'[c] = [charges[c] EXCEPT !.status = "expired"] /\ charges[c] # None
      BY <1>0, <1>6, <2>1
    <3>2. charges[c] \in ChargeRow
      BY <3>1, Amounts
    <3> QED
      BY <3>1, <3>2 DEF ChargeRow
  <2>2. CASE ~(covered /\ c \in pending)
    BY <1>6, <2>2
  <2> QED
    BY <2>1, <2>2
<1>8. UNCHANGED <<day, settled, plan, selections, insts, payments, events>>
  BY DEF CommitAdjust
<1>9. Rows' = Rows /\ PaidRows' = PaidRows
  BY <1>8 DEF Rows, PaidRows
<1>10. charges' \in [Charge -> ChargeRow \cup {None}] /\ ChargesGrow
  <2>1. charges' = [c \in Charge |-> charges'[c]] /\ charges \in [Charge -> ChargeRow \cup {None}]
    BY <1>6 DEF PixInv, TypeOK
  <2>2. charges' \in [Charge -> ChargeRow \cup {None}]
    BY <1>7, <2>1
  <2>3. ChargesGrow
    BY <1>7, NoneRow DEF ChargesGrow
  <2> QED
    BY <2>2, <2>3
<1>11. TablesTyped' /\ PlanOK'
  BY <1>5, <1>8, <1>9, <1>10 DEF TablesTyped, PixInv, TypeOK, PlanOK, Divided
<1>12. ChargesOK'
  <2>1. \A c \in settled : c \in Charge
    BY DEF PixInv, TypeOK
  <2>2. \A c \in Charge : charges[c] = None => charges'[c] = None
    BY <1>7
  <2> QED
    BY <1>8, <1>9, <1>10, <2>1, <2>2 DEF ChargesOK, ChargesGrow, PixInv
<1>13. PaymentsOK'
  <2>1. \A p \in payments : p.charge \in Charge
    BY DEF PixInv, TypeOK, Payment
  <2>2. \A p \in payments : charges'[p.charge] # None /\ charges'[p.charge].inst = p.inst
    BY <1>10, <2>1 DEF PixInv, PaymentsOK, ChargesGrow
  <2> QED
    BY <1>8, <1>9, <2>2 DEF PaymentsOK, PixInv
<1>14. \A s \in Txn \ {t} : ~Holds(s, InvoiceRow, "X")
  BY <1>1, Excludes DEF AdjustOK, PixInv
<1>15. \A s \in Txn \ {t} : Spared(s) /\ \A i \in InstId : Holds(s, InstRow(i), "X") => i \in Rows'
  BY <1>8, <1>9, <1>14 DEF Spared, PixInv, LocksOK
<1> QED
  BY <1>5, <1>10, <1>11, <1>12, <1>13, <1>15 DEF TablesMove

LEMMA InvoiceStepInv ==
  ASSUME PixInv, NEW t \in Txn, InvoiceStep(t)
  PROVE  PixInv'
<1>1. CASE MarkByDate(t)
  BY <1>1, MarkByDateMarks, MarksTables, Ends DEF MarkByDate
<1>2. CASE CommitAdjust(t)
  BY <1>2, CommitAdjustTables, Ends DEF CommitAdjust
<1> QED
  BY <1>1, <1>2, OverdueBeginInv, MarkInvoiceInv, AdjustBeginInv DEF InvoiceStep


-------------------------------------------------------------------------------
(* The day, the gateway, failures, and all steps.                            *)

\* Nobody's step: the sessions and their locks stay as they are.
LEMMA NobodysStep ==
  ASSUME PixInv, UNCHANGED <<locks, tx>>, TablesTyped', ChargesOK', PaymentsOK', PlanOK',
         ChargesGrow, Rows' = Rows, \A s \in Txn : Spared(s)
  PROVE  PixInv'
<1>1. TypeOK' /\ MutexOK' /\ LocksOK'
  BY DEF TablesTyped, PixInv, TypeOK, MutexOK, LocksOK, Holds
<1>2. SessionsOK'
  <2> SUFFICES ASSUME NEW s \in Txn PROVE SessionOK(s, tx[s])'
    BY DEF SessionsOK
  <2> PICK q : q = tx[s]
    OBVIOUS
  <2>1. q = tx'[s] /\ q \in TxState /\ SessionOK(s, q)
    BY DEF PixInv, TypeOK, SessionsOK
  <2>2. \A row \in Row : Holds(s, row, "X")' <=> Holds(s, row, "X")
    BY DEF Holds
  <2>3. SessionOK(s, q)'
    BY <2>1, <2>2, SessionKept
  <2> QED
    BY <2>1, <2>3
<1> QED
  BY <1>1, <1>2 DEF PixInv

LEMMA NextDayInv ==
  ASSUME PixInv, NextDay \/ UNCHANGED vars
  PROVE  PixInv' /\ Rows' = Rows /\ PaidRows' = PaidRows /\ invoice' = invoice /\ insts' = insts
<1>1. UNCHANGED <<settled, tables, locks, tx>> /\ day' \in 1 .. MaxDay
  BY PixAssumption DEF NextDay, vars, PixInv, TypeOK
<1>2. TablesTyped' /\ Rows' = Rows /\ PaidRows' = PaidRows
  BY <1>1 DEF TablesTyped, PixInv, TypeOK, tables, Rows, PaidRows
<1>3. ChargesOK' /\ PaymentsOK' /\ PlanOK' /\ ChargesGrow /\ \A s \in Txn : Spared(s)
  BY <1>1, <1>2 DEF ChargesOK, PaymentsOK, PlanOK, Divided, PixInv, tables, Spared, ChargesGrow
<1> QED
  BY <1>1, <1>2, <1>3, NobodysStep DEF tables

LEMMA ChargeExpiresInv ==
  ASSUME PixInv, NEW c \in Charge, ChargeExpires(c)
  PROVE  PixInv' /\ Rows' = Rows /\ PaidRows' = PaidRows
<1>1. /\ charges[c] # None
      /\ UNCHANGED <<day, settled, invoice, plan, selections, insts, payments, events, locks, tx>>
  BY DEF ChargeExpires
<1>0. PICK new : new = [charges[c] EXCEPT !.live = FALSE]
  OBVIOUS
<1>2. charges[c] \in ChargeRow
  BY <1>1, Amounts
<1>3. new \in ChargeRow /\ new.inst = charges[c].inst /\ new.amount = charges[c].amount
  <2>1. \A b \in BOOLEAN :
          /\ [charges[c] EXCEPT !.live = b] \in ChargeRow
          /\ [charges[c] EXCEPT !.live = b].inst = charges[c].inst
          /\ [charges[c] EXCEPT !.live = b].amount = charges[c].amount
    BY <1>2 DEF ChargeRow
  <2>2. FALSE \in BOOLEAN
    OBVIOUS
  <2> QED
    BY <1>0, <2>1, <2>2
<1>4. charges' = [charges EXCEPT ![c] = new]
  BY <1>0 DEF ChargeExpires
<1>5. /\ charges' \in [Charge -> ChargeRow \cup {None}] /\ charges'[c] = new /\ new # None
      /\ \A d \in Charge : d # c => charges'[d] = charges[d]
  BY <1>3, <1>4, NoneRow DEF PixInv, TypeOK
<1>6. ChargesGrow /\ \A d \in Charge : charges[d] = None => charges'[d] = None
  BY <1>1, <1>3, <1>5 DEF ChargesGrow
<1>7. Rows' = Rows /\ PaidRows' = PaidRows
  BY <1>1 DEF Rows, PaidRows
<1>8. TablesTyped' /\ PlanOK'
  BY <1>1, <1>5, <1>7 DEF TablesTyped, PixInv, TypeOK, PlanOK, Divided
<1>9. ChargesOK'
  <2>1. \A d \in settled : d \in Charge
    BY DEF PixInv, TypeOK
  <2> QED
    BY <1>1, <1>6, <1>7, <2>1 DEF ChargesOK, ChargesGrow, PixInv
<1>10. PaymentsOK'
  <2>1. \A p \in payments : p.charge \in Charge
    BY DEF PixInv, TypeOK, Payment
  <2>2. \A p \in payments : charges'[p.charge] # None /\ charges'[p.charge].inst = p.inst
    BY <1>6, <2>1 DEF PixInv, PaymentsOK, ChargesGrow
  <2> QED
    BY <1>1, <1>7, <2>2 DEF PaymentsOK, PixInv
<1>11. \A s \in Txn : Spared(s)
  BY <1>1, <1>7 DEF Spared
<1> QED
  BY <1>1, <1>6, <1>7, <1>8, <1>9, <1>10, <1>11, NobodysStep

LEMMA PayAtGatewayInv ==
  ASSUME PixInv, NEW c \in Charge, PayAtGateway(c)
  PROVE  PixInv' /\ Rows' = Rows /\ PaidRows' = PaidRows
<1>1. charges[c] # None /\ settled' = settled \cup {c} /\ UNCHANGED <<day, tables, locks, tx>>
  BY DEF PayAtGateway
<1>2. TablesTyped' /\ Rows' = Rows /\ PaidRows' = PaidRows
  BY <1>1 DEF TablesTyped, PixInv, TypeOK, tables, Rows, PaidRows
<1>3. ChargesOK'
  BY <1>1, <1>2 DEF ChargesOK, PixInv, tables
<1>4. PaymentsOK' /\ PlanOK' /\ ChargesGrow /\ \A s \in Txn : Spared(s)
  BY <1>1, <1>2 DEF PaymentsOK, PlanOK, Divided, PixInv, tables, Spared, ChargesGrow
<1> QED
  BY <1>1, <1>2, <1>3, <1>4, NobodysStep DEF tables

LEMMA AbortInv ==
  ASSUME PixInv, NEW t \in Txn, Abort(t)
  PROVE  PixInv'
<1>1. TablesMove(t)
  BY SameTables DEF Abort, PixInv, TypeOK
<1> QED
  BY <1>1, Ends DEF Abort

LEMMA InitInv == Init => PixInv
<1> SUFFICES ASSUME Init PROVE PixInv
  OBVIOUS
<1>1. Rows = {} /\ PaidRows = {}
  BY DEF Init, Rows, PaidRows
<1>2. TypeOK
  <2>1. invoice \in Invoice
    BY PixAssumption DEF Init, Invoice, Number
  <2>2. Idle \in TxState
    BY IdleOK
  <2> QED
    BY <2>1, <2>2, PixAssumption DEF Init, TypeOK
<1>3. MutexOK /\ LocksOK
  BY DEF Init, MutexOK, LocksOK, Holds
<1>4. ChargesOK /\ PlanOK
  BY <1>1 DEF Init, ChargesOK, PlanOK
<1>5. PaymentsOK
  BY <1>1 DEF Init, PaymentsOK
<1>6. SessionsOK
  <2>1. \A t \in Txn : tx[t] = Idle
    BY DEF Init
  <2>2. \A t : SessionOK(t, Idle)
    BY DEF SessionOK, Idle
  <2> QED
    BY <2>1, <2>2 DEF SessionsOK
<1> QED
  BY <1>2, <1>3, <1>4, <1>5, <1>6 DEF PixInv

LEMMA NextInv == PixInv /\ [Next]_vars => PixInv'
<1> SUFFICES ASSUME PixInv, [Next]_vars PROVE PixInv'
  OBVIOUS
<1> QED
  BY NextDayInv, ChargeExpiresInv, PayAtGatewayInv, PlanStepInv, ChargeStepInv, WebhookStepInv,
     WebhookBeginInv, InvoiceStepInv, AbortInv DEF Next

\* The inductive invariant that the theorems below rest on.
THEOREM Invariant == Spec => []PixInv
BY InitInv, NextInv, PTL DEF Spec


-------------------------------------------------------------------------------
(* The safety properties of Pix that follow from the invariant.              *)

\* Rows and sessions stay within their columns and their values.
THEOREM Types == Spec => []TypeOK
BY Invariant, PTL DEF PixInv

\* No charge outlives its instalment: a reset waits for the requests in flight
\* that are charging one, or fails (ResetPaymentPlan, foreign keys).
THEOREM NoChargeOutlivesItsInstalment == Spec => []ChargesHaveInstalment
<1>1. PixInv => ChargesHaveInstalment
  BY DEF PixInv, ChargesOK, ChargesHaveInstalment
<1> QED
  BY <1>1, Invariant, PTL

LEMMA PlanFollows == PixInv => PlanFollowsInstalments
<1> SUFFICES ASSUME PixInv PROVE PlanFollowsInstalments
  OBVIOUS
<1>1. CASE plan = "pending_selection"
  BY <1>1 DEF PixInv, PlanOK, PlanFollowsInstalments
<1>2. CASE plan # "pending_selection"
  <2>1. PICK k \in Number : \E n \in 1 .. k + 1 : Divided(k, n)
    BY <1>2 DEF PixInv, PlanOK
  <2>2. PICK n \in 1 .. k + 1 : Divided(k, n)
    BY <2>1
  <2>3. k \in Nat /\ k >= 1 /\ k <= MaxInstallment /\ n \in Nat /\ n <= k + 1
    BY PixAssumption DEF Number
  <2>4. selections \in 1 .. MaxPlan /\ MaxPlan \in Nat
    BY <2>2, PixAssumption DEF PixInv, TypeOK, Divided
  <2>5. PICK last : last = [plan |-> selections, number |-> k]
    OBVIOUS
  <2>6. last \in InstId /\ last.plan = selections /\ last.number = k
    BY <2>4, <2>5 DEF InstId
  <2>7. last \in Rows
    BY <2>2, <2>3, <2>6 DEF Divided
  <2>8. \A i \in Rows : i \in InstId /\ i.number \in Nat /\ i.number <= k
    BY <2>2, PixAssumption DEF Divided, Rows, InstId, Number
  <2>9. CASE n = k + 1
    <3>1. plan = "completed" /\ Rows = PaidRows
      BY <2>2, <2>3, <2>8, <2>9 DEF Divided, PaidRows
    <3> QED
      BY <2>7, <3>1 DEF PlanFollowsInstalments
  <2>10. CASE n # k + 1
    <3>1. plan = "active" /\ n \in Number
      BY <2>2, <2>3, <2>10, PixAssumption DEF Divided, Number
    <3>2. last \notin PaidRows
      BY <2>2, <2>3, <2>6, <2>7, <2>10 DEF Divided, PaidRows
    <3>3. \A i \in Rows : /\ i.number < n <=> insts[i].status = "paid"
                          /\ i.number > n <=> insts[i].status = "scheduled"
      BY <2>2 DEF Divided
    <3> QED
      BY <2>7, <3>1, <3>2, <3>3 DEF PlanFollowsInstalments
  <2> QED
    BY <2>9, <2>10
<1> QED
  BY <1>1, <1>2

\* The plan is completed exactly when all of its instalments are paid, and while
\* it runs exactly one - the first that is not - is up for payment.
THEOREM ThePlanFollowsItsInstalments == Spec => []PlanFollowsInstalments
BY PlanFollows, Invariant, PTL

LEMMA PaidOnce == PixInv => OnePaymentPerInstalment
<1> SUFFICES ASSUME PixInv, NEW i \in InstId
             PROVE  Cardinality({p \in payments : p.inst = i})
                      = IF i \in PaidRows THEN 1 ELSE 0
  BY DEF OnePaymentPerInstalment
<1>1. i # None
  BY NoneRow
<1>2. CASE i \in PaidRows
  <2>1. PICK p \in payments : p.inst = i
    BY <1>2 DEF PixInv, PaymentsOK
  <2>2. {q \in payments : q.inst = i} = {p}
    BY <1>1, <2>1 DEF PixInv, PaymentsOK
  <2>3. Cardinality({p}) = 1
    BY FS_Singleton, Zenon
  <2> QED
    BY <1>2, <2>2, <2>3
<1>3. CASE i \notin PaidRows
  <2>1. {q \in payments : q.inst = i} = {}
    BY <1>1, <1>3 DEF PixInv, PaymentsOK
  <2> QED
    BY <1>3, <2>1, FS_EmptySet
<1> QED
  BY <1>2, <1>3

\* An instalment is paid by one payment: a second charge of it that the customer
\* has paid does not count again (ApplyInstallmentPaymentTx).
THEOREM PaidByOnePayment == Spec => []OnePaymentPerInstalment
BY PaidOnce, Invariant, PTL


-------------------------------------------------------------------------------
(* Pix implements the abstract collection: its state, seen as parts of which *)
(* some are collected.                                                       *)

\* The j-th instalment of the plan that is selected.
RowNo(j) == [plan |-> selections, number |-> j]

LEMMA RowsByNumber ==
  ASSUME PixInv, NEW k \in Number, NEW n \in 1 .. k + 1, Divided(k, n)
  PROVE  /\ k \in Nat /\ n \in Nat /\ k >= 1 /\ n <= k + 1
         /\ \A j \in 1 .. k : RowNo(j) \in Rows /\ RowNo(j).number = j
         /\ \A i \in Rows : i.number \in 1 .. k /\ i = RowNo(i.number)
         /\ \A i \in Rows : i \in PaidRows <=> i.number < n
         /\ \A i \in Rows : insts[i].amount \in Nat \ {0}
<1>1. k \in Nat /\ n \in Nat /\ k >= 1 /\ n <= k + 1 /\ 1 .. k \subseteq Number
  BY PixAssumption DEF Number
<1>2. selections \in 1 .. MaxPlan
  BY PixAssumption DEF PixInv, TypeOK, Divided
<1>3. \A j \in 1 .. k : RowNo(j) \in InstId /\ RowNo(j).number = j /\ RowNo(j).plan = selections
  BY <1>1, <1>2 DEF RowNo, InstId
<1>4. \A j \in 1 .. k : RowNo(j) \in Rows
  BY <1>1, <1>3 DEF Divided
<1>5. \A i \in Rows : i \in InstId /\ i.plan = selections /\ i.number <= k
  BY DEF Divided, Rows
<1>6. \A i \in Rows : i.number \in 1 .. k /\ i = RowNo(i.number)
  BY <1>1, <1>5 DEF InstId, Number, RowNo
<1>7. \A i \in Rows : i \in PaidRows <=> i.number < n
  BY DEF Divided, PaidRows
<1>8. \A i \in Rows : insts[i].amount \in Nat \ {0}
  <2> SUFFICES ASSUME NEW i \in Rows PROVE insts[i].amount \in Nat \ {0}
    OBVIOUS
  <2>1. insts[i] \in Inst
    BY DEF PixInv, TypeOK, Rows
  <2> QED
    BY <2>1 DEF Divided, Inst
<1> QED
  BY <1>1, <1>3, <1>4, <1>6, <1>7, <1>8

LEMMA CountedByNumber ==
  ASSUME PixInv, NEW k \in Number, NEW n \in 1 .. k + 1, Divided(k, n)
  PROVE  Cardinality(Rows) = k /\ Cardinality(PaidRows) = n - 1
<1>1. k \in Nat /\ n \in Nat /\ k >= 1 /\ n <= k + 1
  BY RowsByNumber
<1>2. ASSUME NEW m \in 0 .. k, NEW S, S = {i \in Rows : i.number <= m}
      PROVE  Cardinality(S) = m
  <2> DEFINE f == [j \in 1 .. m |-> RowNo(j)]
  <2>1. \A j \in 1 .. m : j \in 1 .. k /\ RowNo(j) \in S /\ RowNo(j).number = j
    BY <1>1, <1>2, RowsByNumber
  <2>2. \A i \in S : i.number \in 1 .. m /\ RowNo(i.number) = i
    BY <1>1, <1>2, RowsByNumber
  <2>3. f \in [1 .. m -> S] /\ \A j \in 1 .. m : f[j] = RowNo(j)
    BY <2>1
  <2>4. \A a, b \in 1 .. m : f[a] = f[b] => a = b
    BY <2>1, <2>3
  <2>5. \A i \in S : \E j \in 1 .. m : f[j] = i
    BY <2>2, <2>3
  <2> HIDE DEF f
  <2>6. f \in Bijection(1 .. m, S)
    BY <2>3, <2>4, <2>5 DEF Bijection, Injection, Surjection, IsInjective
  <2>7. ExistsBijection(1 .. m, S)
    BY <2>6 DEF ExistsBijection
  <2> QED
    BY <1>1, <2>7, FS_CountingElements
<1>3. Rows = {i \in Rows : i.number <= k}
  BY <1>1, RowsByNumber
<1>4. PaidRows = {i \in Rows : i.number <= n - 1}
  BY <1>1, RowsByNumber DEF PaidRows
<1> QED
  BY <1>1, <1>2, <1>3, <1>4

LEMMA PartsByNumber ==
  ASSUME PixInv, NEW k \in Number, NEW n \in 1 .. k + 1, Divided(k, n)
  PROVE  /\ Parts = [j \in 1 .. k |-> insts[RowNo(j)].amount]
         /\ Parts \in Seq(Nat \ {0}) /\ Len(Parts) = k /\ Parts # <<>>
<1>1. \A j \in 1 .. k : Numbered(Rows, j) = RowNo(j)
  BY RowsByNumber DEF Numbered
<1>2. Parts = [j \in 1 .. k |-> insts[RowNo(j)].amount]
  BY <1>1, CountedByNumber DEF Parts
<1>3. \A j \in 1 .. k : insts[RowNo(j)].amount \in Nat \ {0}
  BY RowsByNumber
<1>4. k \in Nat /\ k >= 1
  BY RowsByNumber
<1> QED
  BY <1>2, <1>3, <1>4

LEMMA NoParts ==
  ASSUME Rows = {}
  PROVE  Parts = <<>> /\ Cardinality(PaidRows) = 0
BY FS_EmptySet DEF Parts, PaidRows


\* A step that changes no amount, pays no instalment and books no money.
Unseen ==
  /\ Rows' = Rows /\ PaidRows' = PaidRows /\ invoice'.paid = invoice.paid
  /\ \A i \in Rows : insts'[i].amount = insts[i].amount

LEMMA PartsKnown ==
  PixInv => /\ plan # "pending_selection" => Parts \in Seq(Nat \ {0})
            /\ \A j \in 1 .. Cardinality(Rows) : Numbered(Rows, j) \in Rows
<1> SUFFICES ASSUME PixInv
             PROVE  /\ plan # "pending_selection" => Parts \in Seq(Nat \ {0})
                    /\ \A j \in 1 .. Cardinality(Rows) : Numbered(Rows, j) \in Rows
  OBVIOUS
<1>1. CASE plan = "pending_selection"
  <2>1. Rows = {}
    BY <1>1 DEF PixInv, PlanOK
  <2>2. Cardinality(Rows) = 0
    BY <2>1, FS_EmptySet
  <2> QED
    BY <1>1, <2>2
<1>2. CASE plan # "pending_selection"
  <2>1. PICK k \in Number : \E n \in 1 .. k + 1 : Divided(k, n)
    BY <1>2 DEF PixInv, PlanOK
  <2>2. PICK n \in 1 .. k + 1 : Divided(k, n)
    BY <2>1
  <2>3. \A j \in 1 .. k : Numbered(Rows, j) \in Rows
    BY <2>2, RowsByNumber DEF Numbered
  <2> QED
    BY <2>2, <2>3, PartsByNumber, CountedByNumber
<1> QED
  BY <1>1, <1>2

LEMMA UnseenStutters ==
  ASSUME PixInv, Unseen
  PROVE  UNCHANGED Promise!vars
<1>1. Cardinality(PaidRows)' = Cardinality(PaidRows) /\ invoice'.paid = invoice.paid
  BY DEF Unseen
<1>2. \A j \in 1 .. Cardinality(Rows) :
        insts'[Numbered(Rows, j)].amount = insts[Numbered(Rows, j)].amount
  BY PartsKnown DEF Unseen
<1>3. Parts' = Parts
  BY <1>2 DEF Parts, Unseen
<1> QED
  BY <1>1, <1>3 DEF Promise!vars

\* A selection chooses the parts of an amount that had none.
LEMMA SelectChooses ==
  ASSUME PixInv, PixInv', NEW t \in Txn, CommitSelect(t)
  PROVE  Promise!Next
<1>1. plan = "pending_selection" /\ plan' = "active" /\ invoice' = invoice
  BY DEF CommitSelect, PixInv, SessionsOK, SessionOK, SelectOK
<1>2. Rows = {}
  BY <1>1 DEF PixInv, PlanOK
<1>3. Parts = <<>> /\ Cardinality(PaidRows) = 0
  BY <1>2, NoParts
<1>4. \A i \in Rows' : insts'[i].status \in {"open", "scheduled"}
  <2> SUFFICES ASSUME NEW i \in Rows' PROVE insts'[i].status \in {"open", "scheduled"}
    OBVIOUS
  <2>1. i \in InstId /\ insts'[i] # None /\ insts[i] = None
    BY <1>2 DEF Rows
  <2> QED
    BY <2>1 DEF CommitSelect
<1>5. PaidRows' = {}
  BY <1>4 DEF PaidRows
<1>6. Cardinality(PaidRows)' = 0
  BY <1>5, FS_EmptySet
<1>7. Parts' \in Seq(Nat \ {0})
  <2>1. (plan # "pending_selection")'
    BY <1>1
  <2>2. (Parts \in Seq(Nat \ {0}))'
    BY <2>1, PartsKnown, PTL
  <2> QED
    BY <2>2
<1> QED
  BY <1>1, <1>3, <1>6, <1>7 DEF Promise!Next, Promise!Choose


\* A plan is withdrawn before anything of it is paid.
LEMMA ResetWithdraws ==
  ASSUME PixInv, NEW t \in Txn, CommitReset(t)
  PROVE  Promise!Next
<1>1. PaidRows = {} /\ invoice' = invoice
  BY DEF CommitReset, PixInv, SessionsOK, SessionOK, ResetOK
<1>2. Rows' = {} /\ PaidRows' = {}
  BY DEF CommitReset, Rows, PaidRows
<1>3. Cardinality(PaidRows) = 0 /\ Cardinality(PaidRows)' = 0
  BY <1>1, <1>2, FS_EmptySet
<1>4. Cardinality(Rows)' = 0
  BY <1>2, FS_EmptySet
<1>5. Parts' = <<>>
  BY <1>4 DEF Parts
<1> QED
  BY <1>1, <1>3, <1>5 DEF Promise!Next, Promise!Withdraw

\* The payment of an instalment collects the next part, in full.
LEMMA PaymentCollects ==
  ASSUME PixInv, NEW t \in Txn, CommitInstallment(t)
  PROVE  Promise!Next
<1> PICK q : q = tx[t]
  OBVIOUS
<1>1. q \in TxState /\ WebhookOK(t, q) /\ q.pc = "commit" /\ q.inst # None
  BY DEF CommitInstallment, PixInv, TypeOK, SessionsOK, SessionOK
<1>2. /\ q.inst \in Rows /\ q.amount = insts[q.inst].amount
      /\ \E k \in Number : k \in Nat /\ q.inst.number <= k /\ Divided(k, q.inst.number)
  BY <1>1, PaysTheNext
<1>3. PICK k \in Number : k \in Nat /\ q.inst.number <= k /\ Divided(k, q.inst.number)
  BY <1>2
<1>4. q.inst.number \in 1 .. k /\ q.inst.number \in 1 .. k + 1
  BY <1>2, <1>3, PixAssumption DEF Rows, InstId, Number
<1>5. /\ Parts = [j \in 1 .. k |-> insts[RowNo(j)].amount] /\ Len(Parts) = k
      /\ Cardinality(PaidRows) = q.inst.number - 1
  BY <1>3, <1>4, PartsByNumber, CountedByNumber
<1>6. Parts[q.inst.number] = q.amount
  BY <1>2, <1>3, <1>4, <1>5, RowsByNumber
<1>7. /\ Rows' = Rows /\ PaidRows' = PaidRows \cup {q.inst} /\ q.inst \notin PaidRows
      /\ \A i \in Rows : insts'[i].amount = insts[i].amount
  BY CommitInstallmentTables
<1>8. IsFiniteSet(PaidRows)
  <2>1. \A i \in PaidRows : i \in Rows /\ i.number \in 1 .. k /\ RowNo(i.number) = i
    BY <1>3, <1>4, RowsByNumber DEF PaidRows
  <2> DEFINE f == [i \in PaidRows |-> i.number]
  <2>2. f \in [PaidRows -> 1 .. k] /\ \A a, b \in PaidRows : f[a] = f[b] => a = b
    BY <2>1
  <2> HIDE DEF f
  <2>3. f \in Injection(PaidRows, 1 .. k)
    BY <2>2 DEF Injection, IsInjective
  <2>4. IsFiniteSet(1 .. k)
    BY <1>3, FS_Interval
  <2> QED
    BY <2>3, <2>4, FS_Injection
<1>9. Cardinality(PaidRows)' = Cardinality(PaidRows) + 1
  BY <1>7, <1>8, FS_AddElement
<1>10. invoice'.paid = invoice.paid + q.amount
  BY DEF CommitInstallment, PixInv, TypeOK, Invoice
<1>11. Parts' = Parts
  BY <1>7, PartsKnown DEF Parts, PixInv
<1>12. q.inst.number - 1 < k /\ (q.inst.number - 1) + 1 = q.inst.number
  BY <1>3, <1>4
<1> QED
  BY <1>5, <1>6, <1>9, <1>10, <1>11, <1>12 DEF Promise!Next, Promise!Collect

\* What is paid on the invoice itself comes after every part.
LEMMA InvoicePaymentCollectsExtra ==
  ASSUME PixInv, NEW t \in Txn, CommitInvoicePayment(t)
  PROVE  Promise!Next
<1> PICK q : q = tx[t]
  OBVIOUS
<1>1. q \in TxState /\ WebhookOK(t, q) /\ q.pc = "commit" /\ q.inst = None
  BY DEF CommitInvoicePayment, PixInv, TypeOK, SessionsOK, SessionOK
<1>2. /\ q.charge \in Charge /\ charges[q.charge] # None
      /\ charges[q.charge].inst = None /\ q.amount = charges[q.charge].amount
  BY <1>1 DEF WebhookOK
<1>3. plan = "completed" /\ q.amount \in Nat
  BY <1>2 DEF PixInv, ChargesOK, TypeOK, ChargeRow
<1>4. PICK k \in Number : \E n \in 1 .. k + 1 : Divided(k, n)
  BY <1>3 DEF PixInv, PlanOK
<1>5. PICK n \in 1 .. k + 1 : Divided(k, n)
  BY <1>4
<1>6. n = k + 1 /\ k \in Nat
  BY <1>3, <1>5, RowsByNumber DEF Divided
<1>7. Parts # <<>> /\ Cardinality(PaidRows) = Len(Parts)
  BY <1>5, <1>6, PartsByNumber, CountedByNumber
<1>8. Rows' = Rows /\ PaidRows' = PaidRows /\ insts' = insts
  BY CommitInvoicePaymentTables DEF CommitInvoicePayment
<1>9. Parts' = Parts
  BY <1>8 DEF Parts
<1>10. invoice.paid \in Nat /\ invoice'.paid = invoice.paid + q.amount
  BY DEF CommitInvoicePayment, PixInv, TypeOK, Invoice
<1>11. invoice'.paid - invoice.paid = q.amount
  BY <1>3, <1>10
<1> QED
  BY <1>3, <1>7, <1>8, <1>9, <1>10, <1>11 DEF Promise!Next, Promise!CollectExtra

LEMMA SameInstalments == ASSUME UNCHANGED <<insts, invoice>> PROVE Unseen
BY DEF Unseen, Rows, PaidRows

LEMMA RequestsUnseen ==
  ASSUME PixInv, NEW t \in Txn,
         \/ \E n \in Number : SelectBegin(t, n)
         \/ ResetBegin(t) \/ LockPlan(t)
         \/ \E i \in InstId : CreateBegin(t, i)
         \/ CreateForInvoiceBegin(t) \/ LookUp(t)
         \/ \E c \in Charge : InsertCharge(t, c)
         \/ \E e \in Event, c \in Charge : WebhookBegin(t, e, c)
         \/ LockCharge(t) \/ InsertPayment(t) \/ LockInst(t) \/ RejectPayment(t) \/ LockInvoice(t)
         \/ OverdueBegin(t) \/ Abort(t)
         \/ \E n \in Adjustments : AdjustBegin(t, n)
  PROVE  Unseen
<1>1. UNCHANGED <<insts, invoice>>
  BY DEF SelectBegin, ResetBegin, LockPlan, CreateBegin, CreateForInvoiceBegin, LookUp,
         InsertCharge, WebhookBegin, LockCharge, InsertPayment, LockInst, RejectPayment,
         LockInvoice, OverdueBegin, Abort, AdjustBegin, tables
<1> QED
  BY SMTT(30), <1>1, SameInstalments

LEMMA MarksUnseen ==
  ASSUME PixInv, NEW t \in Txn, Marks(t), invoice'.paid = invoice.paid
  PROVE  Unseen
<1>1. Rows' = Rows /\ PaidRows' = PaidRows
  BY MarksTables
<1>2. \A i \in Rows : insts'[i].amount = insts[i].amount
  BY DEF Marks, Rows
<1> QED
  BY <1>1, <1>2 DEF Unseen

LEMMA TransactionRefines ==
  ASSUME PixInv, PixInv', NEW t \in Txn,
         \/ PlanStep(t) \/ ChargeStep(t) \/ WebhookStep(t) \/ InvoiceStep(t) \/ Abort(t)
         \/ \E e \in Event, c \in Charge : WebhookBegin(t, e, c)
  PROVE  Promise!Next \/ UNCHANGED Promise!vars
<1>1. \/ Promise!Next
      \/ Unseen
      \/ MarkActive(t) \/ MarkInvoice(t) \/ MarkByDate(t) \/ CommitAdjust(t)
  BY RequestsUnseen, SelectChooses, ResetWithdraws, PaymentCollects, InvoicePaymentCollectsExtra
     DEF PlanStep, ChargeStep, WebhookStep, InvoiceStep
<1>2. MarkActive(t) \/ MarkInvoice(t) \/ MarkByDate(t) => Unseen
  BY MarksUnseen, MarkActiveMarks, MarkInvoiceMarks, MarkByDateMarks
<1>3. ASSUME CommitAdjust(t) PROVE Unseen
  <2>1. invoice'.paid = invoice.paid
    BY <1>3, CommitAdjustTables
  <2> QED
    BY <1>3, <2>1 DEF Unseen, CommitAdjust, Rows, PaidRows
<1> QED
  BY <1>1, <1>2, <1>3, UnseenStutters

LEMMA InitRefines == Init => Promise!Init
<1> SUFFICES ASSUME Init PROVE Promise!Init
  OBVIOUS
<1>1. Rows = {} /\ PaidRows = {}
  BY DEF Init, Rows, PaidRows
<1>2. Cardinality(Rows) = 0 /\ Cardinality(PaidRows) = 0
  BY <1>1, FS_EmptySet
<1>3. Parts = <<>> /\ invoice.paid = 0
  BY <1>2 DEF Parts, Init
<1> QED
  BY <1>2, <1>3 DEF Promise!Init

LEMMA StepRefines == PixInv /\ PixInv' /\ [Next]_vars => [Promise!Next]_(Promise!vars)
<1> SUFFICES ASSUME PixInv, PixInv', [Next]_vars
             PROVE  Promise!Next \/ UNCHANGED Promise!vars
  OBVIOUS
<1>1. ASSUME NextDay \/ UNCHANGED vars \/ \E c \in Charge : ChargeExpires(c) \/ PayAtGateway(c)
      PROVE  UNCHANGED Promise!vars
  <2>1. UNCHANGED <<insts, invoice>>
    BY <1>1 DEF NextDay, ChargeExpires, PayAtGateway, vars, tables
  <2> QED
    BY <2>1, SameInstalments, UnseenStutters
<1> QED
  BY <1>1, TransactionRefines DEF Next

\* The charges, the webhook, the plan and the worker together do what Collection
\* promises: parts are collected once, in order and in full, a division is never
\* withdrawn once part of it is in, and nothing else moves the money received.
THEOREM PixImplementsCollection == Spec => CollectsAsPromised
BY InitRefines, StepRefines, Invariant, PTL DEF Spec, CollectsAsPromised, Promise!Spec


-------------------------------------------------------------------------------
(* Money is booked once.  The rows of payments are finitely many, so that    *)
(* their sum moves by the amount of the row that a webhook adds.             *)

AmountsOf(P) == [p \in P |-> p.amount]

Booked == IsFiniteSet(payments) /\ invoice.paid = SumFunctionOnSet(AmountsOf(payments), payments)

LEMMA PaymentBooks ==
  ASSUME PixInv, Booked, NEW t \in Txn, NEW q, q = tx[t], q \in TxState, WebhookOK(t, q),
         q.pc = "commit", RecordPayment(q), invoice'.paid = invoice.paid + q.amount
  PROVE  Booked'
<1> PICK p : p = [event |-> q.event, charge |-> q.charge, inst |-> q.inst, amount |-> q.amount]
  OBVIOUS
<1>1. p.event = q.event /\ p.amount = q.amount
  OBVIOUS
<1>2. payments' = payments \cup {p}
  BY DEF RecordPayment
<1>3. q.event \notin events /\ q.amount \in Int
  BY DEF WebhookOK, TxState
<1>4. p \notin payments
  BY <1>1, <1>3 DEF PixInv, PaymentsOK
<1>5. \A x \in payments : AmountsOf(payments)[x] \in Int /\ AmountsOf(payments')[x] = AmountsOf(payments)[x]
  BY <1>2 DEF AmountsOf, PixInv, TypeOK, Payment
<1>6. AmountsOf(payments')[p] = q.amount
  BY <1>1, <1>2 DEF AmountsOf
<1>7. IsFiniteSet(payments) /\ invoice.paid = SumFunctionOnSet(AmountsOf(payments), payments)
  BY DEF Booked
<1>8. PICK f : f = AmountsOf(payments)
  OBVIOUS
<1>9. PICK g : g = AmountsOf(payments')
  OBVIOUS
<1>10. \A x \in payments : f[x] \in Int /\ g[x] = f[x]
  BY <1>5, <1>8, <1>9
<1>11. g[p] = q.amount /\ g[p] \in Int
  BY <1>3, <1>6, <1>9
<1>12. \A x : x \in payments' <=> x \in payments \/ x = p
  BY <1>2
<1>13. IsFiniteSet(payments)
  BY <1>7
<1>14. IsFiniteSet(payments') /\ SumFunctionOnSet(g, payments') = SumFunctionOnSet(f, payments) + g[p]
  BY <1>4, <1>10, <1>11, <1>12, <1>13, SumGrow
<1> QED
  BY <1>7, <1>8, <1>9, <1>11, <1>14 DEF Booked

LEMMA BookedKept ==
  ASSUME Booked, payments' = payments, invoice'.paid = invoice.paid
  PROVE  Booked'
BY DEF Booked

LEMMA NextBooks == PixInv /\ Booked /\ [Next]_vars => Booked'
<1> SUFFICES ASSUME PixInv, Booked, [Next]_vars PROVE Booked'
  OBVIOUS
<1>1. ASSUME NEW t \in Txn, CommitInstallment(t) \/ CommitInvoicePayment(t) PROVE Booked'
  <2> PICK q : q = tx[t]
    OBVIOUS
  <2>1. q \in TxState /\ WebhookOK(t, q) /\ q.pc = "commit"
    BY <1>1 DEF CommitInstallment, CommitInvoicePayment, PixInv, TypeOK, SessionsOK, SessionOK
  <2>2. RecordPayment(q) /\ invoice'.paid = invoice.paid + q.amount
    BY <1>1 DEF CommitInstallment, CommitInvoicePayment, PixInv, TypeOK, Invoice
  <2> QED
    BY <2>1, <2>2, PaymentBooks
<1>2. ASSUME NEW t \in Txn, MarkInvoice(t) \/ MarkByDate(t) \/ CommitAdjust(t) PROVE Booked'
  <2>1. invoice'.paid = invoice.paid
    BY <1>2, MarkInvoiceMarks, MarkByDateMarks, CommitAdjustTables
  <2>2. payments' = payments
    BY <1>2 DEF MarkInvoice, MarkByDate, CommitAdjust
  <2> QED
    BY <2>1, <2>2, BookedKept
<1>3. ASSUME NEW t \in Txn,
             \/ PlanStep(t) \/ ChargeStep(t) \/ WebhookStep(t) \/ InvoiceStep(t) \/ Abort(t)
             \/ \E e \in Event, c \in Charge : WebhookBegin(t, e, c)
      PROVE  Booked' \/ UNCHANGED <<payments, invoice>>
  <2>1. PlanStep(t) => UNCHANGED <<payments, invoice>>
    BY ZenonT(40) DEF PlanStep, SelectBegin, ResetBegin, LockPlan, CommitSelect, CommitReset, tables
  <2>2. ChargeStep(t) => UNCHANGED <<payments, invoice>>
    BY DEF ChargeStep, CreateBegin, CreateForInvoiceBegin, LookUp, InsertCharge, MarkActive, tables
  <2>3. WebhookStep(t) => Booked' \/ UNCHANGED <<payments, invoice>>
    BY <1>1 DEF WebhookStep, LockCharge, InsertPayment, LockInst, RejectPayment, LockInvoice, tables
  <2>4. InvoiceStep(t) => Booked' \/ UNCHANGED <<payments, invoice>>
    BY <1>2 DEF InvoiceStep, OverdueBegin, AdjustBegin, tables
  <2>5. Abort(t) \/ (\E e \in Event, c \in Charge : WebhookBegin(t, e, c))
          => UNCHANGED <<payments, invoice>>
    BY DEF Abort, WebhookBegin, tables
  <2> QED
    BY <1>3, <2>1, <2>2, <2>3, <2>4, <2>5
<1>4. ASSUME NextDay \/ UNCHANGED vars \/ \E c \in Charge : ChargeExpires(c) \/ PayAtGateway(c)
      PROVE  UNCHANGED <<payments, invoice>>
  BY <1>4 DEF NextDay, ChargeExpires, PayAtGateway, vars, tables
<1> QED
  BY <1>3, <1>4, BookedKept DEF Next

LEMMA InitBooks == Init => Booked
<1> SUFFICES ASSUME Init PROVE Booked
  OBVIOUS
<1>1. payments = {} /\ invoice.paid = 0
  BY DEF Init
<1>2. SumFunctionOnSet(AmountsOf(payments), payments) = 0
  <2>1. SumFunctionOnSet(AmountsOf(payments), {}) = 0
    BY SumEmpty
  <2> QED
    BY <1>1, <2>1, Zenon
<1> QED
  BY <1>1, <1>2, FS_EmptySet DEF Booked

LEMMA AddsUp == PixInv /\ Booked => PaymentsAddUp
<1> SUFFICES ASSUME PixInv, Booked PROVE PaymentsAddUp
  OBVIOUS
<1>1. DOMAIN AmountsOf(payments) = payments
  BY DEF AmountsOf
<1>2. SumFunction(AmountsOf(payments)) = SumFunctionOnSet(AmountsOf(payments), payments)
  BY <1>1, Zenon DEF SumFunction
<1>3. invoice.paid = SumFunction([p \in payments |-> p.amount])
  BY <1>2, Zenon DEF Booked, AmountsOf
<1> QED
  BY <1>3 DEF PaymentsAddUp, PixInv, PaymentsOK

\* Money is booked once: what the invoice has been paid is the sum of the rows of
\* payments, each made by an event of its own, whatever events the gateway
\* repeats and whichever sessions serve them (ProcessWebhook).
THEOREM MoneyIsBookedOnce == Spec => []PaymentsAddUp
<1>1. Spec => []Booked
  BY InitBooks, NextBooks, Invariant, PTL DEF Spec
<1> QED
  BY <1>1, AddsUp, Invariant, PTL

===============================================================================
