--------------------------------- MODULE Outbox ---------------------------------
(***************************************************************************)
(* The outbox of mails and the job queue, which the workers empty in turn  *)
(* (packages jobs and notification).                                       *)
(*                                                                         *)
(* Both queues are tables whose rows are claimed with FOR UPDATE SKIP      *)
(* LOCKED, marked, and handled after the commit; they differ only in what  *)
(* a failure does.  "taken" stands for processing and running, "done" for  *)
(* sent and completed.  Retries wait for 30 seconds: a row that is pending *)
(* may be claimed at any later time.                                       *)
(***************************************************************************)
EXTENDS Integers, FiniteSets, FiniteSetsExt

CONSTANTS
  WorkerId,      \* worker processes
  Event,         \* rows of outbox_events
  Job,           \* rows of jobs
  Batch,         \* Runner.Batch
  AttemptLimit,  \* attempts after which a failed event is given up
  MaxFaults,     \* bound: crashes and errors of the database
  MaxAttempts,   \* bound: attempts of a job
  None           \* SQL NULL

ASSUME OutboxAssumption ==
  /\ Batch \in Nat \ {0} /\ AttemptLimit \in Nat /\ MaxFaults \in Nat
  /\ MaxAttempts \in Nat
  /\ Event \cap Job = {} /\ None \notin Event \cup Job \cup WorkerId

Item == Event \cup Job

Row == [status : {"pending", "taken", "done", "failed"}, attempts : Nat]

ASSUME NoneRow == None \notin Row

VARIABLES
  rows,    \* [Item -> row, or None before it is inserted]
  locks,   \* [WorkerId -> rows that its open transaction has locked]
  worker,  \* [WorkerId -> what the process is doing]
  faults   \* how many crashes and database errors there have been

vars == <<rows, locks, worker, faults>>

\* batch: the rows claimed that are still to be handled; item: the one at hand;
\* ok: whether its handler succeeded.
Starting == [pc |-> "select", queue |-> Event, batch |-> {}, item |-> None, ok |-> FALSE]

Init ==
  /\ rows = [i \in Item |-> None]
  /\ locks = [w \in WorkerId |-> {}]
  /\ worker = [w \in WorkerId |-> Starting]
  /\ faults = 0

\* PublishOutbox in the transaction of its caller, and Enqueue: NOW() is available.
Insert(i) ==
  /\ rows[i] = None
  /\ rows' = [rows EXCEPT ![i] = [status |-> "pending", attempts |-> 0]]
  /\ UNCHANGED <<locks, worker, faults>>

Other(queue) == IF queue = Event THEN Job ELSE Event

\* mutant: the rows are selected without FOR UPDATE SKIP LOCKED
PendingUnlocked(queue) == {i \in queue : rows[i] # None /\ rows[i].status = "pending"}

\* mutant: failed rows are selected as well
PendingOrFailed(queue) ==
  {i \in queue : /\ rows[i] # None /\ rows[i].status \in {"pending", "failed"}
                 /\ \A w \in WorkerId : i \notin locks[w]}

\* WHERE status = 'pending' ... FOR UPDATE SKIP LOCKED
Pending(queue) ==
  {i \in queue : /\ rows[i] # None /\ rows[i].status = "pending"
                 /\ \A w \in WorkerId : i \notin locks[w]}

\* The first statement of Acquire and AcquireOutbox.  When there is nothing to
\* do, a tick goes on to the jobs, and the next tick to the outbox.
Select(w, found) ==
  LET available == Pending(worker[w].queue) IN
  /\ worker[w].pc = "select"
  /\ found \subseteq available
  /\ Cardinality(found) = Min({Batch, Cardinality(available)})
  /\ locks' = [locks EXCEPT ![w] = found]
  /\ worker' = [worker EXCEPT ![w] =
       IF found = {} THEN [worker[w] EXCEPT !.queue = Other(@)]
                   ELSE [worker[w] EXCEPT !.pc = "claim"]]
  /\ UNCHANGED <<rows, faults>>

\* mutant: the attempts are not counted
ClaimedUncounted(row) == [row EXCEPT !.status = "taken"]

Claimed(row) == [row EXCEPT !.status = "taken", !.attempts = @ + 1]

\* The updates and the commit.
Claim(w) ==
  /\ worker[w].pc = "claim"
  /\ rows' = [i \in Item |-> IF i \in locks[w] THEN Claimed(rows[i]) ELSE rows[i]]
  /\ locks' = [locks EXCEPT ![w] = {}]
  /\ worker' = [worker EXCEPT ![w] = [@ EXCEPT !.pc = "handle", !.batch = locks[w]]]
  /\ UNCHANGED faults

\* OutboxHandler.Handle, Handler.Handle: the mail server takes the mail or not,
\* the statements of the job succeed or not.  (A job of unknown type succeeds,
\* and so does an event of unknown type.)
Handle(w, i, ok) ==
  /\ worker[w].pc = "handle" /\ i \in worker[w].batch
  /\ ~ok => i \in Event \/ rows[i].attempts < MaxAttempts
  /\ worker' = [worker EXCEPT ![w] = [@ EXCEPT !.pc = "settle", !.item = i, !.ok = ok]]
  /\ UNCHANGED <<rows, locks, faults>>

\* The attempts were read before they were counted: an event is tried once more
\* than the limit; a job is tried without limit.
GivenUp(i) == i \in Event /\ rows[i].attempts - 1 >= AttemptLimit

\* Complete, Fail, CompleteOutbox, FailOutbox
Settled(i, ok) ==
  [rows[i] EXCEPT !.status = IF ok THEN "done" ELSE IF GivenUp(i) THEN "failed" ELSE "pending"]

Afterwards(w) == [worker[w] EXCEPT !.pc = "handle", !.item = None, !.ok = FALSE,
                    !.batch = @ \ {worker[w].item}]

Settle(w) ==
  LET i == worker[w].item IN
  /\ worker[w].pc = "settle"
  /\ rows' = [rows EXCEPT ![i] = Settled(i, worker[w].ok)]
  /\ worker' = [worker EXCEPT ![w] = Afterwards(w)]
  /\ UNCHANGED <<locks, faults>>

\* The error of the statement is ignored: the row stays as it is.
SettleFails(w) ==
  /\ worker[w].pc = "settle" /\ faults < MaxFaults
  /\ faults' = faults + 1
  /\ worker' = [worker EXCEPT ![w] = Afterwards(w)]
  /\ UNCHANGED <<rows, locks>>

BatchDone(w) ==
  /\ worker[w].pc = "handle" /\ worker[w].batch = {}
  /\ worker' = [worker EXCEPT ![w] = [worker[w] EXCEPT !.pc = "select", !.queue = Other(@)]]
  /\ UNCHANGED <<rows, locks, faults>>

\* mutant: the transaction is not rolled back
ClaimFailsOpen(w) ==
  /\ worker[w].pc = "claim" /\ faults < MaxFaults
  /\ faults' = faults + 1
  /\ worker' = [worker EXCEPT ![w] = [worker[w] EXCEPT !.pc = "select", !.queue = Other(@)]]
  /\ UNCHANGED <<rows, locks>>

\* An error before the commit: the rows are pending as before, the tick goes on.
ClaimFails(w) ==
  /\ worker[w].pc = "claim" /\ faults < MaxFaults
  /\ faults' = faults + 1
  /\ locks' = [locks EXCEPT ![w] = {}]
  /\ worker' = [worker EXCEPT ![w] = [worker[w] EXCEPT !.pc = "select", !.queue = Other(@)]]
  /\ UNCHANGED rows

\* The process stops: its transaction is rolled back, its claims are forgotten.
Crash(w) ==
  /\ worker[w].pc # "down" /\ faults < MaxFaults
  /\ faults' = faults + 1
  /\ locks' = [locks EXCEPT ![w] = {}]
  /\ worker' = [worker EXCEPT ![w] = [Starting EXCEPT !.pc = "down"]]
  /\ UNCHANGED rows

Restart(w) ==
  /\ worker[w].pc = "down"
  /\ worker' = [worker EXCEPT ![w] = Starting]
  /\ UNCHANGED <<rows, locks, faults>>

Works(w) ==
  \/ \E found \in SUBSET worker[w].queue : Select(w, found)
  \/ Claim(w)
  \/ \E i \in worker[w].batch, ok \in BOOLEAN : Handle(w, i, ok)
  \/ Settle(w)
  \/ BatchDone(w)

Next ==
  \/ \E i \in Item : Insert(i)
  \/ \E w \in WorkerId :
       Works(w) \/ ClaimFails(w) \/ SettleFails(w) \/ Crash(w) \/ Restart(w)

Spec == Init /\ [][Next]_vars

\* A process that is up goes on, one that is down is started again.
FairSpec == Spec /\ \A w \in WorkerId : WF_vars(Works(w)) /\ WF_vars(Restart(w))

-------------------------------------------------------------------------------
\* What a process holds is what its position in the loop allows: locks only
\* between the query and the commit, a batch only after it, and one item at hand.
TypeOK ==
  /\ rows \in [Item -> Row \cup {None}]
  /\ locks \in [WorkerId -> SUBSET Item]
  /\ worker \in [WorkerId -> [pc : {"down", "select", "claim", "handle", "settle"},
                              queue : {Event, Job}, batch : SUBSET Item,
                              item : Item \cup {None}, ok : BOOLEAN]]
  /\ faults \in 0 .. MaxFaults
  /\ \A w \in WorkerId :
       /\ worker[w].pc # "claim" => locks[w] = {}
       /\ worker[w].pc \notin {"handle", "settle"} => worker[w].batch = {}
       /\ worker[w].pc = "settle" => worker[w].item \in worker[w].batch

\* An item that a worker is claiming or handling is claimed or handled by no other
\* (AcquireOutbox, Acquire): a mail is not sent twice at the same time.
ClaimedByOne ==
  \A w \in WorkerId :
    /\ \A i \in locks[w] : /\ rows[i] # None /\ rows[i].status = "pending"
                           /\ \A v \in WorkerId \ {w} : i \notin locks[v]
    /\ \A i \in worker[w].batch : /\ rows[i] # None /\ rows[i].status = "taken"
                                  /\ \A v \in WorkerId \ {w} : i \notin worker[v].batch

HeldBy(i) == {w \in WorkerId : i \in worker[w].batch}

Ended(i) ==
  /\ rows[i] # None
  /\ \/ rows[i].status \in {"done", "failed"}
     \/ rows[i].status = "taken" /\ HeldBy(i) = {}

\* Every event is sent or given up in the end, unless a worker that had claimed it
\* has failed (ProcessOutbox; the bound on the attempts).
EventsSettle == \A e \in Event : rows[e] # None ~> Ended(e)

StateOf(i) ==
  IF rows[i] = None THEN "absent"
  ELSE IF rows[i].status = "pending" THEN "queued"
  ELSE IF rows[i].status = "done" THEN "done"
  ELSE IF rows[i].status = "failed" THEN "given up"
  ELSE IF HeldBy(i) = {} THEN "lost" ELSE "held"

HolderOf(i) == IF HeldBy(i) = {} THEN None ELSE CHOOSE w \in HeldBy(i) : TRUE

Promise == INSTANCE Delivery WITH Worker <- WorkerId,
                                  state <- [i \in Item |-> StateOf(i)],
                                  holder <- [i \in Item |-> HolderOf(i)]

\* The two queues deliver as the abstract specification promises.
DeliversAsPromised == Promise!Spec
===============================================================================
