----------------------------- MODULE AccountsProofs -----------------------------
(***************************************************************************)
(* Proofs about Accounts, for any number of users and sessions: the types, *)
(* and what the second factor, the internal roles, the guard of the last   *)
(* administrator and the limits of the customers promise.                  *)
(***************************************************************************)
EXTENDS Accounts, TLAPS, FiniteSetTheorems, Sums

Fields == {"op", "pc", "user", "arg", "seen"}

ReplacePc == {"delete", "insert"}

\* What a session knows of its request, whatever the others do.
RequestOK(r) ==
  /\ DOMAIN r = Fields
  /\ r.pc # "idle" => r.user \in Exists
  /\ r.pc \in {"verified", "enqueue", "enqueued", "activate", "record", "limit", "invite"} =>
       r.user \in Customers
  /\ r.pc \in {"activate", "record", "limit"} => r.arg \in Nat
  /\ r.pc = "limit" => r.seen \in Nat
  /\ r.pc = "wrong" => r.seen \in 0 .. MaxFailed - 1
  /\ r.pc \in {"check", "enter", "session"} => r.op = "login"
  /\ r.op = "login" => r.arg \in Audience /\ r.pc \in {"wrong", "check", "enter", "revoke", "session"}
  /\ r.pc = "enable" => r.arg \in proved[r.user]
  /\ r.pc = "invite" => r.arg \in StaffRole
  /\ r.pc = "accept" => r.arg \in DOMAIN invitations
  /\ r.pc \in ReplacePc \cup {"count", "write"} => r.op \in StaffOp
  /\ r.op \in StaffOp => r.pc \in ReplacePc \cup {"count", "write", "revoke"}
  /\ r.pc \in ReplacePc => r.op # "status"
  /\ r.pc = "write" => r.op = "status"
  /\ r.op \in {"assign", "role"} => r.arg \in StaffRole
  /\ r.op = "status" => r.arg \in {"active", "suspended", "disabled"}

PeopleOK ==
  /\ users \in [User -> UserRow \cup {None}]
  /\ roles \in [User -> SUBSET StaffRole]
  /\ customers \in [User -> CustomerRow \cup {None}]
  /\ history \in [User -> Seq([change : BOOLEAN, prev : Nat, new : Nat])]
  /\ proved \in [User -> SUBSET (Nat \cup {None})]
  /\ Customers \subseteq Exists
  /\ \A u \in Customers : Remembers(customers[u])
  /\ \A u \in Exists : users[u].status = "pending_email" => u \in Customers

TokenOf(S) == [user : S, used : BOOLEAN, expired : BOOLEAN]

InvitationOf(S) ==
  [user : S, role : StaffRole, accepted : BOOLEAN, revoked : BOOLEAN, expired : BOOLEAN]

SessionOf(S) == [user : S, audience : Audience, live : BOOLEAN]

PapersOK ==
  /\ tokens \in Seq(TokenOf(Customers))
  /\ invitations \in Seq(InvitationOf(Customers))
  /\ sessions \in Seq(SessionOf(Exists))

RequestsOK ==
  /\ requests \in Nat
  /\ DOMAIN tx = Txn
  /\ \A t \in Txn : RequestOK(tx[t])

LocksOK == \A l \in locks : l.tx \in Txn /\ tx[l.tx].pc \in {"verified", "limit"}

Types == PeopleOK /\ PapersOK /\ RequestsOK /\ LocksOK

\* A user without a crossed replacement has one role, and one session replaces it.
SingleRoles ==
  \A u \in User \ crossed :
    /\ \A x, y \in roles[u] : x = y
    /\ \A t \in Replacing(u) : roles[u] \subseteq tx[t].seen /\ Replacing(u) = {t}

\* Whoever else than u is an active administrator.
OtherAdmin(u) == \E v \in ActiveSystemAdmins : v # u

\* Whoever has counted, or need not, leaves an administrator.
Justified(r) ==
  /\ r.pc \in ReplacePc => r.arg = "system_admin" \/ OtherAdmin(r.user)
  /\ r.pc = "write" => r.arg = "active" \/ OtherAdmin(r.user)

\* As long as the changes of the staff are one at a time, the session that makes
\* one knows that an administrator will remain.
Guarded ==
  ~unguarded =>
    /\ ActiveSystemAdmins # {}
    /\ \A s, t \in Txn : tx[s].op \in StaffOp /\ tx[t].op \in StaffOp => s = t
    /\ \A t \in Txn : Justified(tx[t])

AccountsInv == Types /\ EnabledSecretProved /\ SingleRoles /\ Guarded

-------------------------------------------------------------------------------
(* Sequences.                                                                *)

LEMMA SeqMap ==
  ASSUME NEW S, NEW T, NEW s \in Seq(S), NEW f, DOMAIN f = DOMAIN s,
         f = [i \in DOMAIN s |-> f[i]], \A i \in DOMAIN s : f[i] \in T
  PROVE  f \in Seq(T) /\ Len(f) = Len(s)
<1>1. Len(s) \in Nat /\ DOMAIN s = 1 .. Len(s)
  OBVIOUS
<1>2. f \in [1 .. Len(s) -> T]
  BY <1>1
<1> QED
  BY <1>1, <1>2

LEMMA SeqWider ==
  ASSUME NEW S, NEW T, S \subseteq T, NEW s \in Seq(S)
  PROVE  s \in Seq(T)
BY SeqMap

LEMMA SeqExcept ==
  ASSUME NEW S, NEW s \in Seq(S), NEW k, NEW r, k \in DOMAIN s => r \in S
  PROVE  [s EXCEPT ![k] = r] \in Seq(S) /\ DOMAIN [s EXCEPT ![k] = r] = DOMAIN s
<1> DEFINE f == [s EXCEPT ![k] = r]
<1>1. DOMAIN f = DOMAIN s /\ f = [i \in DOMAIN s |-> f[i]]
  OBVIOUS
<1>2. \A i \in DOMAIN s : f[i] \in S
  OBVIOUS
<1> QED
  BY <1>1, <1>2, SeqMap

LEMMA SeqAppend ==
  ASSUME NEW S, NEW s \in Seq(S), NEW r \in S
  PROVE  Append(s, r) \in Seq(S) /\ DOMAIN s \subseteq DOMAIN Append(s, r)
OBVIOUS

-------------------------------------------------------------------------------
(* The rows of people.                                                       *)

\* Nobody disappears.
Grow == Exists \subseteq Exists' /\ Customers \subseteq Customers'

UserKept(r, s) ==
  s \in UserRow /\ (s.status = "pending_email" => r.status = "pending_email")

UsersMove ==
  /\ users' \in [User -> UserRow \cup {None}]
  /\ \A u \in User : users'[u] = users[u] \/ (users[u] # None /\ UserKept(users[u], users'[u]))

CustomersMove ==
  /\ customers' \in [User -> CustomerRow \cup {None}]
  /\ \A u \in User :
       \/ customers'[u] = customers[u]
       \/ customers[u] # None /\ customers'[u] \in CustomerRow /\ Remembers(customers'[u])

RestMoves ==
  /\ roles' \in [User -> SUBSET StaffRole]
  /\ history' \in [User -> Seq([change : BOOLEAN, prev : Nat, new : Nat])]
  /\ proved' \in [User -> SUBSET (Nat \cup {None})]

LEMMA NoneApart ==
  /\ None \notin UserRow /\ None \notin CustomerRow /\ None \notin User /\ None \notin Nat
  /\ None \notin CustomerStatus
BY NoneRow, AccountsAssumption

LEMMA PeopleMove ==
  ASSUME PeopleOK, UsersMove, CustomersMove, RestMoves
  PROVE  PeopleOK' /\ Grow
<1>1. \A u \in User : /\ users'[u] = None <=> users[u] = None
                      /\ customers'[u] = None <=> customers[u] = None
  BY NoneApart DEF UsersMove, CustomersMove, UserKept
<1>2. Exists' = Exists /\ Customers' = Customers
  BY <1>1 DEF Exists, Customers
<1>3. \A u \in Customers' : Remembers(customers'[u])
  BY <1>2 DEF PeopleOK, CustomersMove, Customers
<1>4. \A u \in Exists' : users'[u].status = "pending_email" => u \in Customers'
  BY <1>2 DEF PeopleOK, UsersMove, UserKept, Exists
<1>5. (\A u \in Customers : Remembers(customers[u]))'
  BY <1>3 DEF Remembers
<1> QED
  BY <1>2, <1>4, <1>5 DEF PeopleOK, UsersMove, CustomersMove, RestMoves, Grow

LEMMA UserUpdate ==
  ASSUME PeopleOK, NEW u \in Exists, NEW r, users' = [users EXCEPT ![u] = r], UserKept(users[u], r)
  PROVE  UsersMove
BY DEF PeopleOK, UsersMove, UserKept, Exists

LEMMA CustomerUpdate ==
  ASSUME PeopleOK, NEW u \in Customers, NEW c, customers' = [customers EXCEPT ![u] = c],
         c \in CustomerRow, Remembers(c)
  PROVE  CustomersMove
BY DEF PeopleOK, CustomersMove, Customers

LEMMA SameUsers == ASSUME PeopleOK, users' = users PROVE UsersMove
BY DEF PeopleOK, UsersMove

LEMMA SameCustomers == ASSUME PeopleOK, customers' = customers PROVE CustomersMove
BY DEF PeopleOK, CustomersMove

LEMMA SameRest == ASSUME PeopleOK, roles' = roles, history' = history, proved' = proved PROVE RestMoves
BY DEF PeopleOK, RestMoves

LEMMA SamePeople ==
  ASSUME PeopleOK, UNCHANGED <<people, proved>>
  PROVE  PeopleOK' /\ Grow
BY PeopleMove, SameUsers, SameCustomers, SameRest DEF people

LEMMA OneRow ==
  ASSUME PeopleOK, NEW u \in User
  PROVE  /\ u \in Exists => users[u] \in UserRow
         /\ u \in Customers => customers[u] \in CustomerRow /\ Remembers(customers[u]) /\ u \in Exists
BY DEF PeopleOK, Exists, Customers

\* Requests that only change what others know of the customer or the user.
LEMMA RegisterPeople ==
  ASSUME Types, NEW t \in Txn, NEW u \in User, Register(t, u)
  PROVE  PeopleOK' /\ Grow
<1>1. u \notin Exists /\ u \notin Customers
  BY DEF Register, Exists, Types, PeopleOK
<1>2. NewUser \in UserRow /\ NewCustomer \in CustomerRow /\ Remembers(NewCustomer)
  BY DEF NewUser, UserRow, NewCustomer, CustomerRow, Remembers, UserStatus, CustomerStatus, MaxFailed
<1>3. /\ users' \in [User -> UserRow \cup {None}] /\ customers' \in [User -> CustomerRow \cup {None}]
      /\ users'[u] = NewUser /\ customers'[u] = NewCustomer
      /\ \A v \in User \ {u} : users'[v] = users[v] /\ customers'[v] = customers[v]
  BY <1>2 DEF Register, Types, PeopleOK
<1>4. Exists' = Exists \cup {u} /\ Customers' = Customers \cup {u}
  BY <1>2, <1>3, NoneApart DEF Exists, Customers
<1>5. \A v \in Customers' : Remembers(customers'[v])
  BY <1>1, <1>2, <1>3, <1>4 DEF Types, PeopleOK, Customers
<1>6. \A v \in Exists' : users'[v].status = "pending_email" => v \in Customers'
  BY <1>1, <1>3, <1>4 DEF Types, PeopleOK, Exists
<1>7. roles' = roles /\ history' = history /\ proved' = proved
  BY DEF Register, ghosts
<1>8. (\A v \in Customers : Remembers(customers[v]))'
  BY <1>5 DEF Remembers
<1> QED
  BY <1>3, <1>4, <1>6, <1>7, <1>8 DEF Types, PeopleOK, Grow

\* The second write of a verification, whichever comes first.
LEMMA VerifiedPeople ==
  ASSUME Types, NEW t \in Txn, Verified(t)
  PROVE  PeopleOK' /\ Grow
<1> PICK u : u = tx[t].user
  OBVIOUS
<1>1. u \in Customers /\ u \in User
  BY DEF Verified, Types, RequestsOK, RequestOK, Customers
<1> PICK c : c = customers[u]
  OBVIOUS
<1>2. c \in CustomerRow /\ Remembers(c) /\ u \in Exists /\ users[u] \in UserRow
  BY <1>1, OneRow DEF Types
<1> PICK d : d = [c EXCEPT !.status = IF c.status = "blocked" THEN c.status ELSE "approved",
                           !.limit = IF tx[t].seen THEN DefaultLimit ELSE c.limit]
  OBVIOUS
<1>3. d \in CustomerRow /\ Remembers(d)
  BY ZenonT(40), <1>2, NoneApart, AccountsAssumption DEF CustomerRow, CustomerStatus, Remembers
<1>4. customers' = [customers EXCEPT ![u] = d]
  BY <1>1 DEF Verified, Types, PeopleOK
<1>5. users' = [users EXCEPT ![u] = [users[u] EXCEPT !.status = "active"]]
  BY <1>1 DEF Verified, Types, PeopleOK
<1>6. UserKept(users[u], [users[u] EXCEPT !.status = "active"])
  BY SMTT(30), <1>2 DEF UserKept, UserRow, UserStatus
<1>7. UsersMove /\ CustomersMove
  BY <1>1, <1>2, <1>3, <1>4, <1>5, <1>6, UserUpdate, CustomerUpdate DEF Types
<1>8. RestMoves
  BY SameRest DEF Verified, Types
<1> QED
  BY <1>7, <1>8, PeopleMove DEF Types

LEMMA CustomerPeople ==
  ASSUME Types, NEW t \in Txn,
         \E u \in Customers : (\E limit \in Limits : Approve(t, u, limit)) \/ Block(t, u) \/ Unblock(t, u)
  PROVE  PeopleOK' /\ Grow
<1> PICK u \in Customers : (\E limit \in Limits : Approve(t, u, limit)) \/ Block(t, u) \/ Unblock(t, u)
  OBVIOUS
<1> PICK c : c = customers[u]
  OBVIOUS
<1>1. c \in CustomerRow /\ Remembers(c) /\ u \in User
  BY OneRow DEF Types, Customers
<1>2. PICK d : customers' = [customers EXCEPT ![u] = d] /\ d \in CustomerRow /\ Remembers(d)
  <2>1. CASE \E limit \in Limits : Approve(t, u, limit)
    <3> PICK limit \in Limits : Approve(t, u, limit)
      BY <2>1
    <3>1. customers' = [customers EXCEPT ![u] = [c EXCEPT !.status = "approved", !.limit = limit]]
      BY <1>1 DEF Approve, Types, PeopleOK
    <3>2. [c EXCEPT !.status = "approved", !.limit = limit] \in CustomerRow
          /\ Remembers([c EXCEPT !.status = "approved", !.limit = limit])
      BY <1>1, AccountsAssumption DEF Approve, CustomerRow, CustomerStatus, Remembers
    <3> QED
      BY <3>1, <3>2
  <2>2. CASE Block(t, u)
    <3>1. customers' = [customers EXCEPT ![u] = [c EXCEPT !.before = c.status, !.status = "blocked"]]
      BY <1>1, <2>2 DEF Block, Types, PeopleOK
    <3>2. [c EXCEPT !.before = c.status, !.status = "blocked"] \in CustomerRow
          /\ Remembers([c EXCEPT !.before = c.status, !.status = "blocked"])
      BY <1>1, <2>2 DEF Block, CustomerRow, CustomerStatus, Remembers
    <3> QED
      BY <3>1, <3>2
  <2>3. CASE Unblock(t, u)
    <3> PICK st : st = IF c.before = None THEN "approved" ELSE c.before
      OBVIOUS
    <3>1. customers' = [customers EXCEPT ![u] = [c EXCEPT !.before = None, !.status = st]]
      BY <1>1, <2>3 DEF Unblock, Types, PeopleOK
    <3>2. st \in {"pending", "approved"}
      BY <1>1, <2>3, NoneApart DEF Unblock, Remembers
    <3>3. [c EXCEPT !.before = None, !.status = st] \in CustomerRow
          /\ Remembers([c EXCEPT !.before = None, !.status = st])
      BY <1>1, <3>2 DEF CustomerRow, CustomerStatus, Remembers
    <3> QED
      BY <3>1, <3>3
  <2> QED
    BY <2>1, <2>2, <2>3
<1>3. users' = users /\ roles' = roles /\ history' = history /\ proved' = proved
  BY DEF Approve, Block, Unblock, ghosts
<1> QED
  BY <1>2, <1>3, CustomerUpdate, SameUsers, SameRest, PeopleMove DEF Types

\* The writes of a limit and of an approval in the history.
LEMMA HistoryPeople ==
  ASSUME Types, NEW t \in Txn, RecordApproval(t) \/ LimitChanged(t)
  PROVE  PeopleOK' /\ Grow
<1> PICK u : u = tx[t].user
  OBVIOUS
<1> PICK h : h = [change |-> FALSE, prev |-> 0, new |-> tx[t].arg]
  OBVIOUS
<1> PICK k : k = [change |-> TRUE, prev |-> tx[t].seen, new |-> tx[t].arg]
  OBVIOUS
<1> DEFINE Entry == [change : BOOLEAN, prev : Nat, new : Nat]
<1>1. /\ u \in Customers /\ u \in User /\ tx[t].arg \in Nat
      /\ tx[t].pc = "limit" => tx[t].seen \in Nat
  BY DEF RecordApproval, LimitChanged, Types, RequestsOK, RequestOK, Customers
<1>2. customers[u] \in CustomerRow /\ Remembers(customers[u]) /\ history[u] \in Seq(Entry)
  BY <1>1, OneRow DEF Types, PeopleOK
<1>3. users' = users /\ roles' = roles /\ proved' = proved
  BY DEF RecordApproval, LimitChanged, ghosts
<1>4. CASE RecordApproval(t)
  <2>1. h \in Entry /\ Append(history[u], h) \in Seq(Entry)
    BY <1>1, <1>2, SeqAppend
  <2>2. history' = [history EXCEPT ![u] = Append(history[u], h)]
    BY <1>4 DEF RecordApproval
  <2>3. RestMoves
    BY <1>1, <1>3, <2>1, <2>2 DEF RestMoves, Types, PeopleOK
  <2> QED
    BY <1>3, <1>4, <2>3, SameUsers, SameCustomers, PeopleMove DEF Types, RecordApproval
<1>5. CASE LimitChanged(t)
  <2>1. k \in Entry /\ Append(history[u], k) \in Seq(Entry)
    BY <1>1, <1>2, <1>5, SeqAppend DEF LimitChanged
  <2>2. history' = [history EXCEPT ![u] = Append(history[u], k)]
    BY <1>5 DEF LimitChanged
  <2>3. RestMoves
    BY <1>1, <1>3, <2>1, <2>2 DEF RestMoves, Types, PeopleOK
  <2> PICK c : c = [customers[u] EXCEPT !.limit = tx[t].arg]
    OBVIOUS
  <2>4. c \in CustomerRow /\ Remembers(c)
    BY <1>1, <1>2 DEF CustomerRow, Remembers
  <2>5. customers' = [customers EXCEPT ![u] = c]
    BY <1>1, <1>5 DEF LimitChanged, Types, PeopleOK
  <2>6. CustomersMove
    BY <1>1, <2>4, <2>5, CustomerUpdate DEF Types
  <2> QED
    BY <1>3, <2>3, <2>6, SameUsers, PeopleMove DEF Types
<1> QED
  BY <1>4, <1>5

LEMMA LoginRow ==
  ASSUME NEW w \in UserRow, NEW n \in 0 .. MaxFailed - 1, NEW b \in BOOLEAN
  PROVE  UserKept(w, [w EXCEPT !.failed = n, !.locked = b])
BY DEF UserKept, UserRow

\* What the writes of a row of users are.
WritesUser(t) ==
  \/ ActivateApproved(t) \/ WrongPassword(t) \/ UpdateUserLoginState(t)
  \/ EnableMFA(t) \/ UpdateUserStatus(t) \/ Accepted(t)

LEMMA WritesUserRow ==
  ASSUME Types, NEW t \in Txn, WritesUser(t)
  PROVE  tx[t].user \in Exists /\ UsersMove
<1> PICK u : u = tx[t].user
  OBVIOUS
<1> PICK w : w = users[u]
  OBVIOUS
<1>1. RequestOK(tx[t]) /\ u \in Exists /\ u \in User
  BY DEF WritesUser, ActivateApproved, WrongPassword, UpdateUserLoginState, EnableMFA,
         UpdateUserStatus, Accepted, Types, RequestsOK, RequestOK, Exists
<1>2. w \in UserRow
  BY <1>1, OneRow DEF Types
<1>3. PICK r : users' = [users EXCEPT ![u] = r] /\ UserKept(w, r)
  <2>1. CASE ActivateApproved(t) \/ Accepted(t)
    <3>1. UserKept(w, [w EXCEPT !.status = "active"])
      BY <1>2 DEF UserKept, UserRow, UserStatus
    <3>2. users' = [users EXCEPT ![u] = [w EXCEPT !.status = "active"]]
      BY <1>1, <2>1 DEF ActivateApproved, Accepted, Types, PeopleOK
    <3> QED
      BY <3>1, <3>2
  <2>2. CASE WrongPassword(t)
    <3> PICK n : n = IF tx[t].seen + 1 >= MaxFailed THEN 0 ELSE tx[t].seen + 1
      OBVIOUS
    <3> PICK b : b = (tx[t].seen + 1 >= MaxFailed)
      OBVIOUS
    <3>1. tx[t].seen \in 0 .. MaxFailed - 1
      BY <1>1, <2>2 DEF WrongPassword, RequestOK
    <3>2. n \in 0 .. MaxFailed - 1 /\ b \in BOOLEAN
      BY <3>1 DEF MaxFailed
    <3>3. UserKept(w, [w EXCEPT !.failed = n, !.locked = b])
      BY <1>2, <3>2, LoginRow
    <3>4. users' = [users EXCEPT ![u] = [w EXCEPT !.failed = n, !.locked = b]]
      BY <1>1, <2>2 DEF WrongPassword, Types, PeopleOK
    <3> QED
      BY <3>3, <3>4
  <2>3. CASE UpdateUserLoginState(t)
    <3>1. UserKept(w, [w EXCEPT !.failed = 0, !.locked = FALSE])
      <4>1. 0 \in 0 .. MaxFailed - 1 /\ FALSE \in BOOLEAN
        BY DEF MaxFailed
      <4> QED
        BY <1>2, <4>1, LoginRow
    <3>2. users' = [users EXCEPT ![u] = [w EXCEPT !.failed = 0, !.locked = FALSE]]
      BY <1>1, <2>3 DEF UpdateUserLoginState, Types, PeopleOK
    <3> QED
      BY <3>1, <3>2
  <2>4. CASE EnableMFA(t)
    <3>1. tx[t].arg \in Nat \cup {None}
      BY <1>1, <2>4 DEF EnableMFA, RequestOK, Types, PeopleOK
    <3>2. UserKept(w, [w EXCEPT !.secret = tx[t].arg, !.mfa = TRUE])
      BY <1>2, <3>1 DEF UserKept, UserRow
    <3>3. users' = [users EXCEPT ![u] = [w EXCEPT !.secret = tx[t].arg, !.mfa = TRUE]]
      BY <1>1, <2>4 DEF EnableMFA, Types, PeopleOK
    <3> QED
      BY <3>2, <3>3
  <2>5. CASE UpdateUserStatus(t)
    <3>1. tx[t].arg \in {"active", "suspended", "disabled"}
      BY <1>1, <2>5 DEF UpdateUserStatus, RequestOK
    <3>2. UserKept(w, [w EXCEPT !.status = tx[t].arg])
      BY <1>2, <3>1 DEF UserKept, UserRow, UserStatus
    <3>3. users' = [users EXCEPT ![u] = [w EXCEPT !.status = tx[t].arg]]
      BY <1>1, <2>5 DEF UpdateUserStatus, Types, PeopleOK
    <3> QED
      BY <3>2, <3>3
  <2> QED
    BY <2>1, <2>2, <2>3, <2>4, <2>5 DEF WritesUser
<1> QED
  BY <1>1, <1>3, UserUpdate DEF Types

LEMMA WritesUserPeople ==
  ASSUME Types, NEW t \in Txn, WritesUser(t)
  PROVE  PeopleOK' /\ Grow
<1>1. UsersMove
  BY SMTT(30), WritesUserRow
<1>2. customers' = customers /\ history' = history /\ proved' = proved
  BY DEF WritesUser, ActivateApproved, WrongPassword, UpdateUserLoginState, EnableMFA,
         UpdateUserStatus, Accepted, ghosts
<1>3. RestMoves
  <2>1. CASE Accepted(t)
    <3>1. RequestOK(tx[t]) /\ PapersOK
      BY DEF Types, RequestsOK
    <3>2. tx[t].arg \in DOMAIN invitations
      BY <2>1, <3>1 DEF Accepted, RequestOK
    <3>3. invitations[tx[t].arg] \in InvitationOf(Customers)
      BY <3>1, <3>2 DEF PapersOK
    <3>4. invitations[tx[t].arg].role \in StaffRole
      BY <3>3 DEF InvitationOf
    <3>5. roles' \in [User -> SUBSET StaffRole]
      BY <2>1, <3>4 DEF Accepted, Types, PeopleOK
    <3> QED
      BY <1>2, <3>5 DEF RestMoves, Types, PeopleOK
  <2>2. CASE ~Accepted(t)
    <3>1. roles' = roles
      BY <2>2 DEF WritesUser, ActivateApproved, WrongPassword, UpdateUserLoginState, EnableMFA,
                  UpdateUserStatus
    <3> QED
      BY <1>2, <3>1, SameRest DEF Types
  <2> QED
    BY <2>1, <2>2
<1> QED
  BY <1>1, <1>2, <1>3, SameCustomers, PeopleMove DEF Types

LEMMA SetupPeople ==
  ASSUME Types, NEW t \in Txn, NEW u \in Exists, SetupMFA(t, u) \/ VerifyMFA(t, u)
  PROVE  PeopleOK' /\ Grow
<1> PICK w : w = users[u]
  OBVIOUS
<1>1. w \in UserRow /\ u \in User
  BY OneRow DEF Types, Exists
<1>2. CASE SetupMFA(t, u)
  <2>1. requests' \in Nat
    BY <1>2 DEF SetupMFA, Begin, Types, RequestsOK
  <2>2. UserKept(w, [w EXCEPT !.secret = requests', !.mfa = FALSE])
    BY <1>1, <2>1 DEF UserKept, UserRow
  <2>3. users' = [users EXCEPT ![u] = [w EXCEPT !.secret = requests', !.mfa = FALSE]]
    BY <1>1, <1>2 DEF SetupMFA, Types, PeopleOK
  <2>4. customers' = customers /\ roles' = roles /\ history' = history /\ proved' = proved
    BY <1>2 DEF SetupMFA, ghosts
  <2> QED
    BY <2>2, <2>3, <2>4, UserUpdate, SameCustomers, SameRest, PeopleMove DEF Types
<1>3. CASE VerifyMFA(t, u)
  <2>1. w.secret \in Nat \cup {None}
    BY <1>1, <1>3 DEF VerifyMFA, UserRow
  <2>2. proved' = [proved EXCEPT ![u] = proved[u] \cup {w.secret}]
    BY <1>3 DEF VerifyMFA
  <2>3. users' = users /\ customers' = customers /\ roles' = roles /\ history' = history
    BY <1>3 DEF VerifyMFA, people
  <2>4. RestMoves
    BY <1>1, <2>1, <2>2, <2>3 DEF RestMoves, Types, PeopleOK
  <2> QED
    BY <2>3, <2>4, SameUsers, SameCustomers, PeopleMove DEF Types
<1> QED
  BY <1>2, <1>3

\* The role that an InsertRole leaves, and a deadline that passes.
LEMMA InsertPeople ==
  ASSUME Types, NEW t \in Txn, InsertRole(t)
  PROVE  PeopleOK' /\ Grow
<1>1. tx[t].arg \in StaffRole /\ tx[t].user \in User
  BY DEF InsertRole, Types, RequestsOK, RequestOK, ReplacePc, StaffOp, Exists
<1>2. roles' \in [User -> SUBSET StaffRole]
  BY <1>1 DEF InsertRole, Types, PeopleOK
<1>3. users' = users /\ customers' = customers /\ history' = history /\ proved' = proved
  BY DEF InsertRole, ghosts
<1>4. RestMoves
  BY <1>2, <1>3 DEF RestMoves, Types, PeopleOK
<1> QED
  BY <1>3, <1>4, SameUsers, SameCustomers, PeopleMove DEF Types

LEMMA ExpirePeople ==
  ASSUME Types, Expire
  PROVE  PeopleOK' /\ Grow
<1>1. customers' = customers /\ roles' = roles /\ history' = history /\ proved' = proved
  BY DEF Expire, ghosts
<1>2. CASE users' = users
  BY <1>1, <1>2, SamePeople DEF Types, people
<1>3. ASSUME NEW u \in Exists, users[u].locked, users' = [users EXCEPT ![u].locked = FALSE]
      PROVE  UsersMove
  <2> PICK w : w = users[u]
    OBVIOUS
  <2>1. w \in UserRow /\ u \in User
    BY OneRow DEF Types, Exists
  <2>2. UserKept(w, [w EXCEPT !.locked = FALSE])
    BY <2>1 DEF UserKept, UserRow
  <2>3. users' = [users EXCEPT ![u] = [w EXCEPT !.locked = FALSE]]
    BY <1>3, <2>1 DEF Types, PeopleOK
  <2> QED
    BY <2>2, <2>3, UserUpdate DEF Types
<1>4. UsersMove
  BY <1>2, <1>3, SameUsers DEF Expire, Types
<1> QED
  BY <1>1, <1>4, SameCustomers, SameRest, PeopleMove DEF Types

\* Requests that are taken up before anything about people is written.
StartsQuietly(t) ==
  \/ verifyEmail(t) \/ resendVerification(t) \/ login(t) \/ logout(t) \/ changeLimit(t)
  \/ createInvitation(t) \/ revokeInvitation(t) \/ acceptInvitation(t)
  \/ assignStaffRole(t) \/ setRole(t) \/ setStatus(t) \/ revokeSessions(t)

ContinuesQuietly(t) ==
  \/ EnqueueVerification(t) \/ Enqueued(t) \/ CheckLogin(t) \/ DropError(t)
  \/ RevokeUserSessions(t) \/ CreateSession(t) \/ Invited(t) \/ Withdrawn(t)
  \/ EnsureNotLastActiveAdmin(t) \/ DeleteRoles(t) \/ Abort(t)

LEMMA StaffPeople ==
  ASSUME NEW t \in Txn, assignStaffRole(t) \/ setRole(t) \/ setStatus(t) \/ revokeSessions(t)
  PROVE  \E op, pc, u, arg, old : BeginStaffOp(t, op, pc, u, arg, old)
<1>1. CASE assignStaffRole(t)
  BY <1>1, Zenon DEF assignStaffRole, AssignStaffRoleFromCustomer, ChangeRole
<1>2. CASE setRole(t)
  BY <1>2, Zenon DEF setRole, SetUserRole, ChangeRole
<1>3. CASE setStatus(t)
  BY <1>3, Zenon DEF setStatus, SetUserStatus
<1>4. CASE revokeSessions(t)
  BY <1>4, Zenon DEF revokeSessions, RevokeStaffSessions
<1> QED
  BY <1>1, <1>2, <1>3, <1>4

LEMMA PeopleNext ==
  ASSUME Types, Next
  PROVE  PeopleOK' /\ Grow
<1> SUFFICES ASSUME NEW t \in Txn, Start(t) \/ Continue(t) \/ Abort(t)
             PROVE  PeopleOK' /\ Grow
  BY ExpirePeople DEF Next
<1>1. CASE register(t)
  BY <1>1, RegisterPeople DEF register
<1>2. CASE mfaSetup(t) \/ mfaVerify(t)
  BY <1>2, SetupPeople DEF mfaSetup, mfaVerify, AuthenticateAdminBearer, AuthenticateStoreBearer, Exists
<1>3. CASE approve(t) \/ blockCustomer(t) \/ unblockCustomer(t)
  BY <1>3, CustomerPeople DEF approve, blockCustomer, unblockCustomer
<1>4. CASE StartsQuietly(t)
  <2>1. CASE verifyEmail(t) \/ resendVerification(t) \/ login(t) \/ logout(t) \/ changeLimit(t)
    BY <2>1, SamePeople DEF verifyEmail, VerifyEmail, resendVerification, ResendVerification, login, Login,
         logout, Logout, changeLimit, ChangeLimit, people, ghosts, Types
  <2>2. CASE createInvitation(t) \/ revokeInvitation(t) \/ acceptInvitation(t)
    BY <2>2, SamePeople DEF createInvitation, CreateInvitation, revokeInvitation, RevokeInvitation,
         acceptInvitation, AcceptInvitation, people, ghosts, Types
  <2>3. CASE assignStaffRole(t) \/ setRole(t) \/ setStatus(t) \/ revokeSessions(t)
    BY <2>3, StaffPeople, SamePeople DEF BeginStaffOp, people, Types
  <2> QED
    BY <1>4, <2>1, <2>2, <2>3 DEF StartsQuietly
<1>5. CASE ContinuesQuietly(t)
  BY <1>5, SamePeople DEF ContinuesQuietly, EnqueueVerification, Enqueued, CheckLogin, DropError,
       RevokeUserSessions, CreateSession, Invited, Withdrawn, EnsureNotLastActiveAdmin,
       DeleteRoles, Abort, people, ghosts, Types
<1>6. CASE WritesUser(t)
  BY <1>6, WritesUserPeople
<1>7. CASE Verified(t) \/ RecordApproval(t) \/ LimitChanged(t) \/ InsertRole(t)
  BY <1>7, VerifiedPeople, HistoryPeople, InsertPeople
<1> QED
  BY <1>1, <1>2, <1>3, <1>4, <1>5, <1>6, <1>7
     DEF Start, Continue, StartsQuietly, ContinuesQuietly, WritesUser

-------------------------------------------------------------------------------
(* Tokens, invitations and sessions.                                         *)

PapersGrow == PapersOK' /\ DOMAIN invitations \subseteq DOMAIN invitations'

LEMMA WiderPapers ==
  ASSUME Grow
  PROVE  /\ TokenOf(Customers) \subseteq TokenOf(Customers')
         /\ InvitationOf(Customers) \subseteq InvitationOf(Customers')
         /\ SessionOf(Exists) \subseteq SessionOf(Exists')
BY DEF Grow, TokenOf, InvitationOf, SessionOf

LEMMA PapersStay ==
  ASSUME Types, Grow
  PROVE  /\ tokens \in Seq(TokenOf(Customers'))
         /\ invitations \in Seq(InvitationOf(Customers'))
         /\ sessions \in Seq(SessionOf(Exists'))
BY WiderPapers, SeqWider DEF Types, PapersOK

LEMMA SamePapers ==
  ASSUME Types, Grow, UNCHANGED papers
  PROVE  PapersGrow
BY PapersStay DEF PapersGrow, PapersOK, papers, TokenOf, InvitationOf, SessionOf

LEMMA TokenPapers ==
  ASSUME Types, Grow, tokens' \in Seq(TokenOf(Customers')), UNCHANGED <<invitations, sessions>>
  PROVE  PapersGrow
BY PapersStay DEF PapersGrow, PapersOK, TokenOf, InvitationOf, SessionOf

LEMMA SessionPapers ==
  ASSUME Types, Grow, sessions' \in Seq(SessionOf(Exists')), UNCHANGED <<tokens, invitations>>
  PROVE  PapersGrow
BY PapersStay DEF PapersGrow, PapersOK, TokenOf, InvitationOf, SessionOf

LEMMA InvitationPapers ==
  ASSUME Types, Grow, invitations' \in Seq(InvitationOf(Customers')),
         DOMAIN invitations \subseteq DOMAIN invitations', UNCHANGED <<tokens, sessions>>
  PROVE  PapersGrow
BY PapersStay DEF PapersGrow, PapersOK, TokenOf, InvitationOf, SessionOf

LEMMA TokenRow ==
  ASSUME NEW U, NEW r \in TokenOf(U), NEW b \in BOOLEAN
  PROVE  [r EXCEPT !.used = b] \in TokenOf(U) /\ [r EXCEPT !.expired = b] \in TokenOf(U)
BY DEF TokenOf

LEMMA SessionRow ==
  ASSUME NEW U, NEW r \in SessionOf(U), NEW b \in BOOLEAN
  PROVE  [r EXCEPT !.live = b] \in SessionOf(U)
BY DEF SessionOf

LEMMA InvitationRow ==
  ASSUME NEW U, NEW r \in InvitationOf(U), NEW b \in BOOLEAN
  PROVE  /\ [r EXCEPT !.accepted = b] \in InvitationOf(U)
         /\ [r EXCEPT !.revoked = b] \in InvitationOf(U)
         /\ [r EXCEPT !.expired = b] \in InvitationOf(U)
BY DEF InvitationOf

LEMMA TokensNext ==
  ASSUME Types, Grow, NEW t \in Txn,
         \/ Verified(t) \/ Enqueued(t)
         \/ \E u \in User : Register(t, u) /\ u \in Customers'
  PROVE  PapersGrow
<1> DEFINE S == TokenOf(Customers')
<1>1. tokens \in Seq(S)
  BY PapersStay
<1>2. \A k \in DOMAIN tokens : /\ tokens[k] \in S
                               /\ [tokens[k] EXCEPT !.used = TRUE] \in S
  <2>1. TRUE \in BOOLEAN /\ \A k \in DOMAIN tokens : tokens[k] \in S
    BY <1>1
  <2> QED
    BY <2>1, TokenRow
<1>3. CASE Verified(t)
  <2>1. tokens' = [tokens EXCEPT ![tx[t].arg] = [tokens[tx[t].arg] EXCEPT !.used = TRUE]]
    BY <1>3 DEF Verified
  <2>2. tokens' \in Seq(S)
    BY <1>1, <1>2, <2>1, SeqExcept
  <2> QED
    BY <1>3, <2>2, TokenPapers DEF Verified
<1>4. CASE Enqueued(t)
  <2> PICK u : u = tx[t].user
    OBVIOUS
  <2> PICK f : f = [k \in DOMAIN tokens |->
                      IF k \in tx[t].seen THEN [tokens[k] EXCEPT !.used = TRUE] ELSE tokens[k]]
    OBVIOUS
  <2>1. u \in Customers'
    BY <1>4 DEF Enqueued, Types, RequestsOK, RequestOK, Grow
  <2>2. f \in Seq(S)
    BY <1>1, <1>2, SeqMap
  <2>3. [user |-> u, used |-> FALSE, expired |-> FALSE] \in S
    BY <2>1 DEF TokenOf
  <2>4. tokens' = Append(f, [user |-> u, used |-> FALSE, expired |-> FALSE])
    BY <1>4 DEF Enqueued
  <2>5. tokens' \in Seq(S)
    BY <2>2, <2>3, <2>4, SeqAppend
  <2> QED
    BY <1>4, <2>5, TokenPapers DEF Enqueued
<1>5. ASSUME NEW u \in User, Register(t, u), u \in Customers'
      PROVE  PapersGrow
  <2>1. [user |-> u, used |-> FALSE, expired |-> FALSE] \in S
    BY <1>5 DEF TokenOf
  <2>2. tokens' \in Seq(S)
    BY <1>1, <1>5, <2>1, SeqAppend DEF Register
  <2> QED
    BY <1>5, <2>2, TokenPapers DEF Register
<1> QED
  BY <1>3, <1>4, <1>5

LEMMA SessionsNext ==
  ASSUME Types, Grow, NEW t \in Txn, RevokeUserSessions(t) \/ CreateSession(t) \/ logout(t)
  PROVE  PapersGrow
<1> DEFINE S == SessionOf(Exists')
<1>1. sessions \in Seq(S)
  BY PapersStay
<1>2. \A k \in DOMAIN sessions : /\ sessions[k] \in S
                                 /\ [sessions[k] EXCEPT !.live = FALSE] \in S
  <2>1. FALSE \in BOOLEAN /\ \A k \in DOMAIN sessions : sessions[k] \in S
    BY <1>1
  <2> QED
    BY <2>1, SessionRow
<1>3. UNCHANGED <<tokens, invitations>>
  BY DEF RevokeUserSessions, CreateSession, logout, Logout
<1>4. sessions' \in Seq(S)
  <2>1. CASE RevokeUserSessions(t)
    <3> PICK audience : audience = IF tx[t].op = "login" THEN tx[t].arg ELSE "admin"
      OBVIOUS
    <3>1. sessions' = [i \in DOMAIN sessions |->
             IF sessions[i].user = tx[t].user /\ sessions[i].audience = audience
               THEN [sessions[i] EXCEPT !.live = FALSE] ELSE sessions[i]]
      BY <2>1 DEF RevokeUserSessions
    <3> QED
      BY <1>1, <1>2, <3>1, SeqMap
  <2>2. CASE CreateSession(t)
    <3>1. tx[t].user \in Exists' /\ tx[t].arg \in Audience
      BY <2>2 DEF CreateSession, Types, RequestsOK, RequestOK, Grow
    <3>2. [user |-> tx[t].user, audience |-> tx[t].arg, live |-> TRUE] \in S
      BY <3>1 DEF SessionOf
    <3> QED
      BY <1>1, <2>2, <3>2, SeqAppend DEF CreateSession
  <2>3. CASE logout(t)
    <3> PICK i \in DOMAIN sessions : Logout(t, i)
      BY <2>3 DEF logout
    <3>1. sessions' = [sessions EXCEPT ![i] = [sessions[i] EXCEPT !.live = FALSE]]
      BY DEF Logout
    <3> QED
      BY <1>1, <1>2, <3>1, SeqExcept
  <2> QED
    BY <2>1, <2>2, <2>3
<1> QED
  BY <1>3, <1>4, SessionPapers

LEMMA InvitationsNext ==
  ASSUME Types, Grow, NEW t \in Txn, Invited(t) \/ Withdrawn(t) \/ Accepted(t)
  PROVE  PapersGrow
<1> DEFINE S == InvitationOf(Customers')
<1>1. invitations \in Seq(S)
  BY PapersStay
<1>2. \A k \in DOMAIN invitations : /\ invitations[k] \in S
                                    /\ [invitations[k] EXCEPT !.revoked = TRUE] \in S
                                    /\ [invitations[k] EXCEPT !.accepted = TRUE] \in S
  <2>1. TRUE \in BOOLEAN /\ \A k \in DOMAIN invitations : invitations[k] \in S
    BY <1>1
  <2> QED
    BY <2>1, InvitationRow
<1>3. UNCHANGED <<tokens, sessions>>
  BY DEF Invited, Withdrawn, Accepted
<1>4. invitations' \in Seq(S) /\ DOMAIN invitations \subseteq DOMAIN invitations'
  <2>1. CASE Invited(t)
    <3> PICK f : f = [i \in DOMAIN invitations |->
             IF invitations[i].user = tx[t].user /\ Open(invitations[i])
               THEN [invitations[i] EXCEPT !.revoked = TRUE] ELSE invitations[i]]
      OBVIOUS
    <3>1. f \in Seq(S) /\ DOMAIN f = DOMAIN invitations
      BY <1>1, <1>2, SeqMap
    <3>2. tx[t].user \in Customers' /\ tx[t].arg \in StaffRole
      BY <2>1 DEF Invited, Types, RequestsOK, RequestOK, Grow
    <3> PICK r : r = [user |-> tx[t].user, role |-> tx[t].arg, accepted |-> FALSE,
                      revoked |-> FALSE, expired |-> FALSE]
      OBVIOUS
    <3>3. r \in S
      BY <3>2 DEF InvitationOf
    <3>4. invitations' = Append(f, r)
      BY <2>1 DEF Invited
    <3> QED
      BY <3>1, <3>3, <3>4, SeqAppend
  <2>2. CASE Withdrawn(t)
    <3>1. invitations' = [invitations EXCEPT ![tx[t].arg] =
                            [invitations[tx[t].arg] EXCEPT !.revoked = TRUE]]
      BY <2>2 DEF Withdrawn
    <3> QED
      BY <1>1, <1>2, <3>1, SeqExcept
  <2>3. CASE Accepted(t)
    <3>1. invitations' = [invitations EXCEPT ![tx[t].arg] =
                            [invitations[tx[t].arg] EXCEPT !.accepted = TRUE]]
      BY <2>3 DEF Accepted
    <3> QED
      BY <1>1, <1>2, <3>1, SeqExcept
  <2> QED
    BY <2>1, <2>2, <2>3
<1> QED
  BY <1>3, <1>4, InvitationPapers

LEMMA ExpirePapers ==
  ASSUME Types, Grow, Expire
  PROVE  PapersGrow
<1>1. CASE UNCHANGED papers
  BY <1>1, SamePapers
<1>2. ASSUME NEW k \in DOMAIN tokens, tokens' = [tokens EXCEPT ![k].expired = TRUE],
             UNCHANGED <<invitations, sessions>>
      PROVE  PapersGrow
  <2>1. tokens \in Seq(TokenOf(Customers'))
    BY PapersStay
  <2>2. [tokens[k] EXCEPT !.expired = TRUE] \in TokenOf(Customers')
    <3>1. TRUE \in BOOLEAN /\ tokens[k] \in TokenOf(Customers')
      BY <2>1
    <3> QED
      BY <3>1, TokenRow
  <2>3. tokens' = [tokens EXCEPT ![k] = [tokens[k] EXCEPT !.expired = TRUE]]
    BY <1>2
  <2> QED
    BY <1>2, <2>1, <2>2, <2>3, SeqExcept, TokenPapers
<1>3. ASSUME NEW k \in DOMAIN invitations, invitations' = [invitations EXCEPT ![k].expired = TRUE],
             UNCHANGED <<tokens, sessions>>
      PROVE  PapersGrow
  <2>1. invitations \in Seq(InvitationOf(Customers'))
    BY PapersStay
  <2>2. [invitations[k] EXCEPT !.expired = TRUE] \in InvitationOf(Customers')
    <3>1. TRUE \in BOOLEAN /\ invitations[k] \in InvitationOf(Customers')
      BY <2>1
    <3> QED
      BY <3>1, InvitationRow
  <2>3. invitations' = [invitations EXCEPT ![k] = [invitations[k] EXCEPT !.expired = TRUE]]
    BY <1>3
  <2> QED
    BY <1>3, <2>1, <2>2, <2>3, SeqExcept, InvitationPapers
<1> QED
  BY <1>1, <1>2, <1>3 DEF Expire, papers

LEMMA PapersNext ==
  ASSUME Types, Grow, Next
  PROVE  PapersGrow
<1> SUFFICES ASSUME NEW t \in Txn, Start(t) \/ Continue(t) \/ Abort(t)
             PROVE  PapersGrow
  BY ExpirePapers DEF Next
<1>1. CASE register(t)
  <2> PICK u \in User : Register(t, u)
    BY <1>1 DEF register
  <2>1. customers'[u] = NewCustomer /\ NewCustomer \in CustomerRow
    BY DEF Register, Types, PeopleOK, NewCustomer, CustomerRow, CustomerStatus
  <2>2. u \in Customers'
    BY <2>1, NoneApart DEF Customers
  <2> QED
    BY <2>2, TokensNext
<1>2. CASE Verified(t) \/ Enqueued(t)
  BY <1>2, TokensNext
<1>3. CASE RevokeUserSessions(t) \/ CreateSession(t) \/ logout(t)
  BY <1>3, SessionsNext
<1>4. CASE Invited(t) \/ Withdrawn(t) \/ Accepted(t)
  BY <1>4, InvitationsNext
<1>5. CASE mfaSetup(t) \/ mfaVerify(t) \/ approve(t) \/ blockCustomer(t) \/ unblockCustomer(t)
  BY <1>5, SamePapers DEF mfaSetup, SetupMFA, mfaVerify, VerifyMFA, approve, Approve,
     blockCustomer, Block, unblockCustomer, Unblock
<1>6. CASE verifyEmail(t) \/ resendVerification(t) \/ login(t) \/ changeLimit(t)
  BY <1>6, SamePapers DEF verifyEmail, VerifyEmail, resendVerification, ResendVerification,
     login, Login, changeLimit, ChangeLimit
<1>7. CASE createInvitation(t) \/ revokeInvitation(t) \/ acceptInvitation(t)
  BY <1>7, SamePapers DEF createInvitation, CreateInvitation, revokeInvitation, RevokeInvitation,
     acceptInvitation, AcceptInvitation
<1>8. CASE assignStaffRole(t) \/ setRole(t) \/ setStatus(t) \/ revokeSessions(t)
  BY Zenon, <1>8, StaffPeople, SamePapers DEF BeginStaffOp
<1>9. CASE \/ EnqueueVerification(t) \/ ActivateApproved(t) \/ RecordApproval(t) \/ LimitChanged(t)
           \/ WrongPassword(t) \/ CheckLogin(t) \/ UpdateUserLoginState(t) \/ DropError(t)
           \/ EnableMFA(t) \/ EnsureNotLastActiveAdmin(t)
           \/ DeleteRoles(t) \/ InsertRole(t) \/ UpdateUserStatus(t) \/ Abort(t)
  BY Zenon, <1>9, SamePapers DEF EnqueueVerification, ActivateApproved, RecordApproval, LimitChanged,
     WrongPassword, CheckLogin, UpdateUserLoginState, DropError, EnableMFA, EnsureNotLastActiveAdmin,
     DeleteRoles, InsertRole, UpdateUserStatus, Abort
<1> QED
  BY <1>1, <1>2, <1>3, <1>4, <1>5, <1>6, <1>7, <1>8, <1>9 DEF Start, Continue

-------------------------------------------------------------------------------
(* The requests in flight and their locks.                                   *)

ProvedGrow == \A u \in User : proved[u] \subseteq proved'[u]

\* What a step of one session leaves to the others.
Around == Types /\ Grow /\ PapersGrow /\ ProvedGrow

LockingPc == {"verified", "limit"}

\* What has been read may change while a role is replaced.
SameRequest(q, r) ==
  /\ DOMAIN r = Fields
  /\ r.op = q.op /\ r.pc = q.pc /\ r.user = q.user /\ r.arg = q.arg
  /\ r.seen = q.seen \/ q.pc = "insert"

\* t keeps locks only between two statements of a transaction.
LocksMove(t, pc) ==
  \A l \in locks' : (l \in locks /\ l.tx # t) \/ (l.tx = t /\ pc \in LockingPc)

LEMMA RequestStays ==
  ASSUME Around, NEW q, NEW r, RequestOK(q), SameRequest(q, r)
  PROVE  RequestOK(r)'
<1>1. q.user \in Exists => q.user \in User /\ proved[q.user] \subseteq proved'[q.user]
  BY DEF Around, ProvedGrow, Exists
<1>2. Exists \subseteq Exists' /\ Customers \subseteq Customers' /\ DOMAIN invitations \subseteq DOMAIN invitations'
  BY DEF Around, Grow, PapersGrow
<1> QED
  BY <1>1, <1>2 DEF RequestOK, SameRequest

LEMMA RequestsMove ==
  ASSUME Around, NEW t \in Txn, NEW r, DOMAIN tx' = Txn, tx'[t] = r, requests' \in Nat,
         \A s \in Txn \ {t} : SameRequest(tx[s], tx'[s]),
         RequestOK(r)', LocksMove(t, r.pc)
  PROVE  RequestsOK' /\ LocksOK'
<1>1. \A s \in Txn : RequestOK(tx[s])'
  <2> SUFFICES ASSUME NEW s \in Txn PROVE RequestOK(tx[s])'
    OBVIOUS
  <2> PICK q : q = tx[s]
    OBVIOUS
  <2> PICK n : n = tx'[s]
    OBVIOUS
  <2>1. RequestOK(q)
    BY DEF Around, Types, RequestsOK
  <2>2. RequestOK(n)'
    <3>1. CASE s = t
      BY <3>1
    <3>2. CASE s # t
      BY <2>1, <3>2, RequestStays
    <3> QED
      BY <3>1, <3>2
  <2> QED
    BY <2>2 DEF RequestOK
<1>2. LocksOK'
  BY DEF Around, Types, LocksOK, LocksMove, LockingPc, SameRequest
<1> QED
  BY <1>1, <1>2 DEF RequestsOK

LEMMA OneMoves ==
  ASSUME Around, NEW t \in Txn, NEW r, tx' = [tx EXCEPT ![t] = r], requests' \in Nat,
         RequestOK(r)', LocksMove(t, r.pc)
  PROVE  RequestsOK' /\ LocksOK'
<1>1. DOMAIN tx' = Txn /\ tx'[t] = r /\ \A s \in Txn \ {t} : tx'[s] = tx[s]
  BY DEF Around, Types, RequestsOK
<1>2. \A s \in Txn \ {t} : SameRequest(tx[s], tx'[s])
  BY <1>1 DEF Around, Types, RequestsOK, RequestOK, SameRequest
<1> QED
  BY <1>1, <1>2, RequestsMove

LEMMA NoLocksOf ==
  ASSUME Types, NEW t \in Txn, tx[t].pc \notin LockingPc, locks' = locks, NEW pc
  PROVE  LocksMove(t, pc)
BY DEF Types, LocksOK, LocksMove, LockingPc

LEMMA LocksDropped ==
  ASSUME NEW t \in Txn, locks' = WithoutLocks(t), NEW pc
  PROVE  LocksMove(t, pc)
BY DEF LocksMove, WithoutLocks

LEMMA IdleOK == RequestOK(Idle)'
BY DEF RequestOK, Idle, Fields, ReplacePc, StaffOp

\* A request that ends, or that is answered at once.
LEMMA Ends ==
  ASSUME Around, NEW t \in Txn, Done(t), requests' = requests,
         locks' = WithoutLocks(t) \/ (locks' = locks /\ tx[t].pc \notin LockingPc)
  PROVE  RequestsOK' /\ LocksOK'
<1>1. LocksMove(t, Idle.pc)
  BY NoLocksOf, LocksDropped DEF Around
<1>2. requests' \in Nat /\ tx' = [tx EXCEPT ![t] = Idle]
  BY DEF Around, Types, RequestsOK, Done
<1> QED
  BY <1>1, <1>2, IdleOK, OneMoves

LEMMA Begins ==
  ASSUME Around, NEW t \in Txn, NEW r, Begin(t, r), RequestOK(r)', locks' = locks
  PROVE  RequestsOK' /\ LocksOK'
<1>1. tx[t].pc \notin LockingPc
  BY DEF Begin, Idle, LockingPc
<1>2. LocksMove(t, r.pc)
  BY <1>1, NoLocksOf DEF Around
<1>3. requests' \in Nat /\ tx' = [tx EXCEPT ![t] = r]
  BY DEF Around, Types, RequestsOK, Begin
<1> QED
  BY <1>2, <1>3, OneMoves

\* How a request goes on: from and to are what it does before and after.
CanGo(from, op, to) ==
  \/ from = "activate" /\ to = "record"
  \/ from = "check" /\ to = "enter"
  \/ from = "enter" /\ to = "revoke"
  \/ from = "revoke" /\ op = "login" /\ to = "session"
  \/ from = "count" /\ op = "status" /\ to = "write"
  \/ from = "count" /\ op # "status" /\ to = "delete"
  \/ from = "write" /\ to = "revoke"

LEMMA Goes ==
  ASSUME Around, NEW t \in Txn, NEW pc, Goto(t, pc), requests' = requests, locks' = locks,
         CanGo(tx[t].pc, tx[t].op, pc)
  PROVE  RequestsOK' /\ LocksOK'
<1> PICK q : q = tx[t]
  OBVIOUS
<1> PICK r : r = [q EXCEPT !.pc = pc]
  OBVIOUS
<1>1. RequestOK(q) /\ DOMAIN q = Fields
  BY DEF Around, Types, RequestsOK, RequestOK
<1>2. DOMAIN r = Fields /\ r.pc = pc /\ r.op = q.op /\ r.user = q.user /\ r.arg = q.arg /\ r.seen = q.seen
  BY <1>1 DEF Fields
<1>3. CanGo(q.pc, q.op, pc) /\ q.pc \notin LockingPc
  BY DEF CanGo, LockingPc
<1>4. /\ q.user \in Exists => q.user \in Exists'
      /\ q.user \in Customers => q.user \in Customers'
  BY DEF Around, Grow
<1>5. RequestOK(r)'
  BY <1>1, <1>2, <1>3, <1>4 DEF RequestOK, CanGo, ReplacePc, StaffOp
<1>6. LocksMove(t, r.pc)
  BY <1>3, NoLocksOf DEF Around
<1>7. requests' \in Nat /\ tx' = [tx EXCEPT ![t] = r]
  BY <1>1 DEF Around, Types, RequestsOK, Goto
<1> QED
  BY <1>5, <1>6, <1>7, OneMoves

LEMMA ContinuesRequests ==
  ASSUME Around, NEW t \in Txn, Continue(t) \/ Abort(t), ~DeleteRoles(t), ~InsertRole(t),
         ~Accepted(t), ~EnqueueVerification(t)
  PROVE  RequestsOK' /\ LocksOK'
<1>1. CASE Verified(t) \/ LimitChanged(t) \/ Abort(t)
  BY SMTT(30), <1>1, Ends DEF Verified, LimitChanged, Abort
<1>2. CASE \/ Enqueued(t) \/ RecordApproval(t) \/ WrongPassword(t) \/ CreateSession(t)
           \/ EnableMFA(t) \/ Invited(t) \/ Withdrawn(t)
  <2>1. tx[t].pc \notin LockingPc
    BY <1>2 DEF Enqueued, RecordApproval, WrongPassword, CreateSession, EnableMFA, Invited,
                Withdrawn, LockingPc
  <2> QED
    BY <1>2, <2>1, Ends DEF Enqueued, RecordApproval, WrongPassword, CreateSession, EnableMFA, Invited,
                Withdrawn
<1>3. CASE ActivateApproved(t)
  BY <1>3, Goes DEF ActivateApproved, CanGo
<1>4. CASE CheckLogin(t)
  BY <1>4, Goes DEF CheckLogin, CanGo
<1>5. CASE UpdateUserLoginState(t)
  BY <1>5, Goes DEF UpdateUserLoginState, CanGo
<1>6. CASE DropError(t)
  BY <1>6, Goes DEF DropError, CanGo
<1>7. CASE RevokeUserSessions(t)
  <2>1. CASE tx[t].op = "login"
    BY <1>7, <2>1, Goes DEF RevokeUserSessions, CanGo
  <2>2. CASE tx[t].op # "login"
    BY <1>7, <2>2, Ends DEF RevokeUserSessions, LockingPc
  <2> QED
    BY <2>1, <2>2
<1>8. CASE EnsureNotLastActiveAdmin(t)
  <2>1. CASE tx[t].op = "status"
    BY <1>8, <2>1, Goes DEF EnsureNotLastActiveAdmin, CanGo
  <2>2. CASE tx[t].op # "status"
    BY <1>8, <2>2, Goes DEF EnsureNotLastActiveAdmin, CanGo
  <2> QED
    BY <2>1, <2>2
<1>9. CASE UpdateUserStatus(t)
  <2>1. CASE tx[t].arg = "active"
    BY <1>9, <2>1, Ends DEF UpdateUserStatus, LockingPc
  <2>2. CASE tx[t].arg # "active"
    BY <1>9, <2>2, Goes DEF UpdateUserStatus, CanGo
  <2> QED
    BY <2>1, <2>2
<1> QED
  BY SMTT(30), <1>1, <1>2, <1>3, <1>4, <1>5, <1>6, <1>7, <1>8, <1>9 DEF Continue

\* A request that remembers what it has seen.
LEMMA SeesRequests ==
  ASSUME Around, NEW t \in Txn, DeleteRoles(t) \/ EnqueueVerification(t)
  PROVE  RequestsOK' /\ LocksOK'
<1> PICK q : q = tx[t]
  OBVIOUS
<1> PICK r : tx' = [tx EXCEPT ![t] = r] /\ r.op = q.op /\ r.user = q.user /\ r.arg = q.arg
             /\ DOMAIN r = Fields
             /\ \/ q.pc = "delete" /\ r.pc = "insert"
                \/ q.pc = "enqueue" /\ r.pc = "enqueued"
  <2>1. DOMAIN q = Fields /\ DOMAIN tx = Txn
    BY DEF Around, Types, RequestsOK, RequestOK
  <2>2. CASE DeleteRoles(t)
    <3> PICK r : r = [q EXCEPT !.seen = roles[tx[t].user], !.pc = "insert"]
      OBVIOUS
    <3>1. tx' = [tx EXCEPT ![t] = r]
      BY <2>1, <2>2 DEF DeleteRoles
    <3>2. r.op = q.op /\ r.user = q.user /\ r.arg = q.arg /\ DOMAIN r = Fields /\ r.pc = "insert"
      BY <2>1 DEF Fields
    <3>3. q.pc = "delete"
      BY <2>2 DEF DeleteRoles
    <3> QED
      BY <3>1, <3>2, <3>3, Zenon
  <2>3. CASE EnqueueVerification(t)
    <3> PICK K : K = {k \in DOMAIN tokens : tokens[k].user = tx[t].user /\ ~tokens[k].used}
      OBVIOUS
    <3> PICK r : r = [q EXCEPT !.pc = "enqueued", !.seen = K]
      OBVIOUS
    <3>1. tx' = [tx EXCEPT ![t] = r]
      BY <2>1, <2>3 DEF EnqueueVerification
    <3>2. r.op = q.op /\ r.user = q.user /\ r.arg = q.arg /\ DOMAIN r = Fields /\ r.pc = "enqueued"
      BY <2>1 DEF Fields
    <3>3. q.pc = "enqueue"
      BY <2>3 DEF EnqueueVerification
    <3> QED
      BY <3>1, <3>2, <3>3, Zenon
  <2> QED
    BY <2>2, <2>3
<1>1. RequestOK(q) /\ q.pc \notin LockingPc
  BY DEF Around, Types, RequestsOK, LockingPc
<1>2. /\ q.user \in Exists => q.user \in Exists'
      /\ q.user \in Customers => q.user \in Customers'
  BY DEF Around, Grow
<1>3. RequestOK(r)'
  BY <1>1, <1>2 DEF RequestOK, ReplacePc, StaffOp
<1>4. requests' = requests /\ locks' = locks
  BY DEF DeleteRoles, EnqueueVerification
<1>5. LocksMove(t, r.pc)
  BY <1>1, <1>4, NoLocksOf DEF Around
<1> QED
  BY <1>3, <1>4, <1>5, OneMoves DEF Around, Types, RequestsOK

\* The others that replace the role of the user lose sight of the rows that are gone.
LEMMA ReplacedOthers ==
  ASSUME Types, NEW t \in Txn, NEW u, NEW gone, NEW s \in Txn \ {t}
  PROVE  SameRequest(tx[s], Replaced(t, u, gone)[s])
<1>1. DOMAIN tx[s] = Fields
  BY DEF Types, RequestsOK, RequestOK
<1>2. CASE s \in Replacing(u)
  BY <1>1, <1>2 DEF SameRequest, Replaced, Replacing, Fields
<1>3. CASE s \notin Replacing(u)
  BY <1>1, <1>3 DEF SameRequest, Replaced
<1> QED
  BY <1>2, <1>3

LEMMA ReplacesRequests ==
  ASSUME Around, NEW t \in Txn, InsertRole(t) \/ Accepted(t)
  PROVE  RequestsOK' /\ LocksOK'
<1> PICK q : q = tx[t]
  OBVIOUS
<1>1. RequestOK(q) /\ DOMAIN q = Fields /\ DOMAIN tx = Txn /\ requests \in Nat
  BY DEF Around, Types, RequestsOK, RequestOK
<1>2. PICK f, r :
        /\ tx' = [f EXCEPT ![t] = r] /\ DOMAIN f = Txn
        /\ \A s \in Txn \ {t} : SameRequest(tx[s], f[s])
        /\ \/ InsertRole(t) /\ r = [q EXCEPT !.pc = "revoke", !.seen = None]
           \/ Accepted(t) /\ r = Idle
  <2>1. CASE InsertRole(t)
    <3> PICK f : f = Replaced(t, tx[t].user, tx[t].seen)
      OBVIOUS
    <3>1. f[t] = q /\ DOMAIN f = Txn
      BY <1>1 DEF Replaced
    <3>2. tx' = [f EXCEPT ![t] = [q EXCEPT !.pc = "revoke", !.seen = None]]
      BY <2>1, <3>1 DEF InsertRole
    <3> QED
      BY <2>1, <3>1, <3>2, ReplacedOthers DEF Around
  <2>2. CASE Accepted(t)
    <3> PICK f : f = Replaced(t, tx[t].user, roles[tx[t].user])
      OBVIOUS
    <3>1. DOMAIN f = Txn
      BY DEF Replaced
    <3>2. tx' = [f EXCEPT ![t] = Idle]
      BY <2>2 DEF Accepted
    <3> QED
      BY <2>2, <3>1, <3>2, ReplacedOthers DEF Around
  <2> QED
    BY <2>1, <2>2
<1>3. DOMAIN tx' = Txn /\ tx'[t] = r /\ \A s \in Txn \ {t} : SameRequest(tx[s], tx'[s])
  BY <1>2
<1>4. locks' = locks /\ requests' = requests /\ q.pc \notin LockingPc
  BY DEF InsertRole, Accepted, LockingPc
<1>5. q.user \in Exists => q.user \in Exists'
  BY DEF Around, Grow
<1>6. RequestOK(r)'
  <2>1. CASE InsertRole(t)
    <3>1. DOMAIN r = Fields /\ r.pc = "revoke" /\ r.op = q.op /\ r.user = q.user /\ r.arg = q.arg
      BY <1>1, <1>2, <2>1 DEF Fields, InsertRole, Accepted
    <3> QED
      BY <1>1, <1>5, <2>1, <3>1 DEF RequestOK, InsertRole, ReplacePc, StaffOp
  <2>2. CASE r = Idle
    BY <2>2, IdleOK
  <2> QED
    BY <1>2, <2>1, <2>2
<1>7. LocksMove(t, r.pc)
  BY <1>4, NoLocksOf DEF Around
<1> QED
  BY <1>1, <1>3, <1>4, <1>6, <1>7, RequestsMove

LEMMA RequestFields ==
  ASSUME NEW op, NEW pc, NEW u, NEW arg, NEW seen, NEW r, r = Request(op, pc, u, arg, seen)
  PROVE  /\ DOMAIN r = Fields
         /\ r.op = op /\ r.pc = pc /\ r.user = u /\ r.arg = arg /\ r.seen = seen
BY DEF Request, Fields

LEMMA VerifyRequests ==
  ASSUME Around, NEW t \in Txn, verifyEmail(t)
  PROVE  RequestsOK' /\ LocksOK'
<1> PICK k \in DOMAIN tokens : VerifyEmail(t, k)
  BY DEF verifyEmail
<1> PICK u : u = tokens[k].user
  OBVIOUS
<1> PICK pending : pending = (customers[u].status = "pending")
  OBVIOUS
<1> PICK r : r = Request("verify", "verified", u, k, pending)
  OBVIOUS
<1>1. Begin(t, r)
  BY DEF VerifyEmail
<1>2. tx[t].pc \notin LockingPc /\ requests' \in Nat /\ tx' = [tx EXCEPT ![t] = r]
  BY <1>1 DEF Begin, Idle, LockingPc, Around, Types, RequestsOK
<1>3. r.pc = "verified" /\ r.op = "verify" /\ r.user = u /\ DOMAIN r = Fields
  BY RequestFields
<1>4. u \in Customers' /\ u \in Exists'
  <2>1. tokens[k] \in TokenOf(Customers)
    BY SMTT(30) DEF Around, Types, PapersOK
  <2> QED
    BY <2>1 DEF TokenOf, Around, Grow, Types, PeopleOK
<1>5. RequestOK(r)'
  BY <1>3, <1>4 DEF RequestOK, ReplacePc, StaffOp
<1>6. \A l \in locks' : l \in locks \/ l.tx = t
  BY DEF VerifyEmail
<1>7. LocksMove(t, r.pc)
  BY <1>2, <1>3, <1>6 DEF LocksMove, LockingPc, Around, Types, LocksOK
<1> QED
  BY <1>2, <1>5, <1>7, OneMoves

LEMMA LimitRequests ==
  ASSUME Around, NEW t \in Txn, changeLimit(t)
  PROVE  RequestsOK' /\ LocksOK'
<1> PICK u \in Customers, limit \in Limits : ChangeLimit(t, u, limit)
  BY DEF changeLimit
<1> PICK seen : seen = customers[u].limit
  OBVIOUS
<1> PICK r : r = Request("limit", "limit", u, limit, seen)
  OBVIOUS
<1>1. Begin(t, r)
  BY DEF ChangeLimit
<1>2. tx[t].pc \notin LockingPc /\ requests' \in Nat /\ tx' = [tx EXCEPT ![t] = r]
  BY <1>1 DEF Begin, Idle, LockingPc, Around, Types, RequestsOK
<1>3. /\ r.pc = "limit" /\ r.op = "limit" /\ r.user = u /\ r.arg = limit /\ r.seen = seen
      /\ DOMAIN r = Fields
  BY RequestFields
<1>4. u \in Customers' /\ u \in Exists' /\ limit \in Nat /\ seen \in Nat
  <2>1. customers[u] \in CustomerRow /\ u \in Exists
    BY OneRow DEF Around, Types, Customers
  <2> QED
    BY <2>1, AccountsAssumption DEF CustomerRow, Around, Grow
<1>5. RequestOK(r)'
  BY <1>3, <1>4 DEF RequestOK, ReplacePc, StaffOp
<1>6. \A l \in locks' : l \in locks \/ l.tx = t
  BY DEF ChangeLimit, WithLock
<1>7. LocksMove(t, r.pc)
  BY <1>2, <1>3, <1>6 DEF LocksMove, LockingPc, Around, Types, LocksOK
<1> QED
  BY <1>2, <1>5, <1>7, OneMoves

LEMMA AnsweredRequests ==
  ASSUME Around, NEW t \in Txn,
         register(t) \/ logout(t) \/ mfaSetup(t) \/ blockCustomer(t) \/ unblockCustomer(t)
  PROVE  RequestsOK' /\ LocksOK'
<1>1. Begin(t, Idle) /\ locks' = locks
  BY DEF register, Register, logout, Logout, mfaSetup, SetupMFA, blockCustomer, Block,
         unblockCustomer, Unblock
<1> PICK r : r = Idle
  OBVIOUS
<1> QED
  BY <1>1, IdleOK, Begins

LEMMA StartsRequests ==
  ASSUME Around, NEW t \in Txn,
         \/ resendVerification(t) \/ login(t) \/ mfaVerify(t) \/ approve(t)
         \/ createInvitation(t) \/ revokeInvitation(t) \/ acceptInvitation(t)
  PROVE  RequestsOK' /\ LocksOK'
<1>1. Exists \subseteq Exists' /\ Customers \subseteq Customers' /\ Customers \subseteq Exists
      /\ DOMAIN invitations \subseteq DOMAIN invitations'
  BY DEF Around, Grow, PapersGrow, Types, PeopleOK
<1>2. CASE resendVerification(t)
  <2> PICK u \in User : ResendVerification(t, u)
    BY <1>2 DEF resendVerification
  <2> PICK r : r = Request("resend", "enqueue", u, None, None)
    OBVIOUS
  <2>1. u \in Customers
    BY DEF ResendVerification, Around, Types, PeopleOK
  <2>2. RequestOK(r)'
    BY <1>1, <2>1, RequestFields DEF RequestOK, ReplacePc, StaffOp
  <2> QED
    BY <2>2, Begins DEF ResendVerification
<1>3. CASE login(t)
  <2> PICK u \in User, audience \in Audience, right \in BOOLEAN : Login(t, u, audience, right)
    BY <1>3 DEF login
  <2> PICK failed : failed = users[u].failed
    OBVIOUS
  <2> PICK pc : pc = IF right THEN "check" ELSE "wrong"
    OBVIOUS
  <2> PICK r : r = Request("login", pc, u, audience, failed)
    OBVIOUS
  <2>1. u \in Exists /\ pc \in {"check", "wrong"}
    BY DEF Login
  <2>2. failed \in 0 .. MaxFailed - 1
    BY <2>1, OneRow DEF Around, Types, UserRow
  <2>3. RequestOK(r)'
    BY <1>1, <2>1, <2>2, RequestFields DEF RequestOK, ReplacePc, StaffOp
  <2> QED
    BY <2>3, Begins DEF Login
<1>4. CASE mfaVerify(t)
  <2> PICK u \in User : u \in Exists /\ VerifyMFA(t, u)
    BY <1>4 DEF mfaVerify, AuthenticateAdminBearer, AuthenticateStoreBearer, Exists
  <2> PICK secret : secret = users[u].secret
    OBVIOUS
  <2> PICK r : r = Request("mfa", "enable", u, secret, None)
    OBVIOUS
  <2>1. secret \in proved'[u]
    BY DEF VerifyMFA, Around, Types, PeopleOK
  <2>2. RequestOK(r)'
    BY <1>1, <2>1, RequestFields DEF RequestOK, ReplacePc, StaffOp
  <2> QED
    BY <2>2, Begins DEF VerifyMFA
<1>5. CASE approve(t)
  <2> PICK u \in Customers, limit \in Limits : Approve(t, u, limit)
    BY <1>5 DEF approve
  <2> PICK r : r = Request("approve", "activate", u, limit, None)
    OBVIOUS
  <2>1. limit \in Nat
    BY AccountsAssumption
  <2>2. RequestOK(r)'
    BY <1>1, <2>1, RequestFields DEF RequestOK, ReplacePc, StaffOp
  <2> QED
    BY <2>2, Begins DEF Approve
<1>6. CASE createInvitation(t)
  <2> PICK u \in User, role \in StaffRole : CreateInvitation(t, u, role)
    BY <1>6 DEF createInvitation
  <2> PICK r : r = Request("invite", "invite", u, role, None)
    OBVIOUS
  <2>1. u \in Customers
    BY DEF CreateInvitation
  <2>2. RequestOK(r)'
    BY <1>1, <2>1, RequestFields DEF RequestOK, ReplacePc, StaffOp
  <2> QED
    BY <2>2, Begins DEF CreateInvitation
<1>7. CASE revokeInvitation(t) \/ acceptInvitation(t)
  <2> PICK i \in DOMAIN invitations : RevokeInvitation(t, i) \/ AcceptInvitation(t, i)
    BY <1>7 DEF revokeInvitation, acceptInvitation
  <2> PICK u : u = invitations[i].user
    OBVIOUS
  <2> PICK r : /\ Begin(t, r)
               /\ r = Request("withdraw", "withdraw", u, i, None) \/ r = Request("accept", "accept", u, i, None)
    BY Zenon DEF RevokeInvitation, AcceptInvitation
  <2>1. u \in Customers
    <3>1. invitations[i] \in InvitationOf(Customers)
      BY DEF Around, Types, PapersOK
    <3> QED
      BY <3>1 DEF InvitationOf
  <2>2. /\ DOMAIN r = Fields /\ r.user = u /\ r.arg = i
        /\ \/ r.op = "withdraw" /\ r.pc = "withdraw"
           \/ r.op = "accept" /\ r.pc = "accept"
    BY RequestFields
  <2>3. RequestOK(r)'
    BY <1>1, <2>1, <2>2 DEF RequestOK, ReplacePc, StaffOp
  <2> QED
    BY <2>3, Begins DEF RevokeInvitation, AcceptInvitation
<1> QED
  BY <1>2, <1>3, <1>4, <1>5, <1>6, <1>7

LEMMA Managers ==
  ASSUME NEW a \in User, ManagesUsers(a)
  PROVE  a \in ActiveSystemAdmins /\ "system_admin" \in roles[a]
BY DEF ManagesUsers, InPanel, AuthenticateAdminBearer, ActiveSystemAdmins, Exists

\* A change of the staff that begins: its user, and unless it is going to count,
\* why an administrator will remain.
Grounds(op, pc, u, arg) ==
  \/ /\ op \in {"assign", "role"} /\ arg \in StaffRole
     /\ \/ pc = "count"
        \/ pc = "delete" /\ (arg = "system_admin" \/ OtherAdmin(u))
  \/ /\ op = "status" /\ arg \in {"active", "suspended", "disabled"}
     /\ \/ pc = "count"
        \/ pc = "write" /\ (arg = "active" \/ OtherAdmin(u))
  \/ op = "sessions" /\ pc = "revoke"

LEMMA StaffStart ==
  ASSUME Types, NEW t \in Txn,
         assignStaffRole(t) \/ setRole(t) \/ setStatus(t) \/ revokeSessions(t)
  PROVE  \E op, pc, u, arg, old :
           BeginStaffOp(t, op, pc, u, arg, old) /\ u \in Exists /\ Grounds(op, pc, u, arg)
<1>1. CASE assignStaffRole(t)
  <2> PICK a \in User, u \in User, role \in StaffRole :
        ManagesUsers(a) /\ AssignStaffRoleFromCustomer(t, u, role)
    BY <1>1 DEF assignStaffRole
  <2> PICK old \in IF roles[u] = {} THEN {None} ELSE roles[u] :
        old # role /\ ChangeRole(t, "assign", u, old, role)
    BY DEF AssignStaffRoleFromCustomer
  <2> PICK pc : pc = IF old = "system_admin" /\ role # "system_admin" THEN "count" ELSE "delete"
    OBVIOUS
  <2>1. BeginStaffOp(t, "assign", pc, u, role, old)
    BY DEF ChangeRole
  <2>2. u \in Exists
    BY DEF AssignStaffRoleFromCustomer, Types, PeopleOK
  <2>3. a \in ActiveSystemAdmins /\ "system_admin" \in roles[a]
    BY Managers
  <2>4. ASSUME old # "system_admin", role # "system_admin"
        PROVE  OtherAdmin(u)
    <3>1. roles[u] = {} \/ old \in StaffRole
      BY DEF Types, PeopleOK
    <3>2. roles[u] = {}
      BY <2>4, <3>1 DEF StaffRole
    <3>3. a # u
      BY <2>3, <3>2
    <3> QED
      BY <2>3, <3>3 DEF OtherAdmin
  <2>5. Grounds("assign", pc, u, role)
    BY <2>4 DEF Grounds
  <2> QED
    BY <2>1, <2>2, <2>5, Zenon
<1>2. CASE setRole(t)
  <2> PICK a \in User, u \in Exists, role \in StaffRole :
        ManagesUsers(a) /\ SetUserRole(t, a, u, role)
    BY <1>2 DEF setRole
  <2> PICK old : ChangeRole(t, "role", u, old, role)
    BY DEF SetUserRole
  <2> PICK pc : pc = IF old = "system_admin" /\ role # "system_admin" THEN "count" ELSE "delete"
    OBVIOUS
  <2>1. BeginStaffOp(t, "role", pc, u, role, old)
    BY DEF ChangeRole
  <2>2. OtherAdmin(u)
    BY Managers DEF SetUserRole, OtherAdmin
  <2>3. Grounds("role", pc, u, role)
    BY <2>2 DEF Grounds
  <2> QED
    BY <2>1, <2>3, Zenon
<1>3. CASE setStatus(t)
  <2> PICK a \in User, u \in Exists, status \in UserStatus :
        ManagesUsers(a) /\ SetUserStatus(t, a, u, status)
    BY <1>3 DEF setStatus
  <2> PICK pc : pc = IF "system_admin" \in roles[u] /\ status # "active" THEN "count" ELSE "write"
    OBVIOUS
  <2>1. BeginStaffOp(t, "status", pc, u, status, None)
    BY DEF SetUserStatus
  <2>2. a \in ActiveSystemAdmins /\ "system_admin" \in roles[a]
    BY Managers
  <2>3. status \in {"active", "suspended", "disabled"} /\ (u = a => status = "active")
    BY DEF SetUserStatus
  <2>4. status = "active" \/ OtherAdmin(u)
    BY <2>2, <2>3 DEF OtherAdmin
  <2>5. Grounds("status", pc, u, status)
    BY <2>3, <2>4 DEF Grounds
  <2> QED
    BY <2>1, <2>5, Zenon
<1>4. CASE revokeSessions(t)
  <2> PICK u \in Exists : BeginStaffOp(t, "sessions", "revoke", u, None, None)
    BY <1>4 DEF revokeSessions, RevokeStaffSessions
  <2>1. Grounds("sessions", "revoke", u, None)
    BY DEF Grounds
  <2> QED
    BY <2>1, Zenon
<1> QED
  BY <1>1, <1>2, <1>3, <1>4

LEMMA StaffRequests ==
  ASSUME Around, NEW t \in Txn,
         assignStaffRole(t) \/ setRole(t) \/ setStatus(t) \/ revokeSessions(t)
  PROVE  RequestsOK' /\ LocksOK'
<1> PICK op, pc, u, arg, old :
      BeginStaffOp(t, op, pc, u, arg, old) /\ u \in Exists /\ Grounds(op, pc, u, arg)
  BY StaffStart DEF Around
<1> PICK seen : seen = {old}
  OBVIOUS
<1> PICK r : r = Request(op, pc, u, arg, seen)
  OBVIOUS
<1>1. Begin(t, r) /\ locks' = locks
  BY DEF BeginStaffOp
<1>2. DOMAIN r = Fields /\ r.op = op /\ r.pc = pc /\ r.user = u /\ r.arg = arg
  BY RequestFields
<1>3. u \in Exists'
  BY DEF Around, Grow
<1>4. RequestOK(r)'
  BY <1>2, <1>3 DEF RequestOK, Grounds, ReplacePc, StaffOp
<1> QED
  BY <1>1, <1>4, Begins

LEMMA ProvedNext ==
  ASSUME Types, Next
  PROVE  ProvedGrow
<1> SUFFICES ASSUME NEW t \in Txn, Start(t) \/ Continue(t) \/ Abort(t), proved' # proved
             PROVE  ProvedGrow
  BY DEF Next, Expire, ghosts, ProvedGrow
<1>1. CASE mfaVerify(t)
  BY <1>1 DEF mfaVerify, VerifyMFA, ProvedGrow, Types, PeopleOK
<1>2. ~(assignStaffRole(t) \/ setRole(t) \/ setStatus(t) \/ revokeSessions(t))
  BY StaffPeople DEF BeginStaffOp
<1>3. ~(register(t) \/ verifyEmail(t) \/ resendVerification(t) \/ login(t) \/ logout(t) \/ mfaSetup(t))
  BY DEF register, Register, verifyEmail, VerifyEmail, resendVerification, ResendVerification,
         login, Login, logout, Logout, mfaSetup, SetupMFA, ghosts
<1>4. ~(\/ approve(t) \/ changeLimit(t) \/ blockCustomer(t) \/ unblockCustomer(t)
        \/ createInvitation(t) \/ revokeInvitation(t) \/ acceptInvitation(t))
  BY DEF approve, Approve, changeLimit, ChangeLimit, blockCustomer, Block, unblockCustomer, Unblock,
         createInvitation, CreateInvitation, revokeInvitation, RevokeInvitation,
         acceptInvitation, AcceptInvitation, ghosts
<1>5. ~(Continue(t) \/ Abort(t))
  <2>1. ~(\/ Verified(t) \/ EnqueueVerification(t) \/ Enqueued(t) \/ ActivateApproved(t)
          \/ RecordApproval(t) \/ LimitChanged(t) \/ Abort(t))
    BY DEF Verified, EnqueueVerification, Enqueued, ActivateApproved, RecordApproval, LimitChanged,
           Abort, ghosts
  <2>2. ~(\/ WrongPassword(t) \/ CheckLogin(t) \/ UpdateUserLoginState(t) \/ DropError(t)
          \/ RevokeUserSessions(t) \/ CreateSession(t) \/ EnableMFA(t) \/ Invited(t) \/ Withdrawn(t))
    BY DEF WrongPassword, CheckLogin, UpdateUserLoginState, DropError, RevokeUserSessions,
           CreateSession, EnableMFA, Invited, Withdrawn, ghosts
  <2>3. ~(\/ Accepted(t) \/ EnsureNotLastActiveAdmin(t) \/ DeleteRoles(t) \/ InsertRole(t)
          \/ UpdateUserStatus(t))
    BY DEF Accepted, EnsureNotLastActiveAdmin, DeleteRoles, InsertRole, UpdateUserStatus, ghosts
  <2> QED
    BY <2>1, <2>2, <2>3 DEF Continue
<1> QED
  BY <1>1, <1>2, <1>3, <1>4, <1>5 DEF Start

LEMMA ExpireRequests ==
  ASSUME Around, Expire
  PROVE  RequestsOK' /\ LocksOK'
<1>1. tx' = tx /\ locks' = locks /\ requests' \in Nat
  BY DEF Expire, Around, Types, RequestsOK
<1>2. \A t \in Txn : RequestOK(tx[t])'
  <2> SUFFICES ASSUME NEW t \in Txn PROVE RequestOK(tx[t])'
    OBVIOUS
  <2> PICK q : q = tx[t]
    OBVIOUS
  <2>1. RequestOK(q) /\ SameRequest(q, q)
    BY DEF Around, Types, RequestsOK, RequestOK, SameRequest
  <2>2. RequestOK(q)'
    BY <2>1, RequestStays
  <2> QED
    BY <1>1, <2>2 DEF RequestOK
<1> QED
  BY <1>1, <1>2 DEF Around, Types, RequestsOK, LocksOK

LEMMA TypesNext ==
  ASSUME Types, Next
  PROVE  Types' /\ Around
<1>1. Around /\ PeopleOK' /\ PapersOK'
  BY PeopleNext, PapersNext, ProvedNext DEF Around, PapersGrow
<1>2. ASSUME NEW t \in Txn, Start(t)
      PROVE  RequestsOK' /\ LocksOK'
  BY <1>1, <1>2, VerifyRequests, LimitRequests, AnsweredRequests, StartsRequests, StaffRequests DEF Start
<1>3. ASSUME NEW t \in Txn, Continue(t) \/ Abort(t)
      PROVE  RequestsOK' /\ LocksOK'
  BY <1>1, <1>3, ContinuesRequests, SeesRequests, ReplacesRequests
<1>4. RequestsOK' /\ LocksOK'
  BY <1>1, <1>2, <1>3, ExpireRequests DEF Next
<1> QED
  BY <1>1, <1>4 DEF Types

LEMMA TypesStutter ==
  ASSUME Types, UNCHANGED vars
  PROVE  Types'
<1> USE DEF vars, people, papers, ghosts
<1>1. PeopleOK' /\ Grow
  BY SamePeople DEF Types
<1>2. Around
  BY <1>1, SamePapers DEF Around, ProvedGrow
<1>3. \A t \in Txn : RequestOK(tx[t])'
  <2> SUFFICES ASSUME NEW t \in Txn PROVE RequestOK(tx[t])'
    OBVIOUS
  <2> PICK q : q = tx[t]
    OBVIOUS
  <2>1. RequestOK(q) /\ SameRequest(q, q)
    BY DEF Types, RequestsOK, RequestOK, SameRequest
  <2>2. RequestOK(q)'
    BY <1>2, <2>1, RequestStays
  <2> QED
    BY <2>2 DEF RequestOK
<1> QED
  BY <1>1, <1>2, <1>3 DEF Around, Types, RequestsOK, LocksOK, PapersGrow

-------------------------------------------------------------------------------
(* Steps that no guard of the staff or of the second factor depends on.      *)

\* The second factor stays as it is or goes off, and whoever is active stays so.
UsersKeep ==
  /\ \A u \in Exists' : users'[u].mfa => /\ u \in Exists /\ users[u].mfa
                                         /\ users'[u].secret = users[u].secret
  /\ \A u \in Exists : users[u].status = "active" => users'[u].status = "active"

StaffKeep == roles' = roles /\ crossed' = crossed /\ (unguarded => unguarded')

StaffSame == roles' = roles /\ crossed' = crossed /\ unguarded' = unguarded

Harmless(r) == r.pc \notin ReplacePc \cup {"write"} /\ r.op \notin StaffOp

RequestsKeep == \A s \in Txn : tx'[s] = tx[s] \/ Harmless(tx'[s])

Quiet == UsersKeep /\ StaffKeep /\ RequestsKeep

LEMMA StaffStays == ASSUME StaffSame PROVE StaffKeep
BY DEF StaffSame, StaffKeep

LEMMA SameUsersKeep == ASSUME users' = users PROVE UsersKeep
BY DEF UsersKeep, Exists

LEMMA UserKeeps ==
  ASSUME Types, NEW u \in Exists, NEW r, users' = [users EXCEPT ![u] = r],
         r.mfa => users[u].mfa /\ r.secret = users[u].secret,
         users[u].status = "active" => r.status = "active"
  PROVE  UsersKeep
BY DEF UsersKeep, Exists, Types, PeopleOK

LEMMA SameRequestsKeep ==
  ASSUME Types, NEW t \in Txn, NEW r, tx' = [tx EXCEPT ![t] = r], Harmless(r)
  PROVE  RequestsKeep
BY DEF RequestsKeep, Types, RequestsOK

LEMMA DoneKeeps ==
  ASSUME Types, NEW t \in Txn, Done(t) \/ Begin(t, Idle)
  PROVE  RequestsKeep
<1> PICK r : r = Idle
  OBVIOUS
<1>1. Harmless(r)
  BY DEF Harmless, Idle, ReplacePc, StaffOp
<1>2. tx' = [tx EXCEPT ![t] = r]
  BY DEF Done, Begin
<1> QED
  BY <1>1, <1>2, SameRequestsKeep

LEMMA BeginKeeps ==
  ASSUME Types, NEW t \in Txn,
         \/ verifyEmail(t) \/ resendVerification(t) \/ login(t) \/ mfaVerify(t)
         \/ approve(t) \/ changeLimit(t)
         \/ createInvitation(t) \/ revokeInvitation(t) \/ acceptInvitation(t)
  PROVE  RequestsKeep
<1>1. PICK op, pc, u, arg, seen :
        op \notin StaffOp /\ pc \notin ReplacePc \cup {"write"} /\ Begin(t, Request(op, pc, u, arg, seen))
  <2> USE DEF StaffOp, ReplacePc
  <2>1. CASE verifyEmail(t)
    BY <2>1 DEF verifyEmail, VerifyEmail
  <2>2. CASE resendVerification(t) \/ mfaVerify(t)
    BY <2>2 DEF resendVerification, ResendVerification, mfaVerify, VerifyMFA
  <2>3. CASE approve(t)
    BY <2>3 DEF approve, Approve
  <2>4. CASE changeLimit(t)
    BY <2>4 DEF changeLimit, ChangeLimit
  <2>5. CASE createInvitation(t) \/ revokeInvitation(t) \/ acceptInvitation(t)
    BY <2>5 DEF createInvitation, CreateInvitation, revokeInvitation, RevokeInvitation,
                acceptInvitation, AcceptInvitation
  <2>6. CASE login(t)
    <3> PICK u \in User, audience \in Audience, right \in BOOLEAN : Login(t, u, audience, right)
      BY <2>6 DEF login
    <3> PICK pc : pc = IF right THEN "check" ELSE "wrong"
      OBVIOUS
    <3>1. Begin(t, Request("login", pc, u, audience, users[u].failed))
      BY DEF Login
    <3> QED
      BY <3>1
  <2> QED
    BY <2>1, <2>2, <2>3, <2>4, <2>5, <2>6
<1> PICK r : r = Request(op, pc, u, arg, seen)
  OBVIOUS
<1>2. Harmless(r)
  BY <1>1, RequestFields DEF Harmless
<1>3. tx' = [tx EXCEPT ![t] = r]
  BY <1>1 DEF Begin
<1> QED
  BY <1>2, <1>3, SameRequestsKeep

LEMMA GotoKeeps ==
  ASSUME Types, NEW t \in Txn,
         \/ ActivateApproved(t) \/ CheckLogin(t) \/ UpdateUserLoginState(t) \/ DropError(t)
         \/ RevokeUserSessions(t) \/ EnqueueVerification(t)
  PROVE  RequestsKeep
<1> PICK q : q = tx[t]
  OBVIOUS
<1>1. RequestOK(q) /\ DOMAIN q = Fields
  BY DEF Types, RequestsOK, RequestOK
<1>2. ASSUME NEW pc \in {"record", "enter", "revoke", "session"}, Goto(t, pc), q.op \notin StaffOp
      PROVE  RequestsKeep
  <2> PICK r : r = [q EXCEPT !.pc = pc]
    OBVIOUS
  <2>1. r.pc = pc /\ r.op = q.op
    BY <1>1 DEF Fields
  <2>2. Harmless(r) /\ tx' = [tx EXCEPT ![t] = r]
    BY <1>2, <2>1 DEF Harmless, ReplacePc, Goto
  <2> QED
    BY <2>2, SameRequestsKeep
<1>3. CASE ActivateApproved(t) \/ CheckLogin(t) \/ UpdateUserLoginState(t) \/ DropError(t)
  <2>1. q.op \notin StaffOp
    BY <1>1, <1>3 DEF ActivateApproved, CheckLogin, UpdateUserLoginState, DropError, RequestOK,
                      StaffOp, ReplacePc
  <2> QED
    BY <1>2, <1>3, <2>1 DEF ActivateApproved, CheckLogin, UpdateUserLoginState, DropError
<1>4. CASE RevokeUserSessions(t)
  <2>1. CASE q.op = "login"
    BY <1>2, <1>4, <2>1 DEF RevokeUserSessions, StaffOp
  <2>2. CASE q.op # "login"
    BY <1>4, <2>2, DoneKeeps DEF RevokeUserSessions
  <2> QED
    BY <2>1, <2>2
<1>5. CASE EnqueueVerification(t)
  <2> PICK K : K = {k \in DOMAIN tokens : tokens[k].user = tx[t].user /\ ~tokens[k].used}
    OBVIOUS
  <2> PICK r : r = [q EXCEPT !.pc = "enqueued", !.seen = K]
    OBVIOUS
  <2>1. tx' = [tx EXCEPT ![t] = r] /\ r.op = q.op /\ r.pc = "enqueued"
    BY <1>1, <1>5 DEF EnqueueVerification, Fields, Types, RequestsOK
  <2>2. q.op \notin StaffOp
    BY <1>1, <1>5 DEF EnqueueVerification, RequestOK, ReplacePc
  <2>3. Harmless(r)
    BY <2>1, <2>2 DEF Harmless, ReplacePc
  <2> QED
    BY <2>1, <2>3, SameRequestsKeep
<1> QED
  BY <1>3, <1>4, <1>5

LEMMA QuietUsers ==
  ASSUME Types, NEW t \in Txn,
         \/ register(t) \/ mfaSetup(t) \/ Verified(t) \/ ActivateApproved(t)
         \/ WrongPassword(t) \/ UpdateUserLoginState(t) \/ Accepted(t)
  PROVE  UsersKeep
<1> PICK u : u = tx[t].user
  OBVIOUS
<1>1. CASE register(t)
  <2> PICK v \in User : Register(t, v)
    BY <1>1 DEF register
  <2>1. v \notin Exists /\ users' = [users EXCEPT ![v] = NewUser]
    BY DEF Register, Exists
  <2>2. ~NewUser.mfa
    BY DEF NewUser
  <2> QED
    BY <2>1, <2>2 DEF UsersKeep, Exists, Types, PeopleOK
<1>2. CASE mfaSetup(t)
  <2> PICK v \in User : v \in Exists /\ SetupMFA(t, v)
    BY <1>2 DEF mfaSetup, AuthenticateAdminBearer, AuthenticateStoreBearer, Exists
  <2> PICK w : w = users[v]
    OBVIOUS
  <2> PICK r : r = [w EXCEPT !.secret = requests', !.mfa = FALSE]
    OBVIOUS
  <2>1. w \in UserRow
    BY OneRow DEF Types
  <2>2. ~r.mfa /\ r.status = w.status
    BY <2>1 DEF UserRow
  <2>3. users' = [users EXCEPT ![v] = r]
    BY DEF SetupMFA, Types, PeopleOK
  <2> QED
    BY <2>2, <2>3, UserKeeps
<1>3. CASE ~(register(t) \/ mfaSetup(t))
  <2>1. RequestOK(tx[t]) /\ u \in Exists /\ u \in User
    BY <1>3 DEF Verified, ActivateApproved, WrongPassword, UpdateUserLoginState, Accepted,
                Types, RequestsOK, RequestOK, Exists
  <2> PICK w : w = users[u]
    OBVIOUS
  <2>2. w \in UserRow
    BY <2>1, OneRow DEF Types
  <2>3. CASE Verified(t) \/ ActivateApproved(t) \/ Accepted(t)
    <3> PICK r : r = [w EXCEPT !.status = "active"]
      OBVIOUS
    <3>1. users' = [users EXCEPT ![u] = r]
      BY Zenon, <2>1, <2>3 DEF Verified, ActivateApproved, Accepted, Types, PeopleOK
    <3>2. r.mfa = w.mfa /\ r.secret = w.secret /\ r.status = "active"
      BY <2>2 DEF UserRow
    <3> QED
      BY <2>1, <3>1, <3>2, UserKeeps
  <2>4. ASSUME NEW n, NEW b, users' = [users EXCEPT ![u].failed = n, ![u].locked = b]
        PROVE  UsersKeep
    <3> PICK r : r = [w EXCEPT !.failed = n, !.locked = b]
      OBVIOUS
    <3>1. users' = [users EXCEPT ![u] = r]
      BY <2>1, <2>4 DEF Types, PeopleOK
    <3>2. r.mfa = w.mfa /\ r.secret = w.secret /\ r.status = w.status
      BY <2>2 DEF UserRow
    <3> QED
      BY <2>1, <3>1, <3>2, UserKeeps
  <2>5. CASE WrongPassword(t)
    <3> PICK n : n = IF tx[t].seen + 1 >= MaxFailed THEN 0 ELSE tx[t].seen + 1
      OBVIOUS
    <3> PICK b : b = (tx[t].seen + 1 >= MaxFailed)
      OBVIOUS
    <3>1. users' = [users EXCEPT ![u].failed = n, ![u].locked = b]
      BY <2>5 DEF WrongPassword
    <3> QED
      BY <2>4, <3>1
  <2>6. CASE UpdateUserLoginState(t)
    <3> PICK b : b = FALSE
      OBVIOUS
    <3>1. users' = [users EXCEPT ![u].failed = 0, ![u].locked = b]
      BY <2>6 DEF UpdateUserLoginState
    <3> QED
      BY <2>4, <3>1
  <2> QED
    BY <1>3, <2>3, <2>5, <2>6
<1> QED
  BY <1>1, <1>2, <1>3

LEMMA ExpireQuiet ==
  ASSUME Types, Expire
  PROVE  Quiet
<1>1. ASSUME NEW u \in Exists, users' = [users EXCEPT ![u].locked = FALSE]
      PROVE  UsersKeep
  <2> PICK w : w = users[u]
    OBVIOUS
  <2> PICK r : r = [w EXCEPT !.locked = FALSE]
    OBVIOUS
  <2>1. w \in UserRow /\ u \in User
    BY OneRow DEF Types, Exists
  <2>2. r.mfa = w.mfa /\ r.secret = w.secret /\ r.status = w.status
    BY <2>1 DEF UserRow
  <2>3. users' = [users EXCEPT ![u] = r]
    BY <1>1, <2>1 DEF Types, PeopleOK
  <2> QED
    BY <2>2, <2>3, UserKeeps
<1>2. UsersKeep
  BY <1>1, SameUsersKeep DEF Expire
<1>3. StaffKeep /\ RequestsKeep
  BY DEF Expire, ghosts, StaffKeep, RequestsKeep
<1> QED
  BY <1>2, <1>3 DEF Quiet

StartsStaff(t) == assignStaffRole(t) \/ setRole(t) \/ setStatus(t) \/ revokeSessions(t)

ContinuesStaff(t) ==
  EnsureNotLastActiveAdmin(t) \/ DeleteRoles(t) \/ InsertRole(t) \/ UpdateUserStatus(t)

\* All other steps leave the staff alone.
LEMMA QuietStart ==
  ASSUME Types, NEW t \in Txn, Start(t), ~StartsStaff(t)
  PROVE  Quiet
<1>1. CASE register(t) \/ mfaSetup(t)
  <2>1. UsersKeep
    BY <1>1, QuietUsers
  <2>2. Begin(t, Idle) /\ StaffSame
    BY <1>1 DEF register, Register, mfaSetup, SetupMFA, ghosts, StaffSame
  <2> QED
    BY <2>1, <2>2, DoneKeeps, StaffStays DEF Quiet
<1>2. CASE logout(t) \/ blockCustomer(t) \/ unblockCustomer(t)
  <2>1. Begin(t, Idle) /\ StaffSame /\ users' = users
    BY <1>2 DEF logout, Logout, blockCustomer, Block, unblockCustomer, Unblock, people, ghosts, StaffSame
  <2> QED
    BY <2>1, DoneKeeps, SameUsersKeep, StaffStays DEF Quiet
<1>3. CASE \/ verifyEmail(t) \/ resendVerification(t) \/ login(t) \/ mfaVerify(t)
           \/ approve(t) \/ changeLimit(t)
  <2>1. StaffSame /\ users' = users
    BY <1>3 DEF verifyEmail, VerifyEmail, resendVerification, ResendVerification, login, Login,
         mfaVerify, VerifyMFA, approve, Approve, changeLimit, ChangeLimit, people, ghosts, StaffSame
  <2> QED
    BY <1>3, <2>1, BeginKeeps, SameUsersKeep, StaffStays DEF Quiet
<1>4. CASE createInvitation(t) \/ revokeInvitation(t) \/ acceptInvitation(t)
  <2>1. StaffSame /\ users' = users
    BY <1>4 DEF createInvitation, CreateInvitation, revokeInvitation, RevokeInvitation,
         acceptInvitation, AcceptInvitation, people, ghosts, StaffSame
  <2> QED
    BY <1>4, <2>1, BeginKeeps, SameUsersKeep, StaffStays DEF Quiet
<1> QED
  BY <1>1, <1>2, <1>3, <1>4 DEF Start, StartsStaff

LEMMA QuietContinue ==
  ASSUME Types, NEW t \in Txn, Continue(t) \/ Abort(t), ~ContinuesStaff(t), ~Accepted(t), ~EnableMFA(t)
  PROVE  Quiet
<1>1. CASE Verified(t) \/ WrongPassword(t)
  <2>1. Done(t) /\ StaffSame
    BY <1>1 DEF Verified, WrongPassword, ghosts, StaffSame
  <2> QED
    BY <1>1, <2>1, DoneKeeps, QuietUsers, StaffStays DEF Quiet
<1>2. CASE ActivateApproved(t) \/ UpdateUserLoginState(t)
  <2>1. StaffSame
    BY <1>2 DEF ActivateApproved, UpdateUserLoginState, ghosts, StaffSame
  <2> QED
    BY <1>2, <2>1, GotoKeeps, QuietUsers, StaffStays DEF Quiet
<1>3. CASE \/ Enqueued(t) \/ RecordApproval(t) \/ LimitChanged(t) \/ CreateSession(t)
           \/ Invited(t) \/ Withdrawn(t) \/ Abort(t)
  <2>1. Done(t) /\ StaffSame /\ users' = users
    BY <1>3 DEF Enqueued, RecordApproval, LimitChanged, CreateSession, Invited, Withdrawn, Abort,
         people, ghosts, StaffSame
  <2> QED
    BY <2>1, DoneKeeps, SameUsersKeep, StaffStays DEF Quiet
<1>4. CASE EnqueueVerification(t) \/ CheckLogin(t) \/ DropError(t) \/ RevokeUserSessions(t)
  <2>1. StaffSame /\ users' = users
    BY <1>4 DEF EnqueueVerification, CheckLogin, DropError, RevokeUserSessions, people, ghosts, StaffSame
  <2> QED
    BY <1>4, <2>1, GotoKeeps, SameUsersKeep, StaffStays DEF Quiet
<1> QED
  BY <1>1, <1>2, <1>3, <1>4 DEF Continue, ContinuesStaff

-------------------------------------------------------------------------------
(* What the second factor, the roles and the guard promise, step by step.    *)

LEMMA SecretsKept ==
  ASSUME Around, EnabledSecretProved, UsersKeep
  PROVE  EnabledSecretProved'
<1> SUFFICES ASSUME NEW u \in Exists', users'[u].mfa
             PROVE  users'[u].secret \in proved'[u]
  BY DEF EnabledSecretProved
<1>1. u \in Exists /\ users[u].mfa /\ users'[u].secret = users[u].secret
  BY DEF UsersKeep
<1>2. users[u].secret \in proved[u] /\ u \in User
  BY <1>1 DEF EnabledSecretProved, Exists
<1> QED
  BY <1>1, <1>2 DEF Around, ProvedGrow

LEMMA SecretsEnabled ==
  ASSUME Around, EnabledSecretProved, NEW t \in Txn, EnableMFA(t) \/ UpdateUserStatus(t)
  PROVE  EnabledSecretProved'
<1> PICK u : u = tx[t].user
  OBVIOUS
<1> PICK w : w = users[u]
  OBVIOUS
<1>1. RequestOK(tx[t]) /\ u \in Exists /\ u \in User
  BY DEF EnableMFA, UpdateUserStatus, Around, Types, RequestsOK, RequestOK, Exists
<1>2. w \in UserRow
  BY <1>1, OneRow DEF Around, Types
<1> PICK r : /\ users' = [users EXCEPT ![u] = r]
             /\ r.mfa => r.secret \in proved[u]
  <2>1. CASE EnableMFA(t)
    <3> PICK r : r = [w EXCEPT !.secret = tx[t].arg, !.mfa = TRUE]
      OBVIOUS
    <3>1. r.secret = tx[t].arg /\ tx[t].arg \in proved[u]
      BY <1>1, <1>2, <2>1 DEF UserRow, EnableMFA, RequestOK
    <3>2. users' = [users EXCEPT ![u] = r]
      BY <1>1, <2>1 DEF EnableMFA, Around, Types, PeopleOK
    <3> QED
      BY <3>1, <3>2
  <2>2. CASE UpdateUserStatus(t)
    <3> PICK r : r = [w EXCEPT !.status = tx[t].arg]
      OBVIOUS
    <3>1. r.secret = w.secret /\ r.mfa = w.mfa
      BY <1>2 DEF UserRow
    <3>2. users' = [users EXCEPT ![u] = r]
      BY <1>1, <2>2 DEF UpdateUserStatus, Around, Types, PeopleOK
    <3> QED
      BY <1>1, <3>1, <3>2 DEF EnabledSecretProved
  <2> QED
    BY <2>1, <2>2
<1>3. proved' = proved
  BY DEF EnableMFA, UpdateUserStatus, ghosts
<1>4. users'[u] = r /\ \A v \in User \ {u} : users'[v] = users[v]
  BY <1>1 DEF Around, Types, PeopleOK
<1> QED
  BY <1>1, <1>3, <1>4 DEF EnabledSecretProved, Exists

LEMMA RolesKept ==
  ASSUME Types, SingleRoles, roles' = roles, crossed' = crossed,
         \A s \in Txn : tx'[s] = tx[s] \/ tx'[s].pc # "insert"
  PROVE  SingleRoles'
<1> SUFFICES ASSUME NEW u \in User \ crossed
             PROVE  /\ \A x, y \in roles[u] : x = y
                    /\ \A t \in Replacing(u)' : roles[u] \subseteq tx'[t].seen /\ Replacing(u)' = {t}
  BY DEF SingleRoles
<1>1. \A s \in Replacing(u)' : s \in Replacing(u) /\ tx'[s] = tx[s]
  BY DEF Replacing
<1>2. /\ \A x, y \in roles[u] : x = y
      /\ \A t \in Replacing(u) : roles[u] \subseteq tx[t].seen /\ Replacing(u) = {t}
  BY DEF SingleRoles
<1> QED
  BY <1>1, <1>2

LEMMA RolesDeleted ==
  ASSUME Types, SingleRoles, NEW t \in Txn, DeleteRoles(t)
  PROVE  SingleRoles'
<1> PICK v : v = tx[t].user
  OBVIOUS
<1> PICK q : q = tx[t]
  OBVIOUS
<1> PICK n : n = [q EXCEPT !.seen = roles[v], !.pc = "insert"]
  OBVIOUS
<1>1. DOMAIN q = Fields /\ DOMAIN tx = Txn /\ q.pc = "delete"
  BY DEF Types, RequestsOK, RequestOK, DeleteRoles
<1>2. tx' = [tx EXCEPT ![t] = n] /\ roles' = roles
  BY <1>1 DEF DeleteRoles, people
<1>3. n.pc = "insert" /\ n.user = v /\ n.seen = roles[v]
  BY <1>1 DEF Fields
<1>4. crossed' = crossed \cup {u \in {v} : Replacing(u) # {}}
  BY DEF DeleteRoles
<1>5. t \notin Replacing(v)
  BY <1>1 DEF Replacing
<1> SUFFICES ASSUME NEW u \in User \ crossed'
             PROVE  /\ \A x, y \in roles[u] : x = y
                    /\ \A s \in Replacing(u)' : roles[u] \subseteq tx'[s].seen /\ Replacing(u)' = {s}
  BY <1>2 DEF SingleRoles
<1>6. u \notin crossed /\ (u = v => Replacing(u) = {})
  BY <1>4
<1>7. /\ \A x, y \in roles[u] : x = y
      /\ \A s \in Replacing(u) : roles[u] \subseteq tx[s].seen /\ Replacing(u) = {s}
  BY <1>6 DEF SingleRoles
<1>8. CASE u = v
  <2>1. Replacing(u)' = {t} /\ tx'[t].seen = roles[u]
    BY <1>1, <1>2, <1>3, <1>6, <1>8 DEF Replacing
  <2> QED
    BY <1>7, <2>1
<1>9. CASE u # v
  <2>1. Replacing(u)' = Replacing(u) /\ \A s \in Replacing(u) : tx'[s] = tx[s]
    BY <1>1, <1>2, <1>3, <1>9 DEF Replacing
  <2> QED
    BY <1>7, <2>1
<1> QED
  BY <1>8, <1>9

\* The other sessions after the rows of a user have gone.
LEMMA ReplacedIs ==
  ASSUME Types, NEW t \in Txn, NEW v, NEW gone, NEW r, r.pc # "insert",
         tx' = [Replaced(t, v, gone) EXCEPT ![t] = r]
  PROVE  /\ \A u : Replacing(u)' = Replacing(u) \ {t}
         /\ \A s \in Txn \ {t} : s \notin Replacing(v) => tx'[s] = tx[s]
<1>1. DOMAIN Replaced(t, v, gone) = Txn
  BY DEF Replaced
<1>2. tx'[t] = r /\ \A s \in Txn \ {t} : tx'[s] = Replaced(t, v, gone)[s]
  BY <1>1
<1>3. \A s \in Txn \ {t} : tx'[s].pc = tx[s].pc /\ tx'[s].user = tx[s].user
  BY <1>2, ReplacedOthers DEF SameRequest
<1>4. \A s \in Txn \ {t} : s \notin Replacing(v) => Replaced(t, v, gone)[s] = tx[s]
  BY DEF Replaced
<1> QED
  BY <1>2, <1>3, <1>4 DEF Replacing

LEMMA RolesReplaced ==
  ASSUME Types, SingleRoles, NEW t \in Txn, InsertRole(t) \/ Accepted(t)
  PROVE  SingleRoles'
<1> PICK v : v = tx[t].user
  OBVIOUS
<1> PICK r, gone : tx' = [Replaced(t, v, gone) EXCEPT ![t] = r] /\ r.pc # "insert"
  <2>1. CASE InsertRole(t)
    <3> PICK q : q = tx[t]
      OBVIOUS
    <3> PICK r : r = [q EXCEPT !.pc = "revoke", !.seen = None]
      OBVIOUS
    <3>1. DOMAIN q = Fields
      BY DEF Types, RequestsOK, RequestOK
    <3>2. r.pc = "revoke"
      BY <3>1 DEF Fields
    <3>3. Replaced(t, v, tx[t].seen)[t] = q /\ DOMAIN Replaced(t, v, tx[t].seen) = Txn
      BY DEF Replaced
    <3>4. tx' = [Replaced(t, v, tx[t].seen) EXCEPT ![t] = r]
      BY <2>1, <3>3 DEF InsertRole
    <3> QED
      BY <3>2, <3>4
  <2>2. CASE Accepted(t)
    <3> PICK r : r = Idle
      OBVIOUS
    <3>1. tx' = [Replaced(t, v, roles[v]) EXCEPT ![t] = r] /\ r.pc # "insert"
      BY <2>2 DEF Accepted, Idle
    <3> QED
      BY <3>1
  <2> QED
    BY <2>1, <2>2
<1>1. /\ \A u : Replacing(u)' = Replacing(u) \ {t}
      /\ \A s \in Txn \ {t} : s \notin Replacing(v) => tx'[s] = tx[s]
  BY ReplacedIs
<1>2. v \in User /\ \A u \in User \ {v} : roles'[u] = roles[u]
  BY DEF InsertRole, Accepted, Types, RequestsOK, RequestOK, Exists, PeopleOK
<1>3. crossed \subseteq crossed'
  BY DEF InsertRole, Accepted, ghosts
<1> SUFFICES ASSUME NEW u \in User \ crossed'
             PROVE  /\ \A x, y \in roles'[u] : x = y
                    /\ \A s \in Replacing(u)' : roles'[u] \subseteq tx'[s].seen /\ Replacing(u)' = {s}
  BY DEF SingleRoles
<1>4. /\ \A x, y \in roles[u] : x = y
      /\ \A s \in Replacing(u) : roles[u] \subseteq tx[s].seen /\ Replacing(u) = {s}
  BY <1>3 DEF SingleRoles
<1>5. CASE u # v
  <2>1. \A s \in Replacing(u) : s \notin Replacing(v) /\ s # t
    <3>1. ASSUME t \in Replacing(u) PROVE FALSE
      BY <1>5, <3>1 DEF Replacing
    <3> QED
      BY <1>5, <3>1 DEF Replacing
  <2> QED
    BY SMTT(30), <1>1, <1>2, <1>4, <1>5, <2>1 DEF Replacing
<1>6. CASE u = v /\ InsertRole(t)
  <2>1. t \in Replacing(u)
    BY <1>6 DEF InsertRole, Replacing
  <2>2. Replacing(u)' = {}
    BY SMTT(30), <1>1, <1>4, <2>1
  <2>3. roles'[u] = {tx[t].arg}
    BY <1>4, <1>6, <2>1 DEF InsertRole, Types, PeopleOK
  <2> QED
    BY <2>2, <2>3
<1>7. CASE u = v /\ Accepted(t)
  <2>1. Replacing(u) = {}
    BY <1>7 DEF Accepted
  <2>2. roles'[u] = {invitations[tx[t].arg].role}
    BY <1>7 DEF Accepted, Types, PeopleOK
  <2> QED
    BY <1>1, <2>1, <2>2
<1> QED
  BY <1>5, <1>6, <1>7

AdminsKeep == ActiveSystemAdmins \subseteq ActiveSystemAdmins'

Alike(q, r) == r.op = q.op /\ r.pc = q.pc /\ r.user = q.user /\ r.arg = q.arg

LEMMA KeptAdmins ==
  ASSUME Around, UsersKeep, \A u \in User : "system_admin" \in roles[u] => "system_admin" \in roles'[u]
  PROVE  AdminsKeep
BY DEF AdminsKeep, ActiveSystemAdmins, Around, Grow, UsersKeep, Exists

LEMMA AlikeJustified ==
  ASSUME NEW q, NEW r, Alike(q, r), Justified(q), AdminsKeep
  PROVE  Justified(r)'
BY DEF Alike, Justified, OtherAdmin, AdminsKeep

\* A step that removes no administrator keeps the guard.
LEMMA GuardMoves ==
  ASSUME Guarded, ~unguarded' => ~unguarded /\ AdminsKeep,
         \A s \in Txn : \/ Alike(tx[s], tx'[s])
                        \/ /\ tx'[s].op \in StaffOp => tx[s].op \in StaffOp
                           /\ ~unguarded' => Justified(tx[s])'
  PROVE  Guarded'
<1> SUFFICES ASSUME ~unguarded'
             PROVE  /\ ActiveSystemAdmins' # {}
                    /\ \A s, t \in Txn : tx'[s].op \in StaffOp /\ tx'[t].op \in StaffOp => s = t
                    /\ \A t \in Txn : Justified(tx[t])'
  BY Zenon DEF Guarded
<1>1. ~unguarded /\ AdminsKeep
  OBVIOUS
<1>2. /\ ActiveSystemAdmins # {}
      /\ \A s, t \in Txn : tx[s].op \in StaffOp /\ tx[t].op \in StaffOp => s = t
      /\ \A t \in Txn : Justified(tx[t])
  BY <1>1, Zenon DEF Guarded
<1>3. \A s \in Txn : tx'[s].op \in StaffOp => tx[s].op \in StaffOp
  BY DEF Alike
<1>4. \A s \in Txn : Justified(tx[s])'
  <2> SUFFICES ASSUME NEW s \in Txn PROVE Justified(tx[s])'
    OBVIOUS
  <2> PICK q : q = tx[s]
    OBVIOUS
  <2> PICK r : r = tx'[s]
    OBVIOUS
  <2>1. CASE Alike(q, r)
    <3>1. Justified(r)'
      BY <1>1, <1>2, <2>1, AlikeJustified
    <3> QED
      BY <3>1 DEF Justified
  <2>2. CASE ~Alike(q, r)
    BY <2>2
  <2> QED
    BY <2>1, <2>2
<1> QED
  BY <1>1, <1>2, <1>3, <1>4 DEF AdminsKeep

LEMMA GuardQuiet ==
  ASSUME Around, Guarded, Quiet
  PROVE  Guarded'
<1>1. AdminsKeep
  BY KeptAdmins DEF Quiet, StaffKeep
<1>2. ~unguarded' => ~unguarded
  BY Zenon DEF Quiet, StaffKeep
<1>3. ASSUME NEW s \in Txn
      PROVE  \/ Alike(tx[s], tx'[s])
             \/ (tx'[s].op \in StaffOp => tx[s].op \in StaffOp) /\ Justified(tx[s])'
  <2>1. CASE tx'[s] = tx[s]
    BY <2>1 DEF Alike
  <2>2. CASE Harmless(tx'[s])
    BY <2>2 DEF Harmless, Justified
  <2> QED
    BY <2>1, <2>2 DEF Quiet, RequestsKeep
<1> QED
  BY <1>1, <1>2, <1>3, GuardMoves

LEMMA GuardEnable ==
  ASSUME Around, Guarded, NEW t \in Txn, EnableMFA(t)
  PROVE  Guarded'
<1> PICK u : u = tx[t].user
  OBVIOUS
<1> PICK w : w = users[u]
  OBVIOUS
<1> PICK r : r = [w EXCEPT !.secret = tx[t].arg, !.mfa = TRUE]
  OBVIOUS
<1>1. u \in Exists /\ u \in User
  BY DEF EnableMFA, Around, Types, RequestsOK, RequestOK, Exists
<1>2. r.status = w.status
  BY <1>1, OneRow DEF Around, Types, UserRow
<1>3. users' = [users EXCEPT ![u] = r] /\ roles' = roles
  BY <1>1 DEF EnableMFA, Around, Types, PeopleOK
<1>4. AdminsKeep
  BY <1>1, <1>2, <1>3 DEF AdminsKeep, ActiveSystemAdmins, Around, Grow, Types, PeopleOK
<1>5. ~unguarded' => ~unguarded
  BY Zenon DEF EnableMFA, ghosts
<1>6. RequestsKeep
  BY DoneKeeps DEF EnableMFA, Around
<1>7. ASSUME NEW s \in Txn
      PROVE  \/ Alike(tx[s], tx'[s])
             \/ (tx'[s].op \in StaffOp => tx[s].op \in StaffOp) /\ Justified(tx[s])'
  <2>1. CASE tx'[s] = tx[s]
    BY <2>1 DEF Alike
  <2>2. CASE Harmless(tx'[s])
    BY <2>2 DEF Harmless, Justified
  <2> QED
    BY <1>6, <2>1, <2>2 DEF RequestsKeep
<1> QED
  BY <1>4, <1>5, <1>7, GuardMoves

LEMMA GuardAccepted ==
  ASSUME Around, Guarded, NEW t \in Txn, Accepted(t)
  PROVE  Guarded'
<1> PICK u : u = tx[t].user
  OBVIOUS
<1> PICK role : role = invitations[tx[t].arg].role
  OBVIOUS
<1>1. roles' = [roles EXCEPT ![u] = {role}]
  BY DEF Accepted
<1>2. ~unguarded' => ~unguarded /\ ("system_admin" \in roles[u] => role = "system_admin")
  BY Zenon DEF Accepted
<1>3. UsersKeep
  BY QuietUsers DEF Around
<1>4. ~unguarded' => AdminsKeep
  <2> SUFFICES ASSUME ~unguarded' PROVE AdminsKeep
    OBVIOUS
  <2>1. "system_admin" \in roles[u] => role = "system_admin"
    BY <1>2
  <2>2. \A v \in User : "system_admin" \in roles[v] => "system_admin" \in roles'[v]
    BY <1>1, <2>1 DEF Around, Types, PeopleOK
  <2> QED
    BY <1>3, <2>2, KeptAdmins
<1> PICK f : f = Replaced(t, u, roles[u])
  OBVIOUS
<1>5. DOMAIN f = Txn /\ \A s \in Txn \ {t} : SameRequest(tx[s], f[s])
  BY ReplacedOthers DEF Around, Replaced
<1>6. tx' = [f EXCEPT ![t] = Idle]
  BY DEF Accepted
<1>7. ASSUME NEW s \in Txn
      PROVE  \/ Alike(tx[s], tx'[s])
             \/ (tx'[s].op \in StaffOp => tx[s].op \in StaffOp) /\ Justified(tx[s])'
  <2>1. CASE s = t
    <3>1. tx'[s] = Idle
      BY <1>5, <1>6, <2>1
    <3> QED
      BY <3>1 DEF Idle, Justified, ReplacePc, StaffOp
  <2>2. CASE s # t
    BY <1>5, <1>6, <2>2 DEF Alike, SameRequest
  <2> QED
    BY <2>1, <2>2
<1> QED
  BY <1>2, <1>4, <1>7, GuardMoves

\* The count of ensureNotLastActiveAdmin, and the DELETE of the roles.
LEMMA GuardCounted ==
  ASSUME Around, Guarded, NEW t \in Txn, EnsureNotLastActiveAdmin(t) \/ DeleteRoles(t)
  PROVE  Guarded'
<1> PICK q : q = tx[t]
  OBVIOUS
<1>1. RequestOK(q) /\ DOMAIN q = Fields /\ DOMAIN tx = Txn
  BY DEF Around, Types, RequestsOK, RequestOK
<1>2. users' = users /\ roles' = roles
  BY DEF EnsureNotLastActiveAdmin, DeleteRoles, people
<1>3. AdminsKeep /\ ActiveSystemAdmins' = ActiveSystemAdmins
  BY <1>2 DEF AdminsKeep, ActiveSystemAdmins, Exists
<1>4. ~unguarded' => ~unguarded
  BY Zenon DEF EnsureNotLastActiveAdmin, DeleteRoles, ghosts
<1> PICK r : /\ tx' = [tx EXCEPT ![t] = r]
             /\ r.op = q.op /\ r.user = q.user /\ r.arg = q.arg
             /\ \/ EnsureNotLastActiveAdmin(t)
                \/ r.pc = "insert" /\ q.pc = "delete"
  <2>1. CASE EnsureNotLastActiveAdmin(t)
    <3> PICK pc : pc = IF tx[t].op = "status" THEN "write" ELSE "delete"
      OBVIOUS
    <3> PICK r : r = [q EXCEPT !.pc = pc]
      OBVIOUS
    <3>1. tx' = [tx EXCEPT ![t] = r]
      BY <1>1, <2>1 DEF EnsureNotLastActiveAdmin, Goto
    <3>2. r.op = q.op /\ r.user = q.user /\ r.arg = q.arg
      BY <1>1 DEF Fields
    <3> QED
      BY <2>1, <3>1, <3>2, Zenon
  <2>2. CASE DeleteRoles(t)
    <3> PICK r : r = [q EXCEPT !.seen = roles[tx[t].user], !.pc = "insert"]
      OBVIOUS
    <3>1. tx' = [tx EXCEPT ![t] = r]
      BY <1>1, <2>2 DEF DeleteRoles
    <3>2. r.op = q.op /\ r.user = q.user /\ r.arg = q.arg /\ r.pc = "insert"
      BY <1>1 DEF Fields
    <3>3. q.pc = "delete"
      BY <2>2 DEF DeleteRoles
    <3> QED
      BY <3>1, <3>2, <3>3, Zenon
  <2> QED
    BY <2>1, <2>2
<1>5. tx'[t] = r /\ \A s \in Txn \ {t} : tx'[s] = tx[s]
  BY <1>1
<1>6. ~unguarded => Justified(r)'
  <2>1. CASE EnsureNotLastActiveAdmin(t)
    <3>1. OtherAdmin(q.user)
      BY <2>1 DEF EnsureNotLastActiveAdmin, OtherAdmin
    <3> QED
      BY <1>3, <3>1 DEF Justified, OtherAdmin
  <2>2. CASE r.pc = "insert" /\ q.pc = "delete"
    <3> SUFFICES ASSUME ~unguarded PROVE Justified(r)'
      OBVIOUS
    <3>1. Justified(q)
      BY Zenon DEF Guarded
    <3> QED
      BY <1>3, <2>2, <3>1 DEF Justified, OtherAdmin, ReplacePc
  <2> QED
    BY <2>1, <2>2
<1>7. ASSUME NEW s \in Txn
      PROVE  \/ Alike(tx[s], tx'[s])
             \/ /\ tx'[s].op \in StaffOp => tx[s].op \in StaffOp
                /\ ~unguarded' => Justified(tx[s])'
  <2>1. CASE s = t
    <3>1. ~unguarded' => Justified(r)'
      BY <1>4, <1>6
    <3> QED
      BY <1>5, <2>1, <3>1 DEF Justified
  <2>2. CASE s # t
    BY <1>5, <2>2 DEF Alike
  <2> QED
    BY <2>1, <2>2
<1> QED
  BY <1>3, <1>4, <1>7, GuardMoves

LEMMA GuardStarts ==
  ASSUME Around, Guarded, NEW t \in Txn, StartsStaff(t)
  PROVE  Guarded'
<1> PICK op, pc, u, arg, old :
      BeginStaffOp(t, op, pc, u, arg, old) /\ u \in Exists /\ Grounds(op, pc, u, arg)
  BY StaffStart DEF Around, StartsStaff
<1> PICK r : r = Request(op, pc, u, arg, {old})
  OBVIOUS
<1>1. Begin(t, r) /\ users' = users /\ roles' = roles
  BY DEF BeginStaffOp, people
<1>2. tx[t] = Idle /\ tx'[t] = r /\ DOMAIN tx = Txn /\ \A s \in Txn \ {t} : tx'[s] = tx[s]
  BY <1>1 DEF Begin, Around, Types, RequestsOK
<1>3. r.op = op /\ r.pc = pc /\ r.user = u /\ r.arg = arg
  BY RequestFields
<1>4. ActiveSystemAdmins' = ActiveSystemAdmins
  BY <1>1 DEF ActiveSystemAdmins, Exists
<1>5. ~unguarded' => ~unguarded /\ (op \in StaffOp => ~\E s \in Txn : tx[s].op \in StaffOp)
  BY Zenon DEF BeginStaffOp
<1> SUFFICES ASSUME ~unguarded'
             PROVE  /\ ActiveSystemAdmins' # {}
                    /\ \A s, v \in Txn : tx'[s].op \in StaffOp /\ tx'[v].op \in StaffOp => s = v
                    /\ \A s \in Txn : Justified(tx[s])'
  BY Zenon DEF Guarded
<1>6. /\ ActiveSystemAdmins # {}
      /\ \A s, v \in Txn : tx[s].op \in StaffOp /\ tx[v].op \in StaffOp => s = v
      /\ \A s \in Txn : Justified(tx[s])
  BY <1>5, Zenon DEF Guarded
<1>7. \A s, v \in Txn : tx'[s].op \in StaffOp /\ tx'[v].op \in StaffOp => s = v
  BY <1>2, <1>3, <1>5, <1>6
<1>8. \A s \in Txn : Justified(tx[s])'
  <2> SUFFICES ASSUME NEW s \in Txn PROVE Justified(tx[s])'
    OBVIOUS
  <2>1. CASE s = t
    <3>1. Justified(r)'
      BY <1>3, <1>4 DEF Grounds, Justified, OtherAdmin, ReplacePc
    <3> QED
      BY <1>2, <2>1, <3>1 DEF Justified
  <2>2. CASE s # t
    BY <1>2, <1>4, <1>6, <2>2 DEF Justified, OtherAdmin
  <2> QED
    BY <2>1, <2>2
<1> QED
  BY <1>4, <1>6, <1>7, <1>8

\* The write that takes an administrator away: another one remains, and no other
\* session is changing the staff.
LEMMA GuardWrites ==
  ASSUME Around, Guarded, NEW t \in Txn, InsertRole(t) \/ UpdateUserStatus(t)
  PROVE  Guarded'
<1> PICK q : q = tx[t]
  OBVIOUS
<1> PICK u : u = q.user
  OBVIOUS
<1>1. RequestOK(q) /\ DOMAIN q = Fields /\ DOMAIN tx = Txn
  BY DEF Around, Types, RequestsOK, RequestOK
<1>2. u \in Exists /\ u \in User /\ q.op \in StaffOp
  BY <1>1 DEF InsertRole, UpdateUserStatus, RequestOK, ReplacePc, Exists
<1>3. ~unguarded' => ~unguarded
  BY Zenon DEF InsertRole, UpdateUserStatus, ghosts
<1> SUFFICES ASSUME ~unguarded'
             PROVE  /\ ActiveSystemAdmins' # {}
                    /\ \A s, v \in Txn : tx'[s].op \in StaffOp /\ tx'[v].op \in StaffOp => s = v
                    /\ \A s \in Txn : Justified(tx[s])'
  BY Zenon DEF Guarded
<1>4. /\ ActiveSystemAdmins # {}
      /\ \A s, v \in Txn : tx[s].op \in StaffOp /\ tx[v].op \in StaffOp => s = v
      /\ Justified(q)
  BY <1>3, Zenon DEF Guarded
<1>5. \A s \in Txn \ {t} : tx[s].op \notin StaffOp
  BY <1>2, <1>4
<1>6. /\ \A s \in Txn \ {t} : tx'[s].op \notin StaffOp /\ tx'[s].pc \notin ReplacePc \cup {"write"}
      /\ tx'[t].pc \notin ReplacePc \cup {"write"}
  <2>1. \A s \in Txn \ {t} : tx[s].pc \notin ReplacePc \cup {"write"}
    BY <1>5 DEF Around, Types, RequestsOK, RequestOK
  <2>2. CASE InsertRole(t)
    <3> PICK f : f = Replaced(t, tx[t].user, tx[t].seen)
      OBVIOUS
    <3> PICK r : r = [q EXCEPT !.pc = "revoke", !.seen = None]
      OBVIOUS
    <3>1. DOMAIN f = Txn /\ f[t] = q /\ \A s \in Txn \ {t} : SameRequest(tx[s], f[s])
      BY ReplacedOthers DEF Around, Replaced
    <3>2. tx' = [f EXCEPT ![t] = r]
      BY <2>2, <3>1 DEF InsertRole
    <3>3. r.pc = "revoke"
      BY <1>1 DEF Fields
    <3> QED
      BY <1>5, <2>1, <3>1, <3>2, <3>3 DEF SameRequest, ReplacePc
  <2>3. CASE UpdateUserStatus(t)
    <3>1. PICK r : tx' = [tx EXCEPT ![t] = r] /\ r.pc \in {"idle", "revoke"}
      <4>1. CASE tx[t].arg = "active"
        <5> PICK r : r = Idle
          OBVIOUS
        <5>1. tx' = [tx EXCEPT ![t] = r] /\ r.pc = "idle"
          BY <2>3, <4>1 DEF UpdateUserStatus, Done, Idle
        <5> QED
          BY <5>1
      <4>2. CASE tx[t].arg # "active"
        <5> PICK r : r = [q EXCEPT !.pc = "revoke"]
          OBVIOUS
        <5>1. tx' = [tx EXCEPT ![t] = r] /\ r.pc = "revoke"
          BY <1>1, <2>3, <4>2 DEF UpdateUserStatus, Goto, Fields
        <5> QED
          BY <5>1
      <4> QED
        BY <4>1, <4>2
    <3>2. tx'[t] = r /\ \A s \in Txn \ {t} : tx'[s] = tx[s]
      BY <1>1, <3>1
    <3> QED
      BY <1>5, <2>1, <3>1, <3>2 DEF ReplacePc
  <2> QED
    BY <2>2, <2>3
<1>7. \A s \in Txn : Justified(tx[s])'
  BY <1>6 DEF Justified
<1>8. ActiveSystemAdmins' # {}
  <2>1. CASE InsertRole(t)
    <3>1. roles' = [roles EXCEPT ![u] = (roles[u] \ q.seen) \cup {q.arg}] /\ users' = users
      BY <2>1 DEF InsertRole
    <3>2. q.arg = "system_admin" \/ OtherAdmin(u)
      BY <1>4, <2>1 DEF InsertRole, Justified, ReplacePc
    <3>3. PICK v \in ActiveSystemAdmins : q.arg = "system_admin" \/ v # u
      BY <1>4, <3>2 DEF OtherAdmin
    <3>4. v \in ActiveSystemAdmins'
      BY <1>2, <3>1, <3>3 DEF ActiveSystemAdmins, Exists, Around, Types, PeopleOK
    <3> QED
      BY <3>4
  <2>2. CASE UpdateUserStatus(t)
    <3> PICK w : w = users[u]
      OBVIOUS
    <3> PICK r : r = [w EXCEPT !.status = q.arg]
      OBVIOUS
    <3>1. users' = [users EXCEPT ![u] = r] /\ roles' = roles
      BY <1>2, <2>2 DEF UpdateUserStatus, Around, Types, PeopleOK
    <3>2. q.arg = "active" \/ OtherAdmin(u)
      BY <1>4, <2>2 DEF UpdateUserStatus, Justified
    <3>3. PICK v \in ActiveSystemAdmins : q.arg = "active" \/ v # u
      BY <1>4, <3>2 DEF OtherAdmin
    <3>4. r.status = q.arg
      BY <1>2, OneRow DEF Around, Types, UserRow
    <3>5. v \in Exists' /\ users'[v].status = "active" /\ "system_admin" \in roles'[v]
      BY <1>2, <3>1, <3>3, <3>4 DEF ActiveSystemAdmins, Exists, Around, Grow, Types, PeopleOK
    <3> QED
      BY <3>5 DEF ActiveSystemAdmins
  <2> QED
    BY <2>1, <2>2
<1> QED
  BY <1>2, <1>6, <1>7, <1>8

-------------------------------------------------------------------------------
(* The start, and the theorems.                                              *)

LEMMA OpeningRows ==
  ASSUME Init, NEW u \in User
  PROVE  /\ u \in Exists <=> u \in Known
         /\ u \in Known => /\ users[u] \in UserRow /\ (users[u].mfa => users[u].secret # None)
                           /\ customers[u] \in CustomerRow \cup {None}
                           /\ customers[u] # None => Remembers(customers[u])
                           /\ users[u].status = "pending_email" => customers[u] # None
                           /\ roles[u] \in SUBSET StaffRole /\ \A x, y \in roles[u] : x = y
         /\ u \notin Known => users[u] = None /\ customers[u] = None /\ roles[u] = {}
<1>1. CASE u \in Known
  <2> PICK o : o = Opening[u]
    OBVIOUS
  <2>1. /\ o.user \in UserRow /\ (o.user.mfa => o.user.secret # None)
        /\ o.customer \in CustomerRow \cup {None} /\ (o.customer # None => Remembers(o.customer))
        /\ o.user.status = "pending_email" => o.customer # None
        /\ o.roles \in SUBSET StaffRole /\ \A r, s \in o.roles : r = s
    BY <1>1, AccountsAssumption
  <2>2. users[u] = o.user /\ customers[u] = o.customer /\ roles[u] = o.roles
    BY <1>1 DEF Init, Known
  <2>3. u \in Exists
    BY <2>1, <2>2, NoneApart DEF Exists
  <2> QED
    BY <1>1, <2>1, <2>2, <2>3
<1>2. CASE u \notin Known
  BY <1>2 DEF Init, Known, Exists
<1> QED
  BY <1>1, <1>2

LEMMA TypesInit == ASSUME Init PROVE Types
<1>1. PeopleOK
  <2>1. users \in [User -> UserRow \cup {None}]
    BY OpeningRows DEF Init
  <2>2. roles \in [User -> SUBSET StaffRole]
    BY OpeningRows DEF Init
  <2>3. customers \in [User -> CustomerRow \cup {None}]
    BY OpeningRows DEF Init
  <2>4. history \in [User -> Seq([change : BOOLEAN, prev : Nat, new : Nat])]
    BY DEF Init
  <2>5. proved \in [User -> SUBSET (Nat \cup {None})]
    <3>1. \A u \in User : users[u] # None => users[u].secret \in Nat \cup {None}
      BY <2>1 DEF UserRow
    <3> QED
      BY <3>1 DEF Init
  <2>6. /\ Customers \subseteq Exists
        /\ \A u \in Customers : Remembers(customers[u])
        /\ \A u \in Exists : users[u].status = "pending_email" => u \in Customers
    BY OpeningRows DEF Customers, Exists
  <2> QED
    BY <2>1, <2>2, <2>3, <2>4, <2>5, <2>6 DEF PeopleOK
<1>2. PapersOK
  <2>1. tokens \in Seq(TokenOf(Customers))
    <3>1. \A u \in Known : Opening[u].customer # None => u \in Customers
      BY DEF Init, Known, Customers
    <3>2. \A i \in DOMAIN Unverified : Unverified[i] \in Customers
      BY <3>1, AccountsAssumption
    <3>3. \A i \in DOMAIN Unverified : tokens[i] \in TokenOf(Customers)
      BY <3>2 DEF Init, TokenOf
    <3>4. DOMAIN tokens = DOMAIN Unverified /\ tokens = [i \in DOMAIN Unverified |-> tokens[i]]
      BY DEF Init
    <3> QED
      BY <3>3, <3>4, SeqMap, AccountsAssumption
  <2>2. sessions \in Seq(SessionOf(Exists))
    <3>1. \A i \in DOMAIN SignedIn : SignedIn[i] \in Known
      BY AccountsAssumption
    <3>2. \A i \in DOMAIN SignedIn : SignedIn[i] \in Exists
      BY <3>1, OpeningRows DEF Known
    <3>3. \A i \in DOMAIN SignedIn : sessions[i] \in SessionOf(Exists)
      BY <3>2 DEF Init, SessionOf, Audience
    <3>4. DOMAIN sessions = DOMAIN SignedIn /\ sessions = [i \in DOMAIN SignedIn |-> sessions[i]]
      BY DEF Init
    <3> QED
      BY <3>3, <3>4, SeqMap, AccountsAssumption
  <2>3. invitations \in Seq(InvitationOf(Customers))
    BY DEF Init
  <2> QED
    BY <2>1, <2>2, <2>3 DEF PapersOK
<1>3. RequestsOK
  BY DEF Init, RequestsOK, RequestOK, Idle, Fields, ReplacePc, StaffOp
<1>4. LocksOK
  BY DEF Init, LocksOK
<1> QED
  BY <1>1, <1>2, <1>3, <1>4 DEF Types

LEMMA InvInit == ASSUME Init PROVE AccountsInv
<1>1. Types
  BY TypesInit
<1>2. EnabledSecretProved
  <2> SUFFICES ASSUME NEW u \in Exists, users[u].mfa PROVE users[u].secret \in proved[u]
    BY DEF EnabledSecretProved
  <2>1. u \in User /\ users[u] # None /\ users[u].secret # None
    BY OpeningRows DEF Exists
  <2>2. proved[u] = {users[u].secret} \ {None}
    BY <2>1 DEF Init
  <2> QED
    BY <2>1, <2>2
<1>3. \A t \in Txn : tx[t].pc = "idle" /\ tx[t].op = "idle"
  BY DEF Init, Idle
<1>4. SingleRoles
  <2>1. \A u \in User : Replacing(u) = {}
    BY <1>3 DEF Replacing
  <2>2. \A u \in User : \A x, y \in roles[u] : x = y
    BY OpeningRows
  <2> QED
    BY <2>1, <2>2 DEF SingleRoles
<1>5. Guarded
  <2>1. PICK u \in Known : Opening[u].user.status = "active" /\ "system_admin" \in Opening[u].roles
    BY AccountsAssumption
  <2>2. users[u].status = "active" /\ "system_admin" \in roles[u]
    BY <2>1 DEF Init, Known
  <2>3. u \in ActiveSystemAdmins
    BY <2>2, OpeningRows DEF ActiveSystemAdmins, Known
  <2>4. \A t \in Txn : tx[t].op \notin StaffOp /\ Justified(tx[t])
    BY <1>3 DEF StaffOp, Justified, ReplacePc
  <2> QED
    BY <2>3, <2>4 DEF Guarded
<1> QED
  BY <1>1, <1>2, <1>4, <1>5 DEF AccountsInv

LEMMA InvNext == ASSUME AccountsInv, Next PROVE AccountsInv'
<1>1. Types /\ Types' /\ Around
  BY TypesNext DEF AccountsInv
<1>2. ASSUME Quiet PROVE AccountsInv'
  <2>1. \A s \in Txn : tx'[s] = tx[s] \/ tx'[s].pc # "insert"
    BY <1>2 DEF Quiet, RequestsKeep, Harmless, ReplacePc
  <2>2. SingleRoles'
    BY <1>1, <1>2, <2>1, RolesKept DEF Quiet, StaffKeep, AccountsInv
  <2> QED
    BY <1>1, <1>2, <2>2, SecretsKept, GuardQuiet DEF Quiet, AccountsInv
<1>3. ASSUME NEW t \in Txn, StartsStaff(t) PROVE AccountsInv'
  <2> PICK op, pc, u, arg, old :
        BeginStaffOp(t, op, pc, u, arg, old) /\ u \in Exists /\ Grounds(op, pc, u, arg)
    BY <1>1, <1>3, StaffStart DEF StartsStaff
  <2> PICK r : r = Request(op, pc, u, arg, {old})
    OBVIOUS
  <2>1. users' = users /\ roles' = roles /\ crossed' = crossed /\ tx' = [tx EXCEPT ![t] = r]
    BY DEF BeginStaffOp, Begin, people
  <2>2. r.pc # "insert"
    BY RequestFields DEF Grounds
  <2>3. \A s \in Txn : tx'[s] = tx[s] \/ tx'[s].pc # "insert"
    BY <1>1, <2>1, <2>2 DEF Types, RequestsOK
  <2>4. SingleRoles'
    BY <1>1, <2>1, <2>3, RolesKept DEF AccountsInv
  <2> QED
    BY <1>1, <1>3, <2>1, <2>4, SameUsersKeep, SecretsKept, GuardStarts DEF AccountsInv
<1>4. ASSUME NEW t \in Txn, EnsureNotLastActiveAdmin(t) \/ EnableMFA(t) \/ UpdateUserStatus(t)
      PROVE  AccountsInv'
  <2>1. roles' = roles /\ crossed' = crossed
    BY <1>4 DEF EnsureNotLastActiveAdmin, EnableMFA, UpdateUserStatus, people, ghosts
  <2>2. \A s \in Txn : tx'[s] = tx[s] \/ tx'[s].pc # "insert"
    <3> PICK q : q = tx[t]
      OBVIOUS
    <3>1. DOMAIN q = Fields /\ DOMAIN tx = Txn
      BY <1>1 DEF Types, RequestsOK, RequestOK
    <3>2. ASSUME NEW pc, pc # "insert", Goto(t, pc)
          PROVE  \A s \in Txn : tx'[s] = tx[s] \/ tx'[s].pc # "insert"
      BY <3>1, <3>2 DEF Goto, Fields
    <3>3. ASSUME Done(t)
          PROVE  \A s \in Txn : tx'[s] = tx[s] \/ tx'[s].pc # "insert"
      BY <3>1, <3>3 DEF Done, Idle
    <3>4. CASE EnsureNotLastActiveAdmin(t)
      BY <3>2, <3>4 DEF EnsureNotLastActiveAdmin
    <3>5. CASE EnableMFA(t) \/ UpdateUserStatus(t)
      BY <3>2, <3>3, <3>5 DEF EnableMFA, UpdateUserStatus
    <3> QED
      BY <1>4, <3>4, <3>5
  <2>3. SingleRoles'
    BY <1>1, <2>1, <2>2, RolesKept DEF AccountsInv
  <2>4. EnabledSecretProved'
    <3>1. CASE EnsureNotLastActiveAdmin(t)
      BY <1>1, <3>1, SameUsersKeep, SecretsKept DEF EnsureNotLastActiveAdmin, people, AccountsInv
    <3> QED
      BY <1>1, <1>4, <3>1, SecretsEnabled DEF AccountsInv
  <2>5. Guarded'
    BY <1>1, <1>4, GuardCounted, GuardEnable, GuardWrites DEF AccountsInv
  <2> QED
    BY <1>1, <2>3, <2>4, <2>5 DEF AccountsInv
<1>5. ASSUME NEW t \in Txn, DeleteRoles(t) \/ InsertRole(t) \/ Accepted(t)
      PROVE  AccountsInv'
  <2>1. UsersKeep
    BY <1>1, <1>5, SameUsersKeep, QuietUsers DEF DeleteRoles, InsertRole, people
  <2>2. SingleRoles'
    BY <1>1, <1>5, RolesDeleted, RolesReplaced DEF AccountsInv
  <2>3. Guarded'
    BY <1>1, <1>5, GuardCounted, GuardWrites, GuardAccepted DEF AccountsInv
  <2> QED
    BY <1>1, <2>1, <2>2, <2>3, SecretsKept DEF AccountsInv
<1> QED
  BY <1>1, <1>2, <1>3, <1>4, <1>5, ExpireQuiet, QuietStart, QuietContinue DEF Next, ContinuesStaff

LEMMA InvStutter == ASSUME AccountsInv, UNCHANGED vars PROVE AccountsInv'
<1>1. Types'
  BY TypesStutter DEF AccountsInv
<1>2. EnabledSecretProved' /\ SingleRoles'
  BY DEF AccountsInv, vars, people, ghosts, EnabledSecretProved, SingleRoles, Exists, Replacing
<1>3. ActiveSystemAdmins' = ActiveSystemAdmins
  BY DEF vars, people, ActiveSystemAdmins, Exists
<1>4. Guarded'
  <2>1. unguarded' = unguarded /\ tx' = tx
    BY DEF vars, ghosts
  <2> SUFFICES ASSUME ~unguarded
               PROVE  /\ ActiveSystemAdmins' # {}
                      /\ \A s, t \in Txn : tx'[s].op \in StaffOp /\ tx'[t].op \in StaffOp => s = t
                      /\ \A t \in Txn : Justified(tx[t])'
    BY <2>1, Zenon DEF Guarded
  <2>2. /\ ActiveSystemAdmins # {}
        /\ \A s, t \in Txn : tx[s].op \in StaffOp /\ tx[t].op \in StaffOp => s = t
        /\ \A t \in Txn : Justified(tx[t])
    BY Zenon DEF AccountsInv, Guarded
  <2> QED
    BY <1>3, <2>1, <2>2 DEF Justified, OtherAdmin
<1> QED
  BY <1>1, <1>2, <1>4 DEF AccountsInv

\* What every session knows of its request, and what follows for the rows of
\* people, in every state that the handlers can reach.
THEOREM AccountsInvariant == Spec => []AccountsInv
<1>1. Init => AccountsInv
  BY InvInit
<1>2. AccountsInv /\ [Next]_vars => AccountsInv'
  BY InvNext, InvStutter
<1> QED
  BY <1>1, <1>2, PTL DEF Spec

\* Rows have their columns, whatever requests run (the schema of identity and
\* customers); a block remembers a status that is none.
THEOREM AccountsTypeOK == Spec => []TypeOK
<1>1. AccountsInv => TypeOK
  <2> SUFFICES ASSUME AccountsInv PROVE TypeOK
    OBVIOUS
  <2>1. TokenOf(Customers) \subseteq TokenOf(Exists)
    BY DEF AccountsInv, Types, PeopleOK, TokenOf
  <2>2. tokens \in Seq(TokenOf(Exists))
    BY <2>1, SeqWider DEF AccountsInv, Types, PapersOK
  <2>3. \A l \in locks : tx[l.tx] # Idle
    BY DEF AccountsInv, Types, LocksOK, Idle
  <2> QED
    BY <2>2, <2>3 DEF AccountsInv, Types, PeopleOK, PapersOK, TypeOK, TokenOf, InvitationOf, SessionOf
<1> QED
  BY <1>1, AccountsInvariant, PTL

\* The second factor is on only with a secret of which the user has shown a
\* code, although setup and verification run without a lock (VerifyMFA).
THEOREM SecretsProved == Spec => []EnabledSecretProved
<1>1. AccountsInv => EnabledSecretProved
  BY DEF AccountsInv
<1> QED
  BY <1>1, AccountsInvariant, PTL

\* A user has one internal role at most, unless two replacements of the role
\* cross (ReplaceUserRoleTx).
THEOREM RolesAreSingle == Spec => []OneInternalRole
<1>1. AccountsInv => OneInternalRole
  <2> SUFFICES ASSUME AccountsInv, NEW u \in User \ crossed PROVE Cardinality(roles[u]) <= 1
    BY DEF OneInternalRole
  <2>1. \A x, y \in roles[u] : x = y
    BY DEF AccountsInv, SingleRoles
  <2>2. CASE roles[u] = {}
    BY <2>2, FS_EmptySet
  <2>3. ASSUME NEW x \in roles[u] PROVE Cardinality(roles[u]) <= 1
    <3>1. roles[u] = {x}
      BY <2>1
    <3>2. Cardinality({x}) = 1
      BY FS_Singleton, Zenon
    <3>3. Cardinality(roles[u]) = 1
      BY <3>1, <3>2, Zenon
    <3> QED
      BY <3>3
  <2> QED
    BY <2>2, <2>3
<1> QED
  BY <1>1, AccountsInvariant, PTL

\* Unless two changes of the staff overlap, or an administrator accepts another
\* role, there is always an active administrator (ensureNotLastActiveAdmin).
THEOREM AdministratorRemains == Spec => []AnAdminRemains
<1>1. AccountsInv => AnAdminRemains
  BY Zenon DEF AccountsInv, Guarded, AnAdminRemains
<1> QED
  BY <1>1, AccountsInvariant, PTL

-------------------------------------------------------------------------------
(* The limit of a customer: the approval and the changes of it lead there.    *)

HistoryRow == [change : BOOLEAN, prev : Nat, new : Nat]

HasCustomer(t, u) == Holds(t, <<"customer", u>>, "X")

\* A session keeps the customer locked between two statements of a transaction.
KnowsLimit(t) ==
  LET r == tx[t] IN
  /\ r.pc = "limit" => HasCustomer(t, r.user) /\ r.seen = customers[r.user].limit
  /\ r.pc = "verified" => /\ r.seen \in BOOLEAN
                          /\ r.seen => /\ HasCustomer(t, r.user)
                                       /\ customers[r.user].status = "pending"

CustomersApart ==
  \A s, t \in Txn, u \in User : HasCustomer(s, u) /\ HasCustomer(t, u) => s = t

ApprovedOnce(u) ==
  /\ \A g \in granted[u] : g.limit \in Nat /\ g.after \in 0 .. Len(history[u])
  /\ \A g, h \in granted[u] : g = h
  /\ granted[u] # {} => u \in Customers /\ ~Pending(customers[u])

ChainOf(u) ==
  /\ \A n \in DOMAIN history[u] :
       history[u][n].change => history[u][n].prev = LimitAfter(u, n - 1)
  /\ customers[u].limit = LimitAfter(u, Len(history[u]))

\* Whoever is no customer has no limit.
LimitOK(u) == IF u \in Customers THEN ChainOf(u) ELSE history[u] = <<>>

LimitInv ==
  /\ CustomersApart
  /\ granted = [u \in User |-> granted[u]]
  /\ \A t \in Txn : KnowsLimit(t)
  /\ \A u \in User : ApprovedOnce(u) /\ LimitOK(u)

\* The limit after the first n rows of h with the approvals G.
LastOf(h, n) == Max({0} \cup {m \in 1 .. n : h[m].change})

GivenIn(h, G, n) == {g \in G : LastOf(h, n) <= g.after /\ g.after <= n}

After(h, G, n) ==
  IF GivenIn(h, G, n) # {} THEN (CHOOSE g \in GivenIn(h, G, n) : TRUE).limit
  ELSE IF LastOf(h, n) = 0 THEN 0 ELSE h[LastOf(h, n)].new

LEMMA LimitIsAfter ==
  ASSUME NEW u, NEW n
  PROVE  LimitAfter(u, n) = After(history[u], granted[u], n)
BY DEF LimitAfter, After, GivenIn, LastOf

LEMMA MaxIs ==
  ASSUME NEW S, S \subseteq Int, NEW m \in S, \A x \in S : x <= m
  PROVE  Max(S) = m
<1>1. Max(S) \in S /\ \A x \in S : x <= Max(S)
  BY DEF Max
<1> PICK x : x = Max(S)
  OBVIOUS
<1>2. x \in Int /\ m \in Int /\ x <= m /\ m <= x
  BY <1>1
<1> QED
  BY <1>2

\* There is a last row of its kind.
LEMMA LastExists ==
  ASSUME NEW h, NEW n \in Nat
  PROVE  LastOf(h, n) \in 0 .. n
<1> DEFINE Rows(k) == {0} \cup {m \in 1 .. k : h[m].change}
<1> DEFINE T == {k \in Nat : \E m \in Rows(k) : \A x \in Rows(k) : x <= m}
<1>1. 0 \in T
  OBVIOUS
<1>2. ASSUME NEW k \in Nat, k \in T PROVE k + 1 \in T
  <2>1. PICK m \in Rows(k) : \A x \in Rows(k) : x <= m
    BY <1>2
  <2>2. CASE h[k + 1].change
    <3>1. k + 1 \in Rows(k + 1) /\ \A x \in Rows(k + 1) : x <= k + 1
      BY <2>2
    <3> QED
      BY <3>1
  <2>3. CASE ~h[k + 1].change
    <3>1. Rows(k + 1) = Rows(k)
      BY <2>3
    <3> QED
      BY <2>1, <3>1
  <2> QED
    BY <2>2, <2>3
<1>3. n \in T
  <2> HIDE DEF T
  <2> QED
    BY <1>1, <1>2, NatInductionOnSet
<1>4. PICK m \in Rows(n) : \A x \in Rows(n) : x <= m
  BY <1>3
<1>5. Rows(n) \subseteq 0 .. n
  OBVIOUS
<1>6. Max(Rows(n)) = m
  BY <1>4, <1>5, MaxIs
<1>7. LastOf(h, n) = Max(Rows(n))
  BY DEF LastOf
<1> QED
  BY <1>4, <1>5, <1>6, <1>7

\* Rows that agree up to n have the same last one, and lead to the same limit.
LEMMA SameBefore ==
  ASSUME NEW h, NEW k, NEW G, NEW H, NEW n \in Nat, \A m \in 1 .. n : h[m] = k[m],
         \A g \in G : g.after <= n => g \in H, \A g \in H : g.after <= n => g \in G
  PROVE  After(k, H, n) = After(h, G, n)
<1>1. {m \in 1 .. n : h[m].change} = {m \in 1 .. n : k[m].change}
  OBVIOUS
<1>2. LastOf(k, n) = LastOf(h, n)
  BY <1>1, Zenon DEF LastOf
<1> PICK l : l = LastOf(h, n)
  OBVIOUS
<1>3. l \in 0 .. n
  BY LastExists
<1>4. {g \in H : l <= g.after /\ g.after <= n} = {g \in G : l <= g.after /\ g.after <= n}
  OBVIOUS
<1>5. GivenIn(k, H, n) = GivenIn(h, G, n)
  BY <1>2, <1>4, Zenon DEF GivenIn
<1>6. l # 0 => h[l] = k[l]
  BY <1>3
<1> QED
  BY <1>2, <1>5, <1>6 DEF After

\* A row that is no change leaves the limit.
LEMMA AfterRecord ==
  ASSUME NEW h, NEW k, NEW G, NEW n \in Nat, \A m \in 1 .. n : h[m] = k[m], ~k[n + 1].change,
         \A g \in G : g.after \in 0 .. n
  PROVE  After(k, G, n + 1) = After(h, G, n)
<1>1. {m \in 1 .. n + 1 : k[m].change} = {m \in 1 .. n : h[m].change}
  OBVIOUS
<1>2. LastOf(k, n + 1) = LastOf(h, n)
  BY <1>1, Zenon DEF LastOf
<1> PICK l : l = LastOf(h, n)
  OBVIOUS
<1>3. l \in 0 .. n
  BY LastExists
<1>4. {g \in G : l <= g.after /\ g.after <= n + 1} = {g \in G : l <= g.after /\ g.after <= n}
  OBVIOUS
<1>5. GivenIn(k, G, n + 1) = GivenIn(h, G, n)
  BY <1>2, <1>4, Zenon DEF GivenIn
<1>6. l # 0 => h[l] = k[l]
  BY <1>3
<1>7. PICK p : p = n + 1
  OBVIOUS
<1>8. LastOf(k, p) = LastOf(h, n) /\ GivenIn(k, G, p) = GivenIn(h, G, n)
  BY <1>2, <1>5, <1>7
<1>9. After(k, G, p) = After(h, G, n)
  BY <1>6, <1>8 DEF After
<1> QED
  BY <1>7, <1>9

\* A change leads to what it says.
LEMMA AfterChange ==
  ASSUME NEW k, NEW G, NEW n \in Nat, k[n + 1].change, \A g \in G : g.after \in 0 .. n
  PROVE  After(k, G, n + 1) = k[n + 1].new
<1> DEFINE S == {0} \cup {m \in 1 .. n + 1 : k[m].change}
<1>1. S \subseteq Int /\ n + 1 \in S /\ \A x \in S : x <= n + 1
  OBVIOUS
<1>2. LastOf(k, n + 1) = n + 1
  <2> HIDE DEF S
  <2>1. Max(S) = n + 1
    BY <1>1, MaxIs
  <2> QED
    BY <2>1 DEF LastOf, S
<1>3. {g \in G : n + 1 <= g.after /\ g.after <= n + 1} = {}
  OBVIOUS
<1>4. GivenIn(k, G, n + 1) = {}
  BY <1>2, <1>3, Zenon DEF GivenIn
<1> QED
  BY <1>2, <1>4 DEF After

\* An approval after the n rows there are gives its limit.
LEMMA AfterGrant ==
  ASSUME NEW h, NEW n \in Nat, NEW g, g.after = n
  PROVE  After(h, {g}, n) = g.limit
<1> PICK l : l = LastOf(h, n)
  OBVIOUS
<1>1. l \in 0 .. n
  BY LastExists
<1>2. {x \in {g} : l <= x.after /\ x.after <= n} = {g}
  BY <1>1
<1>3. GivenIn(h, {g}, n) = {g}
  BY <1>2, Zenon DEF GivenIn
<1>4. (CHOOSE x \in {g} : TRUE) = g
  OBVIOUS
<1> QED
  BY <1>3, <1>4, Zenon DEF After

LEMMA LimitWillBe ==
  ASSUME NEW u, NEW n
  PROVE  LimitAfter(u, n)' = After(history'[u], granted'[u], n)
BY DEF LimitAfter, After, GivenIn, LastOf

\* The chain of u, said of its rows.
Leads(h, G, limit) ==
  /\ \A n \in DOMAIN h : h[n].change => h[n].prev = After(h, G, n - 1)
  /\ limit = After(h, G, Len(h))

Approvals(h, G) ==
  /\ \A g \in G : g.limit \in Nat /\ g.after \in 0 .. Len(h)
  /\ \A f, g \in G : f = g

LEMMA ChainLeads ==
  ASSUME NEW u
  PROVE  /\ ChainOf(u) <=> Leads(history[u], granted[u], customers[u].limit)
         /\ ChainOf(u)' <=> Leads(history'[u], granted'[u], customers'[u].limit)
BY LimitIsAfter, LimitWillBe DEF ChainOf, Leads

LEMMA GrantLeads ==
  ASSUME NEW h \in Seq(HistoryRow), NEW g, g.limit \in Nat, g.after = Len(h), NEW limit,
         Leads(h, {}, limit)
  PROVE  Leads(h, {g}, g.limit) /\ Approvals(h, {g})
<1> PICK N : N = Len(h)
  OBVIOUS
<1>1. N \in Nat /\ DOMAIN h = 1 .. N
  OBVIOUS
<1>2. \A n \in 1 .. N : After(h, {g}, n - 1) = After(h, {}, n - 1)
  <2> SUFFICES ASSUME NEW n \in 1 .. N PROVE After(h, {g}, n - 1) = After(h, {}, n - 1)
    OBVIOUS
  <2>1. n - 1 \in Nat /\ \A f \in {g} : ~(f.after <= n - 1)
    BY <1>1
  <2> QED
    BY <2>1, SameBefore
<1>3. After(h, {g}, N) = g.limit
  BY <1>1, AfterGrant
<1>4. \A n \in 1 .. N : h[n].change => h[n].prev = After(h, {}, n - 1)
  BY <1>1 DEF Leads
<1>5. \A n \in 1 .. N : h[n].change => h[n].prev = After(h, {g}, n - 1)
  BY <1>2, <1>4
<1>6. Approvals(h, {g})
  BY <1>1 DEF Approvals
<1> QED
  BY <1>1, <1>3, <1>5, <1>6 DEF Leads

\* k is h with the row r behind it.
Longer(k, h, r) ==
  /\ Len(h) \in Nat /\ DOMAIN h = 1 .. Len(h) /\ Len(k) = Len(h) + 1
  /\ DOMAIN k = 1 .. Len(h) + 1 /\ k[Len(h) + 1] = r
  /\ \A m \in 1 .. Len(h) : k[m] = h[m]

LEMMA AppendLonger == ASSUME NEW h \in Seq(HistoryRow), NEW r PROVE Longer(Append(h, r), h, r)
BY DEF Longer

\* A row more: the rows before it and the approvals still lead where they led.
LEMMA RowMore ==
  ASSUME NEW h, NEW G, Approvals(h, G), NEW limit, Leads(h, G, limit),
         NEW r, NEW k, Longer(k, h, r), NEW after,
         r.change => r.prev = limit /\ after = r.new, ~r.change => after = limit,
         r.change \in BOOLEAN
  PROVE  Leads(k, G, after) /\ Approvals(k, G)
<1> PICK N : N = Len(h)
  OBVIOUS
<1>1. /\ N \in Nat /\ DOMAIN h = 1 .. N /\ Len(k) = N + 1 /\ DOMAIN k = 1 .. N + 1
      /\ k[N + 1] = r /\ \A m \in 1 .. N : k[m] = h[m]
  BY DEF Longer
<1>2. \A n \in 0 .. N : After(k, G, n) = After(h, G, n)
  <2> SUFFICES ASSUME NEW n \in 0 .. N PROVE After(k, G, n) = After(h, G, n)
    OBVIOUS
  <2>1. n \in Nat /\ \A m \in 1 .. n : h[m] = k[m]
    BY <1>1
  <2>2. \A g \in G : g.after <= n => g \in G
    OBVIOUS
  <2> QED
    BY <2>1, <2>2, SameBefore
<1>3. \A g \in G : g.after \in 0 .. N
  BY DEF Approvals
<1>4. After(h, G, N) = limit
  BY DEF Leads
<1>5. After(k, G, N + 1) = after
  <2>1. CASE r.change
    <3>1. k[N + 1].change /\ k[N + 1].new = after
      BY <1>1, <2>1
    <3>2. After(k, G, N + 1) = k[N + 1].new
      BY <1>1, <1>3, <3>1, AfterChange
    <3> QED
      BY <3>1, <3>2
  <2>2. CASE ~r.change
    <3>1. (\A m \in 1 .. N : h[m] = k[m]) /\ ~k[N + 1].change
      BY <1>1, <2>2
    <3>2. After(k, G, N + 1) = After(h, G, N)
      BY <1>1, <1>3, <3>1, AfterRecord
    <3> QED
      BY <1>4, <2>2, <3>2
  <2> QED
    BY <2>1, <2>2
<1>6. \A n \in 1 .. N + 1 : k[n].change => k[n].prev = After(k, G, n - 1)
  <2> SUFFICES ASSUME NEW n \in 1 .. N + 1, k[n].change PROVE k[n].prev = After(k, G, n - 1)
    OBVIOUS
  <2>1. n - 1 \in 0 .. N
    BY <1>1
  <2>2. After(k, G, n - 1) = After(h, G, n - 1)
    BY <1>2, <2>1
  <2>3. CASE n = N + 1
    <3>1. k[n].prev = limit /\ n - 1 = N
      BY <1>1, <2>3
    <3> QED
      BY <1>4, <2>2, <3>1
  <2>4. CASE n # N + 1
    <3>1. n \in 1 .. N
      BY <1>1, <2>4
    <3>2. h[n].prev = After(h, G, n - 1) /\ k[n] = h[n]
      BY <1>1, <3>1 DEF Leads
    <3> QED
      BY <2>2, <3>2
  <2> QED
    BY <2>3, <2>4
<1>7. Approvals(k, G)
  BY <1>1, <1>3 DEF Approvals
<1> QED
  BY <1>1, <1>5, <1>6, <1>7 DEF Leads

\* What a step does to the limit of u: nothing, ...
LimitSame(u) ==
  /\ history'[u] = history[u] /\ granted'[u] = granted[u]
  /\ u \in Customers' <=> u \in Customers
  /\ u \in Customers => /\ customers'[u].limit = customers[u].limit
                        /\ Pending(customers'[u]) => Pending(customers[u])

\* ... u becomes a customer, ...
LimitBegins(u) ==
  /\ u \notin Customers /\ u \in Customers' /\ customers'[u].limit = 0
  /\ history'[u] = history[u] /\ granted'[u] = granted[u]

\* ... an approval gives it, ...
LimitGiven(u) ==
  /\ u \in Customers /\ Pending(customers[u])
  /\ u \in Customers' /\ ~Pending(customers'[u]) /\ history'[u] = history[u]
  /\ \E limit \in Nat :
       /\ customers'[u].limit = limit
       /\ granted'[u] = granted[u] \cup {[limit |-> limit, after |-> Len(history[u])]}

\* ... or the history has one row more.
LimitNoted(u) ==
  /\ u \in Customers /\ u \in Customers' /\ granted'[u] = granted[u]
  /\ Pending(customers'[u]) => Pending(customers[u])
  /\ \E r \in HistoryRow :
       /\ history'[u] = Append(history[u], r)
       /\ customers'[u].limit = IF r.change THEN r.new ELSE customers[u].limit
       /\ r.change => r.prev = customers[u].limit

LimitMoves(u) == LimitSame(u) \/ LimitBegins(u) \/ LimitGiven(u) \/ LimitNoted(u)

LEMMA LimitKept ==
  ASSUME Types, NEW u \in User, ApprovedOnce(u), LimitOK(u), LimitMoves(u)
  PROVE  ApprovedOnce(u)' /\ LimitOK(u)'
<1> PICK h : h = history[u]
  OBVIOUS
<1> PICK G : G = granted[u]
  OBVIOUS
<1>1. h \in Seq(HistoryRow)
  BY DEF Types, PeopleOK, HistoryRow
<1>2. Approvals(h, G) /\ (G # {} => u \in Customers /\ ~Pending(customers[u]))
  BY DEF ApprovedOnce, Approvals
<1>3. IF u \in Customers THEN Leads(h, G, customers[u].limit) ELSE h = <<>>
  BY ChainLeads DEF LimitOK
<1>4. ASSUME Approvals(history'[u], granted'[u]),
             granted'[u] # {} => u \in Customers' /\ ~Pending(customers'[u]),
             IF u \in Customers' THEN Leads(history'[u], granted'[u], customers'[u].limit)
             ELSE history'[u] = <<>>
      PROVE  ApprovedOnce(u)' /\ LimitOK(u)'
  <2>1. ApprovedOnce(u)'
    BY <1>4 DEF ApprovedOnce, Approvals, Pending
  <2>2. LimitOK(u)'
    BY <1>4, ChainLeads DEF LimitOK
  <2> QED
    BY <2>1, <2>2
<1>5. CASE LimitSame(u)
  BY <1>2, <1>3, <1>4, <1>5 DEF LimitSame
<1>6. CASE LimitBegins(u)
  <2>1. G = {} /\ h = <<>>
    BY <1>2, <1>3, <1>6 DEF LimitBegins
  <2>2. Leads(<<>>, {}, 0)
    <3>1. After(<<>>, {}, 0) = 0
      <4>1. LastOf(<<>>, 0) = 0
        BY LastExists
      <4>2. GivenIn(<<>>, {}, 0) = {}
        BY DEF GivenIn
      <4> QED
        BY <4>1, <4>2 DEF After
    <3> QED
      BY <3>1 DEF Leads
  <2> QED
    BY <1>2, <1>4, <1>6, <2>1, <2>2 DEF LimitBegins
<1>7. CASE LimitGiven(u)
  <2>1. PICK limit \in Nat :
          /\ customers'[u].limit = limit
          /\ granted'[u] = granted[u] \cup {[limit |-> limit, after |-> Len(history[u])]}
    BY <1>7 DEF LimitGiven
  <2> PICK g : g = [limit |-> limit, after |-> Len(h)]
    OBVIOUS
  <2>2. G = {} /\ Leads(h, {}, customers[u].limit)
    BY <1>2, <1>3, <1>7 DEF LimitGiven
  <2>3. g.limit = limit /\ g.after = Len(h) /\ granted'[u] = {g}
    BY <2>1, <2>2
  <2>4. Leads(h, {g}, limit) /\ Approvals(h, {g})
    BY <1>1, <2>2, <2>3, GrantLeads
  <2> QED
    BY <1>4, <1>7, <2>1, <2>3, <2>4 DEF LimitGiven
<1>8. CASE LimitNoted(u)
  <2>1. PICK r \in HistoryRow :
          /\ history'[u] = Append(history[u], r)
          /\ customers'[u].limit = IF r.change THEN r.new ELSE customers[u].limit
          /\ r.change => r.prev = customers[u].limit
    BY <1>8 DEF LimitNoted
  <2>2. r.change \in BOOLEAN
    BY DEF HistoryRow
  <2>3. Leads(h, G, customers[u].limit)
    BY <1>3, <1>8 DEF LimitNoted
  <2>4. Leads(history'[u], G, customers'[u].limit) /\ Approvals(history'[u], G)
    BY <1>1, <1>2, <2>1, <2>2, <2>3, RowMore, AppendLonger
  <2> QED
    BY <1>2, <1>4, <1>8, <2>4 DEF LimitNoted
<1> QED
  BY <1>5, <1>6, <1>7, <1>8 DEF LimitMoves

-------------------------------------------------------------------------------
(* Which steps move a limit, and what the sessions know of it.               *)

\* No other session has a customer locked that t changes.
CustomersFree(t) ==
  \A u \in Customers : customers'[u] = customers[u] \/ Free(t, "customer", u) \/ HasCustomer(t, u)

\* The locks of the others stay, and t takes those of free customers.
LimitLocks(t) ==
  /\ \A l \in locks : l.tx # t => l \in locks'
  /\ \A u \in User, s \in Txn :
       HasCustomer(s, u)' => HasCustomer(s, u) \/ (s = t /\ Free(t, "customer", u))

OthersSame(t) == \A s \in Txn \ {t} : SameRequest(tx[s], tx'[s])

LEMMA FreeAlone ==
  ASSUME NEW t \in Txn, NEW u \in User, Free(t, "customer", u), NEW s \in Txn \ {t}
  PROVE  ~HasCustomer(s, u)
<1> SUFFICES ASSUME HasCustomer(s, u) PROVE FALSE
  OBVIOUS
<1> PICK l : l = [row |-> <<"customer", u>>, tx |-> s, mode |-> "X"]
  OBVIOUS
<1>1. l \in locks /\ l.row = <<"customer", u>> /\ l.tx = s /\ l.mode = "X"
  BY DEF HasCustomer, Holds
<1> QED
  BY <1>1 DEF Free, CanLock

\* A step whose other sessions keep what they know, and whose own knows its part.
LEMMA LimitStep ==
  ASSUME Types, Types', LimitInv, NEW t \in Txn, granted' = [u \in User |-> granted'[u]],
         CustomersFree(t), LimitLocks(t), OthersSame(t), KnowsLimit(t)',
         \A u \in User : LimitMoves(u)
  PROVE  LimitInv'
<1>1. CustomersApart'
  <2> SUFFICES ASSUME NEW r \in Txn, NEW s \in Txn, NEW u \in User,
                      HasCustomer(r, u)', HasCustomer(s, u)', r # s
               PROVE  FALSE
    BY DEF CustomersApart
  <2>1. /\ HasCustomer(r, u) \/ (r = t /\ Free(t, "customer", u))
        /\ HasCustomer(s, u) \/ (s = t /\ Free(t, "customer", u))
    BY DEF LimitLocks
  <2>2. ~(HasCustomer(r, u) /\ HasCustomer(s, u))
    BY DEF LimitInv, CustomersApart
  <2> QED
    BY <2>1, <2>2, FreeAlone
<1>2. \A s \in Txn : KnowsLimit(s)'
  <2> SUFFICES ASSUME NEW s \in Txn \ {t} PROVE KnowsLimit(s)'
    OBVIOUS
  <2>1. SameRequest(tx[s], tx'[s]) /\ KnowsLimit(s)
    BY DEF OthersSame, LimitInv
  <2>2. ASSUME NEW u \in Customers, HasCustomer(s, u)
        PROVE  HasCustomer(s, u)' /\ customers'[u] = customers[u]
    <3> u \in User
      BY DEF Customers
    <3> PICK l : l = [row |-> <<"customer", u>>, tx |-> s, mode |-> "X"]
      OBVIOUS
    <3>1. l \in locks /\ l.tx # t
      BY <2>2 DEF HasCustomer, Holds
    <3>2. l \in locks'
      BY <3>1 DEF LimitLocks
    <3>3. ~Free(t, "customer", u)
      BY <2>2, FreeAlone
    <3>4. ~HasCustomer(t, u)
      BY <2>2 DEF LimitInv, CustomersApart
    <3> QED
      BY <3>2, <3>3, <3>4 DEF CustomersFree, HasCustomer, Holds
  <2>3. tx[s].pc \in LockingPc => tx[s].user \in Customers
    BY DEF Types, RequestsOK, RequestOK, LockingPc
  <2>4. tx'[s].pc = tx[s].pc /\ tx'[s].user = tx[s].user
        /\ (tx[s].pc \in LockingPc => tx'[s].seen = tx[s].seen)
    BY <2>1 DEF SameRequest, LockingPc
  <2> QED
    BY <2>1, <2>2, <2>3, <2>4 DEF KnowsLimit, LockingPc
<1>3. \A u \in User : ApprovedOnce(u)' /\ LimitOK(u)'
  BY LimitKept DEF LimitInv
<1> QED
  BY <1>1, <1>2, <1>3 DEF LimitInv

\* Steps that leave customers and their limits alone.
LimitsAlone == UNCHANGED <<customers, history, granted>>

LEMMA AloneStep ==
  ASSUME Types, Types', LimitInv, NEW t \in Txn, LimitsAlone, OthersSame(t),
         tx'[t].pc \notin LockingPc, locks' = locks \/ locks' = WithoutLocks(t)
  PROVE  LimitInv'
<1>1. granted' = [u \in User |-> granted'[u]] /\ CustomersFree(t)
  BY DEF LimitInv, LimitsAlone, CustomersFree
<1>2. LimitLocks(t)
  BY DEF LimitLocks, WithoutLocks, HasCustomer, Holds
<1>3. KnowsLimit(t)'
  BY DEF KnowsLimit, LockingPc
<1>4. \A u \in User : LimitMoves(u)
  BY DEF LimitsAlone, LimitMoves, LimitSame, Customers
<1> QED
  BY <1>1, <1>2, <1>3, <1>4, LimitStep

\* Only t goes on, with r.
LEMMA OnlyOne ==
  ASSUME Types, NEW t \in Txn, NEW r, tx' = [tx EXCEPT ![t] = r]
  PROVE  OthersSame(t) /\ tx'[t] = r
BY DEF Types, RequestsOK, RequestOK, OthersSame, SameRequest

LEMMA DoneElsewhere ==
  ASSUME Types, NEW t \in Txn, Done(t) \/ Begin(t, Idle)
  PROVE  OthersSame(t) /\ tx'[t] = Idle /\ Idle.pc \notin LockingPc
<1> PICK r : r = Idle
  OBVIOUS
<1>1. tx' = [tx EXCEPT ![t] = r] /\ r.pc \notin LockingPc
  BY DEF Done, Begin, Idle, LockingPc
<1> QED
  BY <1>1, OnlyOne

LEMMA BeginElsewhere ==
  ASSUME Types, NEW t \in Txn, NEW op, NEW pc, NEW u, NEW arg, NEW seen,
         Begin(t, Request(op, pc, u, arg, seen))
  PROVE  OthersSame(t) /\ tx'[t].pc = pc /\ tx'[t].user = u /\ tx'[t].seen = seen
<1> PICK r : r = Request(op, pc, u, arg, seen)
  OBVIOUS
<1>1. tx' = [tx EXCEPT ![t] = r] /\ r.pc = pc /\ r.user = u /\ r.seen = seen
  BY RequestFields DEF Begin
<1> QED
  BY <1>1, OnlyOne

LEMMA GotoElsewhere ==
  ASSUME Types, NEW t \in Txn, NEW pc, Goto(t, pc)
  PROVE  OthersSame(t) /\ tx'[t].pc = pc
<1> PICK q : q = tx[t]
  OBVIOUS
<1> PICK r : r = [q EXCEPT !.pc = pc]
  OBVIOUS
<1>1. DOMAIN q = Fields
  BY DEF Types, RequestsOK, RequestOK
<1>2. tx' = [tx EXCEPT ![t] = r] /\ r.pc = pc
  BY <1>1 DEF Goto, Types, RequestsOK, Fields
<1> QED
  BY <1>2, OnlyOne

LEMMA AloneStarts ==
  ASSUME Types, Types', LimitInv, NEW t \in Txn,
         \/ resendVerification(t) \/ login(t) \/ logout(t) \/ mfaSetup(t) \/ mfaVerify(t)
         \/ createInvitation(t) \/ revokeInvitation(t) \/ acceptInvitation(t) \/ StartsStaff(t)
  PROVE  LimitInv'
<1>1. ASSUME NEW op, NEW pc, NEW u, NEW arg, NEW seen, pc \notin LockingPc,
             Begin(t, Request(op, pc, u, arg, seen)), LimitsAlone, locks' = locks
      PROVE  LimitInv'
  BY <1>1, BeginElsewhere, AloneStep
<1>2. CASE resendVerification(t) \/ mfaVerify(t)
  <2>1. PICK op, pc, u, arg, seen :
          pc \notin LockingPc /\ Begin(t, Request(op, pc, u, arg, seen))
    BY <1>2 DEF resendVerification, ResendVerification, mfaVerify, VerifyMFA, LockingPc
  <2>2. LimitsAlone /\ locks' = locks
    BY <1>2 DEF resendVerification, ResendVerification, mfaVerify, VerifyMFA, people, ghosts, LimitsAlone
  <2> QED
    BY <1>1, <2>1, <2>2
<1>3. CASE login(t)
  <2> PICK u \in User, audience \in Audience, right \in BOOLEAN : Login(t, u, audience, right)
    BY <1>3 DEF login
  <2> PICK pc : pc = IF right THEN "check" ELSE "wrong"
    OBVIOUS
  <2>1. /\ Begin(t, Request("login", pc, u, audience, users[u].failed)) /\ pc \notin LockingPc
        /\ LimitsAlone /\ locks' = locks
    BY DEF Login, LockingPc, people, ghosts, LimitsAlone
  <2> QED
    BY <1>1, <2>1
<1>4. CASE logout(t) \/ mfaSetup(t)
  <2>1. Begin(t, Idle) /\ LimitsAlone /\ locks' = locks
    BY <1>4 DEF logout, Logout, mfaSetup, SetupMFA, people, ghosts, LimitsAlone
  <2> QED
    BY <2>1, DoneElsewhere, AloneStep
<1>5. CASE createInvitation(t) \/ revokeInvitation(t) \/ acceptInvitation(t)
  <2>1. PICK op, pc, u, arg, seen :
          pc \notin LockingPc /\ Begin(t, Request(op, pc, u, arg, seen))
    BY <1>5 DEF createInvitation, CreateInvitation, revokeInvitation, RevokeInvitation,
                acceptInvitation, AcceptInvitation, LockingPc
  <2>2. LimitsAlone /\ locks' = locks
    BY <1>5 DEF createInvitation, CreateInvitation, revokeInvitation, RevokeInvitation,
                acceptInvitation, AcceptInvitation, people, ghosts, LimitsAlone
  <2> QED
    BY <1>1, <2>1, <2>2
<1>6. CASE StartsStaff(t)
  <2>1. PICK op, pc, u, arg, old :
          BeginStaffOp(t, op, pc, u, arg, old) /\ u \in Exists /\ Grounds(op, pc, u, arg)
    BY <1>6, StaffStart DEF StartsStaff
  <2>2. pc \notin LockingPc
    BY <2>1 DEF Grounds, LockingPc
  <2>3. Begin(t, Request(op, pc, u, arg, {old})) /\ LimitsAlone /\ locks' = locks
    BY <2>1 DEF BeginStaffOp, people, LimitsAlone
  <2> QED
    BY <1>1, <2>2, <2>3
<1> QED
  BY <1>2, <1>3, <1>4, <1>5, <1>6

LEMMA AloneContinues ==
  ASSUME Types, Types', LimitInv, NEW t \in Txn, Continue(t) \/ Abort(t),
         ~Verified(t), ~RecordApproval(t), ~LimitChanged(t)
  PROVE  LimitInv'
<1>1. CASE \/ Enqueued(t) \/ WrongPassword(t) \/ CreateSession(t) \/ EnableMFA(t)
           \/ Invited(t) \/ Withdrawn(t) \/ Abort(t)
  <2>1. Done(t) /\ LimitsAlone /\ (locks' = locks \/ locks' = WithoutLocks(t))
    BY <1>1 DEF Enqueued, WrongPassword, CreateSession, EnableMFA, Invited, Withdrawn, Abort,
         people, ghosts, LimitsAlone
  <2> QED
    BY SMTT(30), <2>1, DoneElsewhere, AloneStep
<1>2. ASSUME NEW pc, pc \notin LockingPc, Goto(t, pc) \/ Done(t), LimitsAlone, locks' = locks
      PROVE  LimitInv'
  BY <1>2, GotoElsewhere, DoneElsewhere, AloneStep
<1>3. CASE \/ ActivateApproved(t) \/ CheckLogin(t) \/ UpdateUserLoginState(t) \/ DropError(t)
           \/ RevokeUserSessions(t)
  <2>1. LimitsAlone /\ locks' = locks
    BY <1>3 DEF ActivateApproved, CheckLogin, UpdateUserLoginState, DropError, RevokeUserSessions,
         people, ghosts, LimitsAlone
  <2>2. \E pc \in {"record", "enter", "revoke", "session"} : Goto(t, pc) \/ Done(t)
    BY <1>3 DEF ActivateApproved, CheckLogin, UpdateUserLoginState, DropError, RevokeUserSessions
  <2> QED
    BY <1>2, <2>1, <2>2 DEF LockingPc
<1>4. CASE EnsureNotLastActiveAdmin(t) \/ UpdateUserStatus(t)
  <2>1. LimitsAlone /\ locks' = locks
    BY <1>4 DEF EnsureNotLastActiveAdmin, UpdateUserStatus, people, ghosts, LimitsAlone
  <2>2. PICK pc \in {"write", "delete", "revoke"} : Goto(t, pc) \/ Done(t)
    BY <1>4 DEF EnsureNotLastActiveAdmin, UpdateUserStatus
  <2> QED
    BY <1>2, <2>1, <2>2 DEF LockingPc
<1>5. ASSUME NEW r, tx' = [tx EXCEPT ![t] = r], r.pc \notin LockingPc, LimitsAlone, locks' = locks
      PROVE  LimitInv'
  BY <1>5, OnlyOne, AloneStep
<1>6. ASSUME NEW u, NEW gone, NEW r, tx' = [Replaced(t, u, gone) EXCEPT ![t] = r],
             r.pc \notin LockingPc, LimitsAlone, locks' = locks
      PROVE  LimitInv'
  <2>1. DOMAIN Replaced(t, u, gone) = Txn
    BY DEF Replaced
  <2>2. tx'[t] = r /\ \A s \in Txn \ {t} : tx'[s] = Replaced(t, u, gone)[s]
    BY <1>6, <2>1
  <2>3. OthersSame(t)
    BY <2>2, ReplacedOthers DEF OthersSame
  <2> QED
    BY <1>6, <2>2, <2>3, AloneStep
<1>7. CASE InsertRole(t)
  <2> PICK u : u = tx[t].user
    OBVIOUS
  <2> PICK gone : gone = tx[t].seen
    OBVIOUS
  <2> PICK f : f = Replaced(t, u, gone)
    OBVIOUS
  <2> PICK q : q = f[t]
    OBVIOUS
  <2> PICK r : r = [q EXCEPT !.pc = "revoke", !.seen = None]
    OBVIOUS
  <2>1. q = tx[t] /\ DOMAIN q = Fields /\ DOMAIN f = Txn
    BY DEF Replaced, Types, RequestsOK, RequestOK
  <2>2. tx' = [f EXCEPT ![t].pc = "revoke", ![t].seen = None]
    BY <1>7 DEF InsertRole
  <2>3. tx' = [f EXCEPT ![t] = r] /\ r.pc = "revoke"
    BY <2>1, <2>2 DEF Fields
  <2>4. LimitsAlone /\ locks' = locks
    BY <1>7 DEF InsertRole, ghosts, LimitsAlone
  <2> QED
    BY <1>6, <2>3, <2>4 DEF LockingPc
<1>8. CASE Accepted(t)
  <2>1. tx' = [Replaced(t, tx[t].user, roles[tx[t].user]) EXCEPT ![t] = Idle]
        /\ LimitsAlone /\ locks' = locks
    BY <1>8 DEF Accepted, LimitsAlone
  <2>2. Idle.pc \notin LockingPc
    BY DEF Idle, LockingPc
  <2> QED
    BY <1>6, <2>1, <2>2
<1>9. CASE EnqueueVerification(t)
  <2> PICK q : q = tx[t]
    OBVIOUS
  <2> PICK K : K = {k \in DOMAIN tokens : tokens[k].user = tx[t].user /\ ~tokens[k].used}
    OBVIOUS
  <2> PICK r : r = [q EXCEPT !.pc = "enqueued", !.seen = K]
    OBVIOUS
  <2>1. DOMAIN q = Fields /\ DOMAIN tx = Txn
    BY DEF Types, RequestsOK, RequestOK
  <2>2. tx' = [tx EXCEPT ![t] = r] /\ r.pc = "enqueued"
    BY <1>9, <2>1 DEF EnqueueVerification, Fields
  <2>3. LimitsAlone /\ locks' = locks
    BY <1>9 DEF EnqueueVerification, people, ghosts, LimitsAlone
  <2> QED
    BY <1>5, <2>2, <2>3 DEF LockingPc
<1>10. CASE DeleteRoles(t)
  <2> PICK q : q = tx[t]
    OBVIOUS
  <2> PICK r : r = [q EXCEPT !.seen = roles[tx[t].user], !.pc = "insert"]
    OBVIOUS
  <2>1. DOMAIN q = Fields /\ DOMAIN tx = Txn
    BY DEF Types, RequestsOK, RequestOK
  <2>2. tx' = [tx EXCEPT ![t] = r] /\ r.pc = "insert"
    BY <1>10, <2>1 DEF DeleteRoles, Fields
  <2>3. LimitsAlone /\ locks' = locks
    BY <1>10 DEF DeleteRoles, people, LimitsAlone
  <2> QED
    BY <1>5, <2>2, <2>3 DEF LockingPc
<1> QED
  BY <1>1, <1>3, <1>4, <1>7, <1>8, <1>9, <1>10 DEF Continue

\* Only the customer u moves.
LEMMA OneLimit ==
  ASSUME LimitInv, NEW t \in Txn, NEW u \in User,
         NEW G, granted' = [granted EXCEPT ![u] = G],
         \A v \in User \ {u} : customers'[v] = customers[v] /\ history'[v] = history[v],
         \/ u \notin Customers \/ customers'[u] = customers[u]
         \/ Free(t, "customer", u) \/ HasCustomer(t, u),
         granted'[u] = G => LimitMoves(u)
  PROVE  /\ granted' = [v \in User |-> granted'[v]] /\ CustomersFree(t)
         /\ \A v \in User : LimitMoves(v)
<1>1. /\ granted' = [v \in User |-> granted'[v]] /\ granted'[u] = G
      /\ \A v \in User \ {u} : granted'[v] = granted[v]
  BY DEF LimitInv
<1>2. CustomersFree(t)
  BY DEF CustomersFree, Customers
<1>3. \A v \in User \ {u} : LimitSame(v)
  BY <1>1 DEF LimitSame, Customers
<1> QED
  BY <1>1, <1>2, <1>3 DEF LimitMoves

LEMMA SameGranted ==
  ASSUME LimitInv, NEW u, granted' = granted
  PROVE  granted' = [granted EXCEPT ![u] = granted[u]]
BY DEF LimitInv

LEMMA LocksEnd ==
  ASSUME NEW t \in Txn, locks' = locks \/ locks' = WithoutLocks(t)
  PROVE  LimitLocks(t)
BY DEF LimitLocks, WithoutLocks, HasCustomer, Holds

LEMMA RegisterLimit ==
  ASSUME Types, Types', LimitInv, NEW t \in Txn, register(t)
  PROVE  LimitInv'
<1> PICK u \in User : Register(t, u)
  BY DEF register
<1>1. u \notin Customers
  BY DEF Register, Types, PeopleOK, Exists
<1>2. /\ customers'[u] = NewCustomer /\ \A v \in User \ {u} : customers'[v] = customers[v]
      /\ history' = history /\ granted' = granted
  BY DEF Register, Types, PeopleOK, ghosts
<1>3. NewCustomer.limit = 0 /\ NewCustomer # None
  <2>1. NewCustomer \in CustomerRow
    BY DEF NewCustomer, CustomerRow, CustomerStatus
  <2> QED
    BY <2>1, NoneApart DEF NewCustomer
<1>4. LimitBegins(u)
  BY <1>1, <1>2, <1>3 DEF LimitBegins, Customers
<1>5. /\ granted' = [v \in User |-> granted'[v]] /\ CustomersFree(t)
      /\ \A v \in User : LimitMoves(v)
  BY <1>1, <1>2, <1>4, SameGranted, OneLimit DEF LimitMoves
<1>6. OthersSame(t) /\ KnowsLimit(t)'
  BY DoneElsewhere DEF Register, KnowsLimit, LockingPc
<1>7. LimitLocks(t)
  BY LocksEnd DEF Register
<1> QED
  BY <1>5, <1>6, <1>7, LimitStep

LEMMA VerifyLimit ==
  ASSUME Types, Types', LimitInv, NEW t \in Txn, verifyEmail(t)
  PROVE  LimitInv'
<1> PICK k \in DOMAIN tokens : VerifyEmail(t, k)
  BY DEF verifyEmail
<1> PICK u : u = tokens[k].user
  OBVIOUS
<1> PICK pending : pending = (customers[u].status = "pending")
  OBVIOUS
<1>1. u \in User
  <2>1. tokens[k] \in TokenOf(Customers)
    BY DEF Types, PapersOK
  <2> QED
    BY <2>1 DEF TokenOf, Customers
<1>2. /\ pending \in BOOLEAN /\ pending => Free(t, "customer", u)
      /\ locks' = locks \cup {[row |-> row, tx |-> t, mode |-> "X"] :
                row \in {<<"token", k>>, <<"user", u>>}
                          \cup (IF pending THEN {<<"customer", u>>} ELSE {})}
      /\ Begin(t, Request("verify", "verified", u, k, pending))
      /\ LimitsAlone
  BY DEF VerifyEmail, people, ghosts, LimitsAlone
<1>3. /\ OthersSame(t)
      /\ tx'[t].pc = "verified" /\ tx'[t].user = u /\ tx'[t].seen = pending
  BY <1>2, BeginElsewhere
<1>4. LimitLocks(t)
  <2> SUFFICES ASSUME NEW v \in User, NEW s \in Txn, HasCustomer(s, v)', ~HasCustomer(s, v)
               PROVE  s = t /\ Free(t, "customer", v)
    BY <1>2 DEF LimitLocks
  <2> PICK l : l = [row |-> <<"customer", v>>, tx |-> s, mode |-> "X"]
    OBVIOUS
  <2>1. l \in locks' /\ l \notin locks
    BY DEF HasCustomer, Holds
  <2>2. PICK row \in {<<"token", k>>, <<"user", u>>}
                          \cup (IF pending THEN {<<"customer", u>>} ELSE {}) :
          l = [row |-> row, tx |-> t, mode |-> "X"]
    BY <1>2, <2>1
  <2>3. l.row = <<"customer", v>> /\ l.tx = s /\ l.row = row /\ l.tx = t
    BY <2>2
  <2>4. pending /\ v = u
    BY <2>3
  <2> QED
    BY <1>2, <2>3, <2>4
<1>5. KnowsLimit(t)'
  <2>1. pending => HasCustomer(t, u)'
    BY <1>2 DEF HasCustomer, Holds
  <2>2. pending => customers'[u].status = "pending"
    BY <1>2 DEF LimitsAlone
  <2> QED
    BY <1>2, <1>3, <2>1, <2>2 DEF KnowsLimit
<1>6. \A v \in User : LimitMoves(v)
  BY <1>2 DEF LimitsAlone, LimitMoves, LimitSame, Customers
<1>7. granted' = [v \in User |-> granted'[v]] /\ CustomersFree(t)
  BY <1>2 DEF LimitInv, LimitsAlone, CustomersFree
<1> QED
  BY <1>3, <1>4, <1>5, <1>6, <1>7, LimitStep

LEMMA VerifiedLimit ==
  ASSUME Types, Types', LimitInv, NEW t \in Txn, Verified(t)
  PROVE  LimitInv'
<1> PICK u : u = tx[t].user
  OBVIOUS
<1> PICK pending : pending = tx[t].seen
  BY SMTT(30)
<1>1. u \in Customers /\ u \in User
  BY DEF Verified, Types, RequestsOK, RequestOK, Customers
<1>2. /\ pending \in BOOLEAN
      /\ pending => HasCustomer(t, u) /\ customers[u].status = "pending"
  BY DEF Verified, LimitInv, KnowsLimit
<1> PICK c : c = customers[u]
  OBVIOUS
<1>3. c \in CustomerRow /\ Remembers(c)
  BY <1>1, OneRow DEF Types
<1> PICK d : d = [c EXCEPT !.status = IF c.status = "blocked" THEN c.status ELSE "approved",
                           !.limit = IF pending THEN DefaultLimit ELSE c.limit]
  BY SMTT(30)
<1>4. customers' = [customers EXCEPT ![u] = d]
  BY Zenon, <1>1 DEF Verified, Types, PeopleOK
<1>5. /\ customers'[u] = d /\ u \in Customers' /\ history' = history
      /\ \A v \in User \ {u} : customers'[v] = customers[v]
  <2>1. d # None
    BY <1>3, NoneApart, AccountsAssumption DEF CustomerRow, CustomerStatus
  <2> QED
    BY ZenonT(40), <1>1, <1>4, <2>1 DEF Verified, Types, PeopleOK, Customers
<1>6. PICK G : G = IF ~pending THEN granted[u]
                   ELSE granted[u] \cup {[limit |-> DefaultLimit, after |-> Len(history[u])]}
  OBVIOUS
<1>7. granted' = [granted EXCEPT ![u] = G]
  BY <1>6 DEF Verified
<1>8. d.status = (IF c.status = "blocked" THEN c.status ELSE "approved") /\ d.before = c.before
      /\ d.limit = IF pending THEN DefaultLimit ELSE c.limit
  BY <1>3 DEF CustomerRow
<1>9. granted'[u] = G => LimitMoves(u)
  <2> SUFFICES ASSUME granted'[u] = G PROVE LimitMoves(u)
    OBVIOUS
  <2>1. CASE pending
    <3>1. Pending(c) /\ ~Pending(d)
      BY <1>2, <1>3, <1>8, <2>1, NoneApart DEF Pending, Remembers, CustomerStatus
    <3>2. Pending(customers[u]) /\ ~Pending(customers'[u])
      BY <1>5, <3>1
    <3> PICK limit \in Nat : limit = DefaultLimit
      BY AccountsAssumption
    <3>3. /\ customers'[u].limit = limit
          /\ granted'[u] = granted[u] \cup {[limit |-> limit, after |-> Len(history[u])]}
      BY <1>5, <1>8, <1>6, <2>1
    <3> QED
      BY <1>1, <1>5, <3>2, <3>3 DEF LimitMoves, LimitGiven
  <2>2. CASE ~pending
    <3>1. Pending(d) => Pending(c)
      BY <1>8 DEF Pending
    <3>2. (Pending(customers'[u]) => Pending(customers[u])) /\ customers'[u].limit = customers[u].limit
      BY SMTT(30), <1>5, <1>8, <2>2, <3>1
    <3> QED
      BY <1>1, <1>5, <1>6, <2>2, <3>2 DEF LimitMoves, LimitSame
  <2> QED
    BY <2>1, <2>2
<1>10. customers'[u] = customers[u] \/ Free(t, "customer", u) \/ HasCustomer(t, u)
  <2>1. CASE ~pending /\ c.status = "blocked"
    <3>1. d = c
      BY <1>3, <2>1 DEF CustomerRow
    <3> QED
      BY <1>5, <3>1
  <2> QED
    BY <1>2, <2>1 DEF Verified
<1>11. /\ granted' = [v \in User |-> granted'[v]] /\ CustomersFree(t)
       /\ \A v \in User : LimitMoves(v)
  <2>1. history' = history /\ \A v \in User \ {u} : customers'[v] = customers[v]
    BY <1>5
  <2>2. \A v \in User \ {u} : customers'[v] = customers[v] /\ history'[v] = history[v]
    BY <2>1
  <2> QED
    BY <1>1, <1>7, <1>9, <1>10, <2>2, OneLimit
<1>12. OthersSame(t) /\ KnowsLimit(t)' /\ LimitLocks(t)
  <2>1. Done(t) /\ locks' = WithoutLocks(t)
    BY DEF Verified
  <2> QED
    BY <2>1, DoneElsewhere, LocksEnd DEF KnowsLimit, LockingPc
<1> QED
  BY <1>11, <1>12, LimitStep

LEMMA ApproveLimit ==
  ASSUME Types, Types', LimitInv, NEW t \in Txn, approve(t)
  PROVE  LimitInv'
<1> PICK u \in Customers, limit \in Limits : Approve(t, u, limit)
  BY DEF approve
<1> PICK c : c = customers[u]
  OBVIOUS
<1>1. c \in CustomerRow /\ Remembers(c) /\ u \in User /\ limit \in Nat /\ c.status = "pending"
  BY OneRow, AccountsAssumption DEF Types, Customers, Approve
<1> PICK d : d = [c EXCEPT !.status = "approved", !.limit = limit]
  OBVIOUS
<1>2. d \in CustomerRow /\ d.status = "approved" /\ d.before = c.before /\ d.limit = limit
  BY <1>1 DEF CustomerRow, CustomerStatus
<1>3. customers' = [customers EXCEPT ![u] = d]
  BY <1>1 DEF Approve, Types, PeopleOK
<1>4. /\ customers'[u] = d /\ u \in Customers' /\ history' = history
      /\ \A v \in User \ {u} : customers'[v] = customers[v]
  <2>1. d # None /\ history' = history
    BY <1>2, NoneApart DEF Approve
  <2> QED
    BY <1>1, <1>3, <2>1 DEF Types, PeopleOK, Customers
<1> PICK G : G = granted[u] \cup {[limit |-> limit, after |-> Len(history[u])]}
  OBVIOUS
<1>5. granted' = [granted EXCEPT ![u] = G]
  BY DEF Approve
<1>6. granted'[u] = G => LimitMoves(u)
  <2>1. Pending(c) /\ ~Pending(d)
    BY <1>1, <1>2, NoneApart DEF Pending, Remembers, CustomerStatus
  <2>2. Pending(customers[u]) /\ ~Pending(customers'[u])
    BY <1>4, <2>1
  <2>3. customers'[u].limit = limit
    BY <1>2, <1>4
  <2> QED
    BY <1>1, <1>4, <2>2, <2>3 DEF LimitMoves, LimitGiven
<1>7. /\ granted' = [v \in User |-> granted'[v]] /\ CustomersFree(t)
      /\ \A v \in User : LimitMoves(v)
  <2>1. Free(t, "customer", u)
    BY DEF Approve
  <2> QED
    BY <1>1, <1>4, <1>5, <1>6, <2>1, OneLimit
<1>8. OthersSame(t) /\ KnowsLimit(t)' /\ LimitLocks(t)
  <2>1. Begin(t, Request("approve", "activate", u, limit, None)) /\ locks' = locks
    BY DEF Approve
  <2> QED
    BY <2>1, BeginElsewhere, LocksEnd DEF KnowsLimit
<1> QED
  BY <1>7, <1>8, LimitStep

LEMMA BlockLimit ==
  ASSUME Types, Types', LimitInv, NEW t \in Txn, blockCustomer(t) \/ unblockCustomer(t)
  PROVE  LimitInv'
<1> PICK u \in Customers : Block(t, u) \/ Unblock(t, u)
  BY DEF blockCustomer, unblockCustomer
<1> PICK c : c = customers[u]
  OBVIOUS
<1>1. c \in CustomerRow /\ Remembers(c) /\ u \in User
  BY OneRow DEF Types, Customers
<1>2. PICK d : customers' = [customers EXCEPT ![u] = d] /\ d \in CustomerRow /\ d.limit = c.limit
               /\ (Pending(d) => Pending(c))
  <2>1. CASE Block(t, u)
    <3> PICK d : d = [c EXCEPT !.before = c.status, !.status = "blocked"]
      OBVIOUS
    <3>1. d \in CustomerRow /\ d.limit = c.limit /\ d.before = c.status /\ d.status = "blocked"
      BY <1>1 DEF CustomerRow, CustomerStatus
    <3>2. customers' = [customers EXCEPT ![u] = d]
      BY <1>1, <2>1 DEF Block, Types, PeopleOK
    <3>3. Pending(d) => Pending(c)
      BY <3>1 DEF Pending
    <3> QED
      BY <3>1, <3>2, <3>3
  <2>2. CASE Unblock(t, u)
    <3> PICK st : st = IF c.before = None THEN "approved" ELSE c.before
      OBVIOUS
    <3> PICK d : d = [c EXCEPT !.before = None, !.status = st]
      OBVIOUS
    <3>1. st \in {"pending", "approved"} /\ (st = "pending" => c.before = "pending")
      BY <1>1, <2>2, NoneApart DEF Unblock, Remembers
    <3>2. d \in CustomerRow /\ d.limit = c.limit /\ d.before = None /\ d.status = st
      BY <1>1, <3>1 DEF CustomerRow, CustomerStatus
    <3>3. customers' = [customers EXCEPT ![u] = d]
      BY <1>1, <2>2 DEF Unblock, Types, PeopleOK
    <3>4. Pending(d) => Pending(c)
      BY <3>1, <3>2, NoneApart DEF Pending, CustomerStatus
    <3> QED
      BY <3>2, <3>3, <3>4
  <2> QED
    BY <2>1, <2>2
<1>3. /\ customers'[u] = d /\ u \in Customers' /\ history' = history /\ granted' = granted
      /\ \A v \in User \ {u} : customers'[v] = customers[v]
  BY <1>1, <1>2, NoneApart DEF Block, Unblock, ghosts, Types, PeopleOK, Customers
<1>4. LimitSame(u)
  <2>1. Pending(customers'[u]) => Pending(customers[u])
    BY <1>2, <1>3
  <2> QED
    BY <1>2, <1>3, <2>1 DEF LimitSame
<1>5. /\ granted' = [v \in User |-> granted'[v]] /\ CustomersFree(t)
      /\ \A v \in User : LimitMoves(v)
  <2>1. Free(t, "customer", u)
    BY DEF Block, Unblock
  <2> QED
    BY <1>1, <1>3, <1>4, <2>1, SameGranted, OneLimit DEF LimitMoves
<1>6. OthersSame(t) /\ KnowsLimit(t)' /\ LimitLocks(t)
  <2>1. Begin(t, Idle) /\ locks' = locks
    BY DEF Block, Unblock
  <2> QED
    BY <2>1, DoneElsewhere, LocksEnd DEF KnowsLimit, LockingPc
<1> QED
  BY <1>5, <1>6, LimitStep

LEMMA RecordLimit ==
  ASSUME Types, Types', LimitInv, NEW t \in Txn, RecordApproval(t)
  PROVE  LimitInv'
<1> PICK u : u = tx[t].user
  OBVIOUS
<1> PICK r : r = [change |-> FALSE, prev |-> 0, new |-> tx[t].arg]
  OBVIOUS
<1>1. u \in Customers /\ u \in User /\ tx[t].arg \in Nat
  BY DEF RecordApproval, Types, RequestsOK, RequestOK, Customers
<1>2. r \in HistoryRow /\ ~r.change
  BY <1>1 DEF HistoryRow
<1>3. /\ history'[u] = Append(history[u], r) /\ \A v \in User \ {u} : history'[v] = history[v]
      /\ customers' = customers /\ granted' = granted
  BY <1>1 DEF RecordApproval, Types, PeopleOK, ghosts
<1>4. LimitNoted(u)
  <2>1. u \in Customers' /\ customers'[u].limit = IF r.change THEN r.new ELSE customers[u].limit
    BY <1>1, <1>2, <1>3 DEF Customers
  <2>2. Pending(customers'[u]) => Pending(customers[u])
    BY <1>3
  <2> QED
    BY <1>1, <1>2, <1>3, <2>1, <2>2 DEF LimitNoted
<1>5. /\ granted' = [v \in User |-> granted'[v]] /\ CustomersFree(t)
      /\ \A v \in User : LimitMoves(v)
  <2>1. granted' = [granted EXCEPT ![u] = granted[u]]
    BY <1>3, SameGranted
  <2>2. \A v \in User \ {u} : customers'[v] = customers[v] /\ history'[v] = history[v]
    BY <1>3
  <2>3. granted'[u] = granted[u] => LimitMoves(u)
    BY <1>4 DEF LimitMoves
  <2>4. customers'[u] = customers[u] \/ Free(t, "customer", u) \/ HasCustomer(t, u)
    BY <1>3
  <2> QED
    BY <1>1, <2>1, <2>2, <2>3, <2>4, OneLimit
<1>6. OthersSame(t) /\ KnowsLimit(t)' /\ LimitLocks(t)
  <2>1. Done(t) /\ locks' = locks
    BY DEF RecordApproval
  <2> QED
    BY <2>1, DoneElsewhere, LocksEnd DEF KnowsLimit, LockingPc
<1> QED
  BY <1>5, <1>6, LimitStep

LEMMA ReadLimit ==
  ASSUME Types, Types', LimitInv, NEW t \in Txn, changeLimit(t)
  PROVE  LimitInv'
<1> PICK u \in Customers, limit \in Limits : ChangeLimit(t, u, limit)
  BY DEF changeLimit
<1> PICK old : old = customers[u].limit
  OBVIOUS
<1>1. /\ Free(t, "customer", u) /\ locks' = WithLock(t, <<"customer", u>>, "X")
      /\ Begin(t, Request("limit", "limit", u, limit, old)) /\ LimitsAlone
  BY DEF ChangeLimit, people, ghosts, LimitsAlone
<1>2. OthersSame(t) /\ tx'[t].pc = "limit" /\ tx'[t].user = u /\ tx'[t].seen = old
  BY <1>1, BeginElsewhere
<1>3. LimitLocks(t)
  <2> SUFFICES ASSUME NEW v \in User, NEW s \in Txn, HasCustomer(s, v)', ~HasCustomer(s, v)
               PROVE  s = t /\ Free(t, "customer", v)
    BY <1>1 DEF LimitLocks, WithLock
  <2> PICK l : l = [row |-> <<"customer", v>>, tx |-> s, mode |-> "X"]
    OBVIOUS
  <2>1. l \in locks' /\ l \notin locks
    BY DEF HasCustomer, Holds
  <2>2. l = [row |-> <<"customer", u>>, tx |-> t, mode |-> "X"]
    BY <1>1, <2>1 DEF WithLock
  <2>3. l.row = <<"customer", v>> /\ l.tx = s /\ l.row = <<"customer", u>> /\ l.tx = t
    BY <2>2
  <2> QED
    BY <1>1, <2>3
<1>4. KnowsLimit(t)'
  <2>1. HasCustomer(t, u)'
    BY <1>1 DEF HasCustomer, Holds, WithLock
  <2>2. old = customers'[u].limit
    BY <1>1 DEF LimitsAlone
  <2> QED
    BY <1>2, <2>1, <2>2 DEF KnowsLimit
<1>5. \A v \in User : LimitMoves(v)
  BY <1>1 DEF LimitsAlone, LimitMoves, LimitSame, Customers
<1>6. granted' = [v \in User |-> granted'[v]] /\ CustomersFree(t)
  BY <1>1 DEF LimitInv, LimitsAlone, CustomersFree
<1> QED
  BY <1>2, <1>3, <1>4, <1>5, <1>6, LimitStep

LEMMA ChangedLimit ==
  ASSUME Types, Types', LimitInv, NEW t \in Txn, LimitChanged(t)
  PROVE  LimitInv'
<1> PICK u : u = tx[t].user
  OBVIOUS
<1> PICK r : r = [change |-> TRUE, prev |-> tx[t].seen, new |-> tx[t].arg]
  OBVIOUS
<1>1. u \in Customers /\ u \in User /\ tx[t].arg \in Nat /\ tx[t].seen \in Nat
  BY DEF LimitChanged, Types, RequestsOK, RequestOK, Customers
<1>2. HasCustomer(t, u) /\ tx[t].seen = customers[u].limit
  BY DEF LimitChanged, LimitInv, KnowsLimit
<1> PICK c : c = customers[u]
  OBVIOUS
<1> PICK d : d = [c EXCEPT !.limit = tx[t].arg]
  OBVIOUS
<1>3. c \in CustomerRow /\ d \in CustomerRow /\ d.limit = tx[t].arg
      /\ d.status = c.status /\ d.before = c.before
  <2>1. c \in CustomerRow
    BY <1>1, OneRow DEF Types
  <2> QED
    BY <1>1, <2>1 DEF CustomerRow
<1>4. r \in HistoryRow /\ r.change /\ r.prev = customers[u].limit /\ r.new = tx[t].arg
  BY SMTT(30), <1>1, <1>2 DEF HistoryRow
<1>5. /\ customers'[u] = d /\ \A v \in User \ {u} : customers'[v] = customers[v]
      /\ history'[u] = Append(history[u], r) /\ \A v \in User \ {u} : history'[v] = history[v]
      /\ granted' = granted
  BY <1>1 DEF LimitChanged, Types, PeopleOK, ghosts
<1>6. LimitNoted(u)
  <2>1. u \in Customers'
    BY <1>1, <1>3, <1>5, NoneApart DEF Customers
  <2>2. Pending(d) => Pending(c)
    BY <1>3 DEF Pending
  <2>3. Pending(customers'[u]) => Pending(customers[u])
    BY <1>5, <2>2
  <2>4. customers'[u].limit = IF r.change THEN r.new ELSE customers[u].limit
    BY <1>3, <1>4, <1>5
  <2> QED
    BY <1>1, <1>4, <1>5, <2>1, <2>3, <2>4 DEF LimitNoted
<1>7. /\ granted' = [v \in User |-> granted'[v]] /\ CustomersFree(t)
      /\ \A v \in User : LimitMoves(v)
  <2>1. granted' = [granted EXCEPT ![u] = granted[u]]
    BY <1>5, SameGranted
  <2>2. \A v \in User \ {u} : customers'[v] = customers[v] /\ history'[v] = history[v]
    BY <1>5
  <2>3. granted'[u] = granted[u] => LimitMoves(u)
    BY <1>6 DEF LimitMoves
  <2>4. customers'[u] = customers[u] \/ Free(t, "customer", u) \/ HasCustomer(t, u)
    BY <1>2
  <2> QED
    BY <1>1, <2>1, <2>2, <2>3, <2>4, OneLimit
<1>8. OthersSame(t) /\ KnowsLimit(t)' /\ LimitLocks(t)
  <2>1. Done(t) /\ locks' = WithoutLocks(t)
    BY DEF LimitChanged
  <2> QED
    BY <2>1, DoneElsewhere, LocksEnd DEF KnowsLimit, LockingPc
<1> QED
  BY <1>7, <1>8, LimitStep

LEMMA SettledLimit ==
  ASSUME Types, LimitInv, LimitsAlone, locks' = locks, tx' = tx
  PROVE  LimitInv'
<1>1. \A t \in Txn : KnowsLimit(t)'
  BY DEF LimitInv, LimitsAlone, KnowsLimit, HasCustomer, Holds
<1>2. \A u \in User : ApprovedOnce(u)' /\ LimitOK(u)'
  <2> SUFFICES ASSUME NEW u \in User PROVE ApprovedOnce(u)' /\ LimitOK(u)'
    OBVIOUS
  <2>1. LimitMoves(u)
    BY DEF LimitsAlone, LimitMoves, LimitSame, Customers
  <2> QED
    BY <2>1, LimitKept DEF LimitInv
<1>3. CustomersApart'
  BY DEF LimitInv, CustomersApart, HasCustomer, Holds
<1>4. granted' = [u \in User |-> granted'[u]]
  BY DEF LimitInv, LimitsAlone
<1> QED
  BY <1>1, <1>2, <1>3, <1>4 DEF LimitInv

LEMMA LimitNext == ASSUME Types, Types', LimitInv, [Next]_vars PROVE LimitInv'
<1>1. CASE UNCHANGED vars
  <2>1. LimitsAlone /\ locks' = locks /\ tx' = tx
    BY <1>1 DEF vars, people, ghosts, LimitsAlone
  <2> QED
    BY <2>1, SettledLimit
<1>2. CASE Expire
  <2>1. LimitsAlone /\ locks' = locks /\ tx' = tx
    BY <1>2 DEF Expire, ghosts, LimitsAlone
  <2> QED
    BY <2>1, SettledLimit
<1>3. ASSUME NEW t \in Txn, Start(t) PROVE LimitInv'
  <2>1. CASE \/ register(t) \/ verifyEmail(t) \/ approve(t) \/ changeLimit(t)
             \/ blockCustomer(t) \/ unblockCustomer(t)
    BY <2>1, RegisterLimit, VerifyLimit, ApproveLimit, ReadLimit, BlockLimit
  <2>2. \/ resendVerification(t) \/ login(t) \/ logout(t) \/ mfaSetup(t) \/ mfaVerify(t)
        \/ createInvitation(t) \/ revokeInvitation(t) \/ acceptInvitation(t) \/ StartsStaff(t)
        \/ register(t) \/ verifyEmail(t) \/ approve(t) \/ changeLimit(t)
        \/ blockCustomer(t) \/ unblockCustomer(t)
    BY <1>3 DEF Start, StartsStaff
  <2> QED
    BY <2>1, <2>2, AloneStarts
<1>4. ASSUME NEW t \in Txn, Continue(t) \/ Abort(t) PROVE LimitInv'
  BY <1>4, VerifiedLimit, RecordLimit, ChangedLimit, AloneContinues
<1> QED
  BY <1>1, <1>2, <1>3, <1>4 DEF Next

\* At the start only approved customers have a limit.
LEMMA LimitInit == ASSUME Init PROVE LimitInv
<1>1. CustomersApart /\ \A t \in Txn : KnowsLimit(t)
  BY DEF Init, CustomersApart, HasCustomer, Holds, KnowsLimit, Idle
<1>2. granted = [u \in User |-> granted[u]]
  BY DEF Init
<1>3. ASSUME NEW u \in User PROVE ApprovedOnce(u) /\ LimitOK(u)
  <2>1. history[u] = <<>> /\ Len(history[u]) = 0
    BY DEF Init
  <2>2. LimitAfter(u, 0) = After(<<>>, granted[u], 0)
    BY <2>1, LimitIsAfter
  <2>3. LastOf(<<>>, 0) = 0
    BY LastExists
  <2> PICK c : c = customers[u]
    OBVIOUS
  <2>4. granted[u] = IF c = None \/ Pending(c) THEN {} ELSE {[limit |-> c.limit, after |-> 0]}
    BY DEF Init
  <2>5. c # None => c \in CustomerRow /\ (Pending(c) => c.limit = 0)
    <3>1. CASE u \in Known
      <4>1. c = Opening[u].customer
        BY <3>1 DEF Init, Known
      <4> QED
        BY <3>1, <4>1, AccountsAssumption
    <3>2. CASE u \notin Known
      BY <3>2 DEF Init, Known
    <3> QED
      BY <3>1, <3>2
  <2>6. ApprovedOnce(u)
    BY <2>1, <2>4, <2>5 DEF ApprovedOnce, CustomerRow, Customers
  <2>7. CASE c = None
    BY <2>1, <2>6, <2>7 DEF LimitOK, Customers
  <2>8. CASE c # None /\ Pending(c)
    <3>1. GivenIn(<<>>, granted[u], 0) = {}
      BY <2>4, <2>8 DEF GivenIn
    <3>2. After(<<>>, granted[u], 0) = 0
      BY <2>3, <3>1 DEF After
    <3> QED
      BY <2>1, <2>2, <2>5, <2>6, <2>8, <3>2 DEF LimitOK, ChainOf
  <2>9. CASE c # None /\ ~Pending(c)
    <3>1. PICK g : g = [limit |-> c.limit, after |-> 0]
      OBVIOUS
    <3>2. granted[u] = {g} /\ g.after = 0 /\ g.limit = c.limit
      BY <2>4, <2>9, <3>1
    <3>3. After(<<>>, {g}, 0) = g.limit
      BY <3>2, AfterGrant
    <3> QED
      BY <2>1, <2>2, <2>6, <2>9, <3>2, <3>3 DEF LimitOK, ChainOf
  <2> QED
    BY <2>7, <2>8, <2>9
<1> QED
  BY <1>1, <1>2, <1>3 DEF LimitInv

\* A customer is approved once, by a manager or by the verification of the
\* e-mail; every change of the limit names the limit that it replaced, and the
\* last of them is the limit (Approve, VerifyEmail, ChangeLimit).
THEOREM LimitsFormChain == Spec => []LimitsChain
<1>1. Init => LimitInv
  BY LimitInit
<1>2. AccountsInv /\ AccountsInv' /\ LimitInv /\ [Next]_vars => LimitInv'
  BY LimitNext DEF AccountsInv
<1>3. LimitInv => LimitsChain
  <2> SUFFICES ASSUME LimitInv, NEW u \in Customers
               PROVE  Cardinality(granted[u]) <= 1 /\ ChainOf(u)
    BY DEF LimitsChain, ChainOf
  <2>1. ApprovedOnce(u) /\ ChainOf(u)
    BY DEF LimitInv, LimitOK, Customers
  <2>2. CASE granted[u] = {}
    BY <2>1, <2>2, FS_EmptySet
  <2>3. ASSUME NEW g \in granted[u] PROVE Cardinality(granted[u]) <= 1
    <3>1. granted[u] = {g}
      BY <2>1 DEF ApprovedOnce
    <3>2. Cardinality({g}) = 1
      BY FS_Singleton, Zenon
    <3>3. Cardinality(granted[u]) = 1
      BY <3>1, <3>2, Zenon
    <3> QED
      BY <3>3
  <2> QED
    BY <2>1, <2>2, <2>3
<1> QED
  BY <1>1, <1>2, <1>3, AccountsInvariant, PTL DEF Spec

===============================================================================
