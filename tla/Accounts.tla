-------------------------------- MODULE Accounts --------------------------------
(***************************************************************************)
(* People: registration and verification of the e-mail, approval, limit    *)
(* and block of a customer, login and sessions, second factor, invitations *)
(* and internal roles (packages identity and customers).                   *)
(*                                                                         *)
(* A request is a session that runs statement by statement, as the code    *)
(* does: most of these requests are no transaction.  A transaction that    *)
(* waits for nothing once it has written is one step.  A user is named by  *)
(* the e-mail, which is unique; the role "customer" is the row of customers.*)
(* Tokens, invitations and sessions are named by their place in creation   *)
(* order, a secret of the second factor by the request that made it.       *)
(***************************************************************************)
EXTENDS Integers, Sequences, FiniteSets, SequencesExt, RowLocks

CONSTANTS
  User,              \* e-mails
  Opening,           \* [User -> rows of the user at the start, or None]
  SignedIn,          \* users with an admin session at the start, in order
  Unverified,        \* users with an open token at the start, in order
  Limits,            \* limits that a manager gives
  DefaultLimit,      \* CUSTOMER_DEFAULT_CREDIT_LIMIT_CENTS
  AdminMFARequired,  \* whether the panel asks for the second factor
  MaxRequests,       \* bound: requests made and deadlines passed
  None

VARIABLES
  users,        \* [User -> row of users, or None]
  roles,        \* [User -> internal roles: user_roles but for "customer"]
  customers,    \* [User -> row of customers, or None]
  history,      \* [User -> rows of customer_limit_history, in order]
  granted,      \* [User -> approvals: the limit, and after how many rows of history]
  proved,       \* [User -> secrets of which the user has shown a code]
  tokens,       \* rows of email_verification_tokens
  invitations,  \* rows of admin_invitations
  sessions,     \* rows of sessions
  unguarded,    \* whether administrators changed in a way their count does not guard
  crossed,      \* users for whom two replacements of the role have crossed
  requests,     \* how many requests have been made
  tx            \* [Txn -> what the session is doing]

ghosts == <<granted, proved, unguarded, crossed>>
people == <<users, roles, customers, history>>
papers == <<tokens, invitations, sessions>>
vars == <<people, papers, ghosts, requests, locks, tx>>

UserStatus == {"pending_email", "active", "suspended", "disabled"}
CustomerStatus == {"pending", "approved", "blocked"}
StaffRole == {"system_admin", "manager"}
Audience == {"store", "admin"}
MaxFailed == 5

NewUser == [status |-> "pending_email", failed |-> 0, locked |-> FALSE,
            secret |-> None, mfa |-> FALSE]

NewCustomer == [status |-> "pending", before |-> None, limit |-> 0]

UserRow == [status : UserStatus, failed : 0 .. MaxFailed - 1, locked : BOOLEAN,
            secret : Nat \cup {None}, mfa : BOOLEAN]

CustomerRow == [status : CustomerStatus, before : CustomerStatus \cup {None}, limit : Nat]

Known == {u \in User : Opening[u] # None}

\* A blocked customer remembers the status from before, which is no block.
Remembers(c) == c.before \in IF c.status = "blocked" THEN {"pending", "approved"} ELSE {None}

\* A customer nobody has approved yet, blocked or not.
Pending(c) == "pending" \in {c.status, c.before}

\* At the start a user whose e-mail is not verified is a customer, a limit comes
\* from an approval, the second factor has a secret, nobody has two internal
\* roles, an administrator is active.
ASSUME AccountsAssumption ==
  /\ Limits \subseteq Nat /\ DefaultLimit \in Nat /\ MaxRequests \in Nat
  /\ AdminMFARequired \in BOOLEAN
  /\ None \notin User \cup Nat \cup CustomerStatus
  /\ SignedIn \in Seq(Known)
  /\ Unverified \in Seq({u \in Known : Opening[u].customer # None})
  /\ \A u \in Known : LET o == Opening[u] IN
       /\ o.user \in UserRow /\ (o.user.mfa => o.user.secret # None)
       /\ o.customer \in CustomerRow \cup {None} /\ (o.customer # None => Remembers(o.customer))
       /\ o.customer # None /\ Pending(o.customer) => o.customer.limit = 0
       /\ o.user.status = "pending_email" => o.customer # None
       /\ o.roles \in SUBSET StaffRole /\ \A r, s \in o.roles : r = s
  /\ \E u \in Known : Opening[u].user.status = "active" /\ "system_admin" \in Opening[u].roles

\* None is a value of its own.
ASSUME NoneRow == None \notin UserRow \cup CustomerRow

Idle == [op |-> "idle", pc |-> "idle", user |-> None, arg |-> None, seen |-> None]

Request(op, pc, u, arg, seen) ==
  [op |-> op, pc |-> pc, user |-> u, arg |-> arg, seen |-> seen]

\* A session takes up a request.
Begin(t, r) ==
  /\ tx[t] = Idle /\ requests < MaxRequests
  /\ requests' = requests + 1
  /\ tx' = [tx EXCEPT ![t] = r]

Goto(t, pc) == tx' = [tx EXCEPT ![t].pc = pc]

Done(t) == tx' = [tx EXCEPT ![t] = Idle]

Init ==
  /\ users = [u \in User |-> IF Opening[u] = None THEN None ELSE Opening[u].user]
  /\ roles = [u \in User |-> IF Opening[u] = None THEN {} ELSE Opening[u].roles]
  /\ customers = [u \in User |-> IF Opening[u] = None THEN None ELSE Opening[u].customer]
  /\ history = [u \in User |-> <<>>]
  /\ granted = [u \in User |-> IF customers[u] = None \/ Pending(customers[u])
                  THEN {} ELSE {[limit |-> customers[u].limit, after |-> 0]}]
  /\ proved = [u \in User |-> IF users[u] = None THEN {} ELSE {users[u].secret} \ {None}]
  /\ tokens = [i \in DOMAIN Unverified |-> [user |-> Unverified[i], used |-> FALSE, expired |-> FALSE]]
  /\ invitations = <<>>
  /\ sessions = [i \in DOMAIN SignedIn |-> [user |-> SignedIn[i], audience |-> "admin", live |-> TRUE]]
  /\ unguarded = FALSE
  /\ crossed = {}
  /\ requests = 0
  /\ locks = {}
  /\ tx = [t \in Txn |-> Idle]

Exists == {u \in User : users[u] # None}
Customers == {u \in User : customers[u] # None}

\* No other transaction has locked the row: an UPDATE may go on.
Free(t, table, x) == CanLock(t, <<table, x>>, "X")

-------------------------------------------------------------------------------
(* Who is asking: AuthMiddleware, RequireAdminMFA and RequirePermission. The *)
(* permissions come from the internal role: only system_admin has            *)
(* users.manage.                                                             *)

AuthenticateAdminBearer(u) ==
  /\ users[u] # None /\ users[u].status = "active"
  /\ \E s \in Range(sessions) : s.user = u /\ s.audience = "admin" /\ s.live

IsCustomerBlocked(u) == customers[u] # None /\ customers[u].status = "blocked"

AuthenticateStoreBearer(u) ==
  /\ users[u] # None /\ users[u].status \in {"active", "suspended"}
  /\ ~IsCustomerBlocked(u)
  /\ \E s \in Range(sessions) : s.user = u /\ s.audience = "store" /\ s.live

RequireAdminMFA(u) == AdminMFARequired => users[u].mfa

InPanel(u) == AuthenticateAdminBearer(u) /\ RequireAdminMFA(u)

ManagesUsers(u) == InPanel(u) /\ "system_admin" \in roles[u]

ManagesCustomers == \E u \in User : InPanel(u) /\ roles[u] # {}

-------------------------------------------------------------------------------
(* Registration and verification of the e-mail.                              *)

\* One transaction: the user, the customer and the first token.
Register(t, u) ==
  /\ users[u] = None
  /\ Begin(t, Idle)
  /\ users' = [users EXCEPT ![u] = NewUser]
  /\ customers' = [customers EXCEPT ![u] = NewCustomer]
  /\ tokens' = Append(tokens, [user |-> u, used |-> FALSE, expired |-> FALSE])
  /\ UNCHANGED <<roles, history, invitations, sessions, ghosts, locks>>

\* The token and the user are updated, and the customer who is still pending.
VerifyEmail(t, k) ==
  LET u == tokens[k].user
      pending == customers[u].status = "pending"
  IN
  /\ ~tokens[k].used /\ ~tokens[k].expired
  /\ Free(t, "token", k) /\ Free(t, "user", u) /\ (pending => Free(t, "customer", u))
  /\ locks' = locks \cup {[row |-> row, tx |-> t, mode |-> "X"] :
                row \in {<<"token", k>>, <<"user", u>>}
                          \cup (IF pending THEN {<<"customer", u>>} ELSE {})}
  /\ Begin(t, Request("verify", "verified", u, k, pending))
  /\ UNCHANGED <<people, papers, ghosts>>

\* A customer who was not pending becomes approved unless blocked by now; commit.
Verified(t) ==
  LET u == tx[t].user  pending == tx[t].seen IN
  /\ tx[t].pc = "verified"
  /\ pending \/ customers[u].status = "blocked" \/ Free(t, "customer", u)
  /\ tokens' = [tokens EXCEPT ![tx[t].arg].used = TRUE]
  /\ users' = [users EXCEPT ![u].status = "active"]
  /\ customers' = [customers EXCEPT ![u].status = IF @ = "blocked" THEN @ ELSE "approved",
                                    ![u].limit = IF pending THEN DefaultLimit ELSE @]
  /\ granted' = [granted EXCEPT ![u] = IF ~pending THEN @ ELSE
       @ \cup {[limit |-> DefaultLimit, after |-> Len(history[u])]}]
  /\ locks' = WithoutLocks(t)
  /\ Done(t)
  /\ UNCHANGED <<roles, history, invitations, sessions, proved, unguarded, crossed, requests>>

\* The status is read before the transaction begins.
ResendVerification(t, u) ==
  /\ u \in Exists /\ users[u].status = "pending_email"
  /\ Begin(t, Request("resend", "enqueue", u, None, None))
  /\ UNCHANGED <<people, papers, ghosts, locks>>

\* EnqueueVerification: the UPDATE sees the tokens that are unused when it starts.
EnqueueVerification(t) ==
  /\ tx[t].pc = "enqueue"
  /\ tx' = [tx EXCEPT ![t].pc = "enqueued",
              ![t].seen = {k \in DOMAIN tokens : tokens[k].user = tx[t].user /\ ~tokens[k].used}]
  /\ UNCHANGED <<people, papers, ghosts, requests, locks>>

Enqueued(t) ==
  /\ tx[t].pc = "enqueued"
  /\ \A k \in tx[t].seen : Free(t, "token", k)
  /\ tokens' = Append([k \in DOMAIN tokens |->
                         IF k \in tx[t].seen THEN [tokens[k] EXCEPT !.used = TRUE] ELSE tokens[k]],
                      [user |-> tx[t].user, used |-> FALSE, expired |-> FALSE])
  /\ Done(t)
  /\ UNCHANGED <<people, invitations, sessions, ghosts, requests, locks>>

-------------------------------------------------------------------------------
(* The customer: approval, limit, block.                                     *)

\* Approve: three statements, no transaction.
Approve(t, u, limit) ==
  /\ customers[u].status = "pending" /\ Free(t, "customer", u)
  /\ customers' = [customers EXCEPT ![u].status = "approved", ![u].limit = limit]
  /\ granted' = [granted EXCEPT ![u] = @ \cup {[limit |-> limit, after |-> Len(history[u])]}]
  /\ Begin(t, Request("approve", "activate", u, limit, None))
  /\ UNCHANGED <<users, roles, history, papers, proved, unguarded, crossed, locks>>

ActivateApproved(t) ==
  /\ tx[t].pc = "activate" /\ Free(t, "user", tx[t].user)
  /\ users' = [users EXCEPT ![tx[t].user].status = "active"]
  /\ Goto(t, "record")
  /\ UNCHANGED <<roles, customers, history, papers, ghosts, requests, locks>>

RecordApproval(t) ==
  /\ tx[t].pc = "record"
  /\ history' = [history EXCEPT ![tx[t].user] =
                   Append(@, [change |-> FALSE, prev |-> 0, new |-> tx[t].arg])]
  /\ Done(t)
  /\ UNCHANGED <<users, roles, customers, papers, ghosts, requests, locks>>

\* mutant: the limit is read without FOR UPDATE
ChangeLimitUnlocked(t, u, limit) ==
  /\ Begin(t, Request("limit", "limit", u, limit, customers[u].limit))
  /\ UNCHANGED <<people, papers, ghosts, locks>>

\* ChangeLimit: SELECT credit_limit_cents ... FOR UPDATE
ChangeLimit(t, u, limit) ==
  /\ Free(t, "customer", u)
  /\ locks' = WithLock(t, <<"customer", u>>, "X")
  /\ Begin(t, Request("limit", "limit", u, limit, customers[u].limit))
  /\ UNCHANGED <<people, papers, ghosts>>

LimitChanged(t) ==
  LET r == tx[t] IN
  /\ r.pc = "limit" /\ Free(t, "customer", r.user)
  /\ customers' = [customers EXCEPT ![r.user].limit = r.arg]
  /\ history' = [history EXCEPT ![r.user] =
                   Append(@, [change |-> TRUE, prev |-> r.seen, new |-> r.arg])]
  /\ locks' = WithoutLocks(t)
  /\ Done(t)
  /\ UNCHANGED <<users, roles, papers, ghosts, requests>>

\* mutant: a customer who is blocked already is blocked again
BlockAgain(t, u) ==
  /\ Free(t, "customer", u)
  /\ customers' = [customers EXCEPT ![u].before = customers[u].status, ![u].status = "blocked"]
  /\ Begin(t, Idle)
  /\ UNCHANGED <<users, roles, history, papers, ghosts, locks>>

Block(t, u) ==
  /\ customers[u].status # "blocked" /\ Free(t, "customer", u)
  /\ customers' = [customers EXCEPT ![u].before = customers[u].status, ![u].status = "blocked"]
  /\ Begin(t, Idle)
  /\ UNCHANGED <<users, roles, history, papers, ghosts, locks>>

Unblock(t, u) ==
  /\ customers[u].status = "blocked" /\ Free(t, "customer", u)
  /\ customers' = [customers EXCEPT ![u].before = None,
       ![u].status = IF customers[u].before = None THEN "approved" ELSE customers[u].before]
  /\ Begin(t, Idle)
  /\ UNCHANGED <<users, roles, history, papers, ghosts, locks>>

-------------------------------------------------------------------------------
(* Login: each statement on its own; what was read first decides.            *)

Login(t, u, audience, right) ==
  /\ u \in Exists
  /\ users[u].status # "disabled" /\ ~users[u].locked
  /\ users[u].status = "suspended" => audience = "store"
  /\ right => IF audience = "store" THEN users[u].status # "pending_email"
                                    ELSE users[u].status = "active"
  /\ Begin(t, Request("login", IF right THEN "check" ELSE "wrong", u, audience, users[u].failed))
  /\ UNCHANGED <<people, papers, ghosts, locks>>

\* The fifth wrong password locks the account for a while and counts anew.
WrongPassword(t) ==
  LET failed == tx[t].seen + 1 IN
  /\ tx[t].pc = "wrong" /\ Free(t, "user", tx[t].user)
  /\ users' = [users EXCEPT ![tx[t].user].failed = IF failed >= MaxFailed THEN 0 ELSE failed,
                            ![tx[t].user].locked = failed >= MaxFailed]
  /\ Done(t)
  /\ UNCHANGED <<roles, customers, history, papers, ghosts, requests, locks>>

CheckLogin(t) ==
  /\ tx[t].pc = "check"
  /\ IF tx[t].arg = "store" THEN ~IsCustomerBlocked(tx[t].user) ELSE roles[tx[t].user] # {}
  /\ Goto(t, "enter")
  /\ UNCHANGED <<people, papers, ghosts, requests, locks>>

UpdateUserLoginState(t) ==
  /\ tx[t].pc = "enter" /\ Free(t, "user", tx[t].user)
  /\ users' = [users EXCEPT ![tx[t].user].failed = 0, ![tx[t].user].locked = FALSE]
  /\ Goto(t, "revoke")
  /\ UNCHANGED <<roles, customers, history, papers, ghosts, requests, locks>>

\* The errors of these two statements are dropped.
DropError(t) ==
  /\ \/ tx[t].pc = "enter" /\ Goto(t, "revoke")
     \/ tx[t].pc = "revoke" /\ tx[t].op = "login" /\ Goto(t, "session")
  /\ UNCHANGED <<people, papers, ghosts, requests, locks>>

\* For a login of its audience, after a change of the staff of the panel.
RevokeUserSessions(t) ==
  LET audience == IF tx[t].op = "login" THEN tx[t].arg ELSE "admin" IN
  /\ tx[t].pc = "revoke"
  /\ sessions' = [i \in DOMAIN sessions |->
       IF sessions[i].user = tx[t].user /\ sessions[i].audience = audience
         THEN [sessions[i] EXCEPT !.live = FALSE] ELSE sessions[i]]
  /\ IF tx[t].op = "login" THEN Goto(t, "session") ELSE Done(t)
  /\ UNCHANGED <<people, tokens, invitations, ghosts, requests, locks>>

CreateSession(t) ==
  /\ tx[t].pc = "session"
  /\ sessions' = Append(sessions, [user |-> tx[t].user, audience |-> tx[t].arg, live |-> TRUE])
  /\ Done(t)
  /\ UNCHANGED <<people, tokens, invitations, ghosts, requests, locks>>

\* A session that expires ends the same way.
Logout(t, i) ==
  /\ Begin(t, Idle)
  /\ sessions' = [sessions EXCEPT ![i].live = FALSE]
  /\ UNCHANGED <<people, tokens, invitations, ghosts, locks>>

-------------------------------------------------------------------------------
(* The second factor.                                                        *)

SetupMFA(t, u) ==
  /\ Free(t, "user", u)
  /\ Begin(t, Idle)
  /\ users' = [users EXCEPT ![u].secret = requests', ![u].mfa = FALSE]
  /\ UNCHANGED <<roles, customers, history, papers, ghosts, locks>>

\* The user is read, and the code belongs to the secret that was read; a NULL is
\* read as the empty secret (None), and nothing refuses it.
VerifyMFA(t, u) ==
  /\ proved' = [proved EXCEPT ![u] = @ \cup {users[u].secret}]
  /\ Begin(t, Request("mfa", "enable", u, users[u].secret, None))
  /\ UNCHANGED <<people, papers, granted, unguarded, crossed, locks>>

\* mutant: only the flag is written, the secret stays
EnableCurrentSecret(t) ==
  /\ tx[t].pc = "enable" /\ Free(t, "user", tx[t].user)
  /\ users' = [users EXCEPT ![tx[t].user].mfa = TRUE]
  /\ Done(t)
  /\ UNCHANGED <<roles, customers, history, papers, ghosts, requests, locks>>

\* UpdateMFA writes back the secret that was read.
EnableMFA(t) ==
  /\ tx[t].pc = "enable" /\ Free(t, "user", tx[t].user)
  /\ users' = [users EXCEPT ![tx[t].user].secret = tx[t].arg, ![tx[t].user].mfa = TRUE]
  /\ Done(t)
  /\ UNCHANGED <<roles, customers, history, papers, ghosts, requests, locks>>

-------------------------------------------------------------------------------
(* Invitations (identity/admin_users.go).                                    *)

Open(i) == ~i.accepted /\ ~i.revoked

\* The checks of CreateInvitation; one who has an internal role needs no invitation.
CreateInvitation(t, u, role) ==
  /\ u \in Customers
  /\ users[u].status \in {"active", "suspended"} => roles[u] = {}
  /\ Begin(t, Request("invite", "invite", u, role, None))
  /\ UNCHANGED <<people, papers, ghosts, locks>>

\* The user's row is updated, open invitations are revoked, commit.
Invited(t) ==
  /\ tx[t].pc = "invite" /\ Free(t, "user", tx[t].user)
  /\ invitations' = Append(
       [i \in DOMAIN invitations |->
          IF invitations[i].user = tx[t].user /\ Open(invitations[i])
            THEN [invitations[i] EXCEPT !.revoked = TRUE] ELSE invitations[i]],
       [user |-> tx[t].user, role |-> tx[t].arg, accepted |-> FALSE, revoked |-> FALSE, expired |-> FALSE])
  /\ Done(t)
  /\ UNCHANGED <<people, tokens, sessions, ghosts, requests, locks>>

RevokeInvitation(t, i) ==
  /\ Open(invitations[i])
  /\ Begin(t, Request("withdraw", "withdraw", invitations[i].user, i, None))
  /\ UNCHANGED <<people, papers, ghosts, locks>>

\* Written whatever has become of the invitation.
Withdrawn(t) ==
  /\ tx[t].pc = "withdraw"
  /\ invitations' = [invitations EXCEPT ![tx[t].arg].revoked = TRUE]
  /\ Done(t)
  /\ UNCHANGED <<people, tokens, sessions, ghosts, requests, locks>>

\* The invitation is read before the transaction begins.
AcceptInvitation(t, i) ==
  /\ Open(invitations[i]) /\ ~invitations[i].expired
  /\ Begin(t, Request("accept", "accept", invitations[i].user, i, None))
  /\ UNCHANGED <<people, papers, ghosts, locks>>

\* Sessions that are between the DELETE and the INSERT of a user's role.
Replacing(u) == {s \in Txn : tx[s].pc = "insert" /\ tx[s].user = u}

\* The rows that t deletes are gone for the others whose DELETE has seen them.
Replaced(t, u, gone) ==
  [s \in Txn |-> IF s = t THEN tx[s]
                 ELSE IF s \in Replacing(u) THEN [tx[s] EXCEPT !.seen = @ \ gone] ELSE tx[s]]

\* One transaction: whoever is not active becomes active, the role is replaced.
Accepted(t) ==
  LET u == tx[t].user  i == tx[t].arg  role == invitations[i].role IN
  /\ tx[t].pc = "accept" /\ Free(t, "user", u)
  /\ users' = [users EXCEPT ![u].status = "active"]
  /\ roles' = [roles EXCEPT ![u] = {role}]
  /\ invitations' = [invitations EXCEPT ![i].accepted = TRUE]
  /\ unguarded' = (unguarded \/ ("system_admin" \in roles[u] /\ role # "system_admin"))
  /\ crossed' = crossed \cup {v \in {u} : Replacing(u) # {}}
  /\ tx' = [Replaced(t, u, roles[u]) EXCEPT ![t] = Idle]
  /\ UNCHANGED <<customers, history, tokens, sessions, granted, proved, requests, locks>>

-------------------------------------------------------------------------------
(* Changes of the staff (identity/admin_users.go): no lock and, but for the  *)
(* replacement of the role, no transaction.                                  *)

StaffOp == {"assign", "role", "status"}

\* The target has been read, in one step with the checks of who asks.
BeginStaffOp(t, op, pc, u, arg, old) ==
  /\ Begin(t, Request(op, pc, u, arg, {old}))
  /\ unguarded' = (unguarded \/ (op \in StaffOp /\ \E s \in Txn : tx[s].op \in StaffOp))
  /\ UNCHANGED <<people, papers, granted, proved, crossed, locks>>

\* Who stops being an administrator must not be the last one.
ChangeRole(t, op, u, old, role) ==
  BeginStaffOp(t, op, IF old = "system_admin" /\ role # "system_admin" THEN "count" ELSE "delete",
               u, role, old)

\* firstStaffRole is the old role.
AssignStaffRoleFromCustomer(t, u, role) ==
  /\ u \in Customers /\ users[u].status # "disabled"
  /\ \E old \in IF roles[u] = {} THEN {None} ELSE roles[u] :
       old # role /\ ChangeRole(t, "assign", u, old, role)

\* target.Roles[0] is the old role: it may be the role "customer".
SetUserRole(t, a, u, role) ==
  /\ u # a /\ roles[u] # {}
  /\ \E old \in roles[u] \cup {c \in {"customer"} : u \in Customers} :
       ChangeRole(t, "role", u, old, role)

SetUserStatus(t, a, u, status) ==
  /\ status \in {"active", "suspended", "disabled"} /\ (u = a => status = "active")
  /\ roles[u] # {}
  /\ BeginStaffOp(t, "status",
       IF "system_admin" \in roles[u] /\ status # "active" THEN "count" ELSE "write", u, status, None)

RevokeStaffSessions(t, u) ==
  /\ roles[u] # {}
  /\ BeginStaffOp(t, "sessions", "revoke", u, None, None)

ActiveSystemAdmins == {u \in Exists : users[u].status = "active" /\ "system_admin" \in roles[u]}

\* mutant: the user who is to be changed counts as well
EnsureAnActiveAdmin(t) ==
  /\ tx[t].pc = "count"
  /\ ActiveSystemAdmins # {}
  /\ Goto(t, IF tx[t].op = "status" THEN "write" ELSE "delete")
  /\ UNCHANGED <<people, papers, ghosts, requests, locks>>

EnsureNotLastActiveAdmin(t) ==
  /\ tx[t].pc = "count"
  /\ ActiveSystemAdmins \ {tx[t].user} # {}
  /\ Goto(t, IF tx[t].op = "status" THEN "write" ELSE "delete")
  /\ UNCHANGED <<people, papers, ghosts, requests, locks>>

\* mutant: only the role that was read when the request began is deleted
DeleteOldRole(t) ==
  /\ tx[t].pc = "delete"
  /\ tx' = [tx EXCEPT ![t].pc = "insert"]
  /\ crossed' = crossed \cup {u \in {tx[t].user} : Replacing(u) # {}}
  /\ UNCHANGED <<people, papers, granted, proved, unguarded, requests, locks>>

\* The DELETE of ReplaceUserRoleTx: the rows there are when it starts.
DeleteRoles(t) ==
  /\ tx[t].pc = "delete"
  /\ tx' = [tx EXCEPT ![t].seen = roles[tx[t].user], ![t].pc = "insert"]
  /\ crossed' = crossed \cup {u \in {tx[t].user} : Replacing(u) # {}}
  /\ UNCHANGED <<people, papers, granted, proved, unguarded, requests, locks>>

\* The INSERT, which a row that is there makes fail, and the commit.
InsertRole(t) ==
  LET r == tx[t]  kept == roles[r.user] \ r.seen IN
  /\ r.pc = "insert" /\ r.arg \notin kept
  /\ roles' = [roles EXCEPT ![r.user] = kept \cup {r.arg}]
  /\ tx' = [Replaced(t, r.user, r.seen) EXCEPT ![t].pc = "revoke", ![t].seen = None]
  /\ UNCHANGED <<users, customers, history, papers, ghosts, requests, locks>>

UpdateUserStatus(t) ==
  /\ tx[t].pc = "write" /\ Free(t, "user", tx[t].user)
  /\ users' = [users EXCEPT ![tx[t].user].status = tx[t].arg]
  /\ IF tx[t].arg = "active" THEN Done(t) ELSE Goto(t, "revoke")
  /\ UNCHANGED <<roles, customers, history, papers, ghosts, requests, locks>>

-------------------------------------------------------------------------------
(* Time, failure, and the handlers with their inputs.                        *)

\* A deadline passes: of a token, an invitation or a lock.
Expire ==
  /\ requests < MaxRequests
  /\ requests' = requests + 1
  /\ \/ \E k \in DOMAIN tokens : tokens' = [tokens EXCEPT ![k].expired = TRUE]
                                 /\ UNCHANGED <<users, invitations>>
     \/ \E i \in DOMAIN invitations : invitations' = [invitations EXCEPT ![i].expired = TRUE]
                                      /\ UNCHANGED <<users, tokens>>
     \/ \E u \in Exists : users[u].locked /\ users' = [users EXCEPT ![u].locked = FALSE]
                          /\ UNCHANGED <<tokens, invitations>>
  /\ UNCHANGED <<roles, customers, history, sessions, ghosts, locks, tx>>

\* A check refuses, a statement fails, or the process stops: what is committed stays.
Abort(t) ==
  /\ tx[t] # Idle
  /\ Done(t)
  /\ locks' = WithoutLocks(t)
  /\ UNCHANGED <<people, papers, ghosts, requests>>

register(t) == \E u \in User : Register(t, u)
verifyEmail(t) == \E k \in DOMAIN tokens : VerifyEmail(t, k)
resendVerification(t) == \E u \in User : ResendVerification(t, u)
login(t) == \E u \in User, audience \in Audience, right \in BOOLEAN : Login(t, u, audience, right)
logout(t) == \E i \in DOMAIN sessions : Logout(t, i)
mfaSetup(t) == \E u \in User :
  (AuthenticateAdminBearer(u) \/ AuthenticateStoreBearer(u)) /\ SetupMFA(t, u)
mfaVerify(t) == \E u \in User :
  (AuthenticateAdminBearer(u) \/ AuthenticateStoreBearer(u)) /\ VerifyMFA(t, u)

approve(t) == ManagesCustomers /\ \E u \in Customers, limit \in Limits : Approve(t, u, limit)
changeLimit(t) == ManagesCustomers /\ \E u \in Customers, limit \in Limits : ChangeLimit(t, u, limit)
blockCustomer(t) == ManagesCustomers /\ \E u \in Customers : Block(t, u)
unblockCustomer(t) == ManagesCustomers /\ \E u \in Customers : Unblock(t, u)

createInvitation(t) == \E a, u \in User, role \in StaffRole :
  ManagesUsers(a) /\ CreateInvitation(t, u, role)
revokeInvitation(t) == \E a \in User, i \in DOMAIN invitations :
  ManagesUsers(a) /\ RevokeInvitation(t, i)
acceptInvitation(t) == \E i \in DOMAIN invitations : AcceptInvitation(t, i)
assignStaffRole(t) == \E a, u \in User, role \in StaffRole :
  ManagesUsers(a) /\ AssignStaffRoleFromCustomer(t, u, role)
setRole(t) == \E a \in User, u \in Exists, role \in StaffRole :
  ManagesUsers(a) /\ SetUserRole(t, a, u, role)
setStatus(t) == \E a \in User, u \in Exists, status \in UserStatus :
  ManagesUsers(a) /\ SetUserStatus(t, a, u, status)
revokeSessions(t) == \E a \in User, u \in Exists : ManagesUsers(a) /\ RevokeStaffSessions(t, u)

\* A session goes on with its request.
Continue(t) ==
  \/ Verified(t) \/ EnqueueVerification(t) \/ Enqueued(t)
  \/ ActivateApproved(t) \/ RecordApproval(t) \/ LimitChanged(t)
  \/ WrongPassword(t) \/ CheckLogin(t) \/ UpdateUserLoginState(t) \/ DropError(t)
  \/ RevokeUserSessions(t) \/ CreateSession(t) \/ EnableMFA(t)
  \/ Invited(t) \/ Withdrawn(t) \/ Accepted(t)
  \/ EnsureNotLastActiveAdmin(t)
  \/ DeleteRoles(t) \/ InsertRole(t) \/ UpdateUserStatus(t)

\* A session takes up a request only when it has none and more may be made.
Start(t) ==
  /\ tx[t] = Idle /\ requests < MaxRequests
  /\ \/ register(t) \/ verifyEmail(t) \/ resendVerification(t)
     \/ login(t) \/ logout(t) \/ mfaSetup(t) \/ mfaVerify(t)
     \/ approve(t) \/ changeLimit(t) \/ blockCustomer(t) \/ unblockCustomer(t)
     \/ createInvitation(t) \/ revokeInvitation(t) \/ acceptInvitation(t)
     \/ assignStaffRole(t) \/ setRole(t) \/ setStatus(t) \/ revokeSessions(t)

Next ==
  \/ \E t \in Txn : Start(t) \/ Continue(t) \/ Abort(t)
  \/ Expire

Spec == Init /\ [][Next]_vars

-------------------------------------------------------------------------------
\* Rows have their columns; a customer remembers a status for the end of a
\* block, which is not itself a block; locks belong to sessions at work.
TypeOK ==
  /\ users \in [User -> UserRow \cup {None}]
  /\ roles \in [User -> SUBSET StaffRole]
  /\ customers \in [User -> CustomerRow \cup {None}]
  /\ \A u \in Customers : Remembers(customers[u])
  /\ history \in [User -> Seq([change : BOOLEAN, prev : Nat, new : Nat])]
  /\ tokens \in Seq([user : Exists, used : BOOLEAN, expired : BOOLEAN])
  /\ invitations \in Seq([user : Customers, role : StaffRole, accepted : BOOLEAN,
                          revoked : BOOLEAN, expired : BOOLEAN])
  /\ sessions \in Seq([user : Exists, audience : Audience, live : BOOLEAN])
  /\ \A l \in locks : tx[l.tx] # Idle

\* The limit of u after the first n rows of history: what an approval since the
\* last change gave, or else what that left.
LimitAfter(u, n) ==
  LET last == Max({0} \cup {m \in 1 .. n : history[u][m].change})
      given == {g \in granted[u] : last <= g.after /\ g.after <= n}
  IN IF given # {} THEN (CHOOSE g \in given : TRUE).limit
     ELSE IF last = 0 THEN 0 ELSE history[u][last].new

\* A customer is approved once, by a manager or by the verification of the
\* e-mail, however the two race; every change of the limit names the limit it
\* replaced, and the last one is the limit (Approve, VerifyEmail, ChangeLimit).
LimitsChain ==
  \A u \in Customers :
    /\ Cardinality(granted[u]) <= 1
    /\ \A n \in DOMAIN history[u] :
         history[u][n].change => history[u][n].prev = LimitAfter(u, n - 1)
    /\ customers[u].limit = LimitAfter(u, Len(history[u]))

\* Unless two changes of the staff overlap, or an administrator accepts an
\* invitation to another role, there is always an active administrator
\* (ensureNotLastActiveAdmin; docs/access-control.md).
AnAdminRemains == unguarded \/ ActiveSystemAdmins # {}

\* A user has one internal role at most, whatever the requests read, unless
\* two replacements of the role cross (ReplaceUserRoleTx; docs/access-control.md).
OneInternalRole == \A u \in User \ crossed : Cardinality(roles[u]) <= 1

\* The second factor is on only with a secret of which the user has shown a
\* code, although setup and verification run without a lock (VerifyMFA).
EnabledSecretProved ==
  \A u \in Exists : users[u].mfa => users[u].secret \in proved[u]
===============================================================================
