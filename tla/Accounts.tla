------------------------------- MODULE Accounts -------------------------------
(***************************************************************************)
(* How accounts come to exist and change: backend/core/accounts.py on the  *)
(* identity store (backend/core/identity.py) and its tables                *)
(* (backend/core/database.py), served by api/routes/accounts.py.           *)
(*                                                                         *)
(* Every route is a plain function, so requests run in threads, and every  *)
(* database call is a transaction of its own: a request is a chain of      *)
(* steps (calls[t].at names the next one) that other requests interleave   *)
(* with and that a crash may cut anywhere.  The reads a handler makes      *)
(* before its first write are one step.  Expiry of codes, departments,     *)
(* display names and audit records are left out; so are sessions, which    *)
(* module SignIn has: whoever may act is an active administrator.  The     *)
(* schema's foreign keys are not enforced, for PRAGMA foreign_keys holds   *)
(* for one connection and Database.connect opens a new one for every call. *)
(***************************************************************************)
EXTENDS Naturals, FiniteSets

CONSTANTS Ids,           \* account ids
          Names,         \* usernames
          SeedNames,     \* the usernames access-control.yaml declares, administrators all
          Roles,         \* roles of the access policy
          Administering, \* those that grant users.manage
          Owner,         \* identity.owner_role
          Placeholder,   \* self_registration_default_role
          Invites, Requests, Resets,  \* ids of the codes and requests
          Threads,
          Nothing,
          MaxStarts, MaxPasswords,
          MaxIssued      \* codes and access requests one behaviour goes through

UserRows ==
  [name : Names, role : Roles, active : BOOLEAN, origin : {"seed", "owner", "invite", "request"},
   code : Invites \cup Requests \cup {Nothing}, shared : BOOLEAN, pw : Nat, byHand : BOOLEAN]

ASSUME AccountsAssumption ==
  /\ SeedNames \subseteq Names /\ Administering \subseteq Roles
  /\ Owner \in Administering /\ Placeholder \in Roles \ Administering
  /\ Nothing \notin Ids \cup Names \cup Roles \cup Invites \cup Requests \cup Resets \cup UserRows
  /\ IsFiniteSet(Invites) /\ IsFiniteSet(Requests) /\ IsFiniteSet(Resets)
  /\ MaxStarts \in Nat /\ MaxPasswords \in Nat /\ MaxIssued \in Nat

VARIABLES
  up, demo, starts,
  token,     \* the setup token in force: the number of the start that issued it, or 0
  users,     \* Ids -> the account's row, or Nothing
  invites,   \* Invites -> [state, role, by]
  requests,  \* Requests -> [status, user, granted]; the role asked for is only shown
  resets,    \* Resets -> [state, user]
  calls      \* Threads -> the request each thread is in the middle of

store == <<users, invites, requests, resets, token>>
vars == <<up, demo, starts, store, calls>>

Idle == [at |-> "idle", name |-> Nothing, user |-> Nothing, ref |-> Nothing,
         role |-> Nothing, on |-> FALSE]

(***************************************************************************)
(* Reading the tables.                                                     *)
(***************************************************************************)
Accounts == {i \in Ids : users[i] # Nothing}
Named(n) == {i \in Accounts : users[i].name = n}
Active == {i \in Accounts : users[i].active}
Administrators == {i \in Active : users[i].role \in Administering}
HasAdministrator == Administrators # {}
NeedsSetup == ~demo /\ ~HasAdministrator
PendingFor(i) == {r \in Requests : requests[r].status = "pending" /\ requests[r].user = i}

Issued == Cardinality({c \in Invites : invites[c].state # "none"})
          + Cardinality({q \in Requests : requests[q].status # "none"})
          + Cardinality({c \in Resets : resets[c].state # "none"})

Row(n, role, active, origin, code, shared) ==
  [name |-> n, role |-> role, active |-> active, origin |-> origin, code |-> code,
   shared |-> shared, pw |-> 0, byHand |-> FALSE]

Init ==
  /\ up = FALSE /\ demo = FALSE /\ starts = 0 /\ token = 0
  /\ users = [i \in Ids |-> Nothing]
  /\ invites = [c \in Invites |-> [state |-> "none", role |-> Nothing, by |-> Nothing]]
  /\ requests = [r \in Requests |->
       [status |-> "none", user |-> Nothing, granted |-> Nothing]]
  /\ resets = [c \in Resets |-> [state |-> "none", user |-> Nothing]]
  /\ calls = [t \in Threads |-> Idle]

(***************************************************************************)
(* Start and crash.  A start in demo mode restores the seed accounts that  *)
(* were retired and creates those that are missing; any other start        *)
(* retires the seed accounts still on the shared password, and only then   *)
(* decides whether the host needs a setup token.                           *)
(***************************************************************************)
Retired(i) == users[i] # Nothing /\ users[i].name \in SeedNames
              /\ users[i].active /\ users[i].shared
Restorable(i) == users[i] # Nothing /\ users[i].name \in SeedNames
                 /\ ~users[i].active /\ users[i].shared

Retire ==
  /\ users' = [i \in Ids |-> IF Retired(i) THEN [users[i] EXCEPT !.active = FALSE] ELSE users[i]]

Seed ==
  \E new \in [ {n \in SeedNames : Named(n) = {}} -> {i \in Ids : users[i] = Nothing} ] :
    /\ \A m, n \in DOMAIN new : new[m] = new[n] => m = n
    /\ users' = [i \in Ids |->
         IF \E n \in DOMAIN new : new[n] = i
         THEN Row(CHOOSE n \in DOMAIN new : new[n] = i, Owner, TRUE, "seed", Nothing, TRUE)
         ELSE IF Restorable(i) THEN [users[i] EXCEPT !.active = TRUE] ELSE users[i]]

IssueSetupToken ==
  token' = IF ~demo' /\ ~HasAdministrator' THEN starts + 1 ELSE 0

\* MUTANT of Provision: the token is decided before the demo accounts retire.
ProvisionTokenFirst ==
  /\ token' = IF ~demo' /\ ~HasAdministrator THEN starts + 1 ELSE 0
  /\ IF demo' THEN Seed ELSE Retire

Provision ==
  /\ IF demo' THEN Seed ELSE Retire
  /\ IssueSetupToken

Start ==
  /\ ~up /\ starts < MaxStarts
  /\ up' = TRUE /\ starts' = starts + 1 /\ demo' \in BOOLEAN
  /\ Provision
  /\ UNCHANGED <<invites, requests, resets, calls>>

\* The process ends: what each request had not yet written is lost.
Crash ==
  /\ up
  /\ up' = FALSE /\ calls' = [t \in Threads |-> Idle]
  /\ UNCHANGED <<demo, starts, store>>

(***************************************************************************)
(* Requests in progress.                                                   *)
(***************************************************************************)
At(t, point) == up /\ calls[t].at = point
Arrive(t, call) == At(t, "idle") /\ calls' = [calls EXCEPT ![t] = call]
Goto(t, point) == calls' = [calls EXCEPT ![t].at = point]
Return(t) == calls' = [calls EXCEPT ![t] = Idle]
Running == UNCHANGED <<up, demo, starts>>

\* A new uuid: an id of which no row and no request in progress keeps a trace.
Fresh(i) ==
  /\ users[i] = Nothing
  /\ \A t \in Threads : calls[t].user # i
  /\ \A q \in Requests : requests[q].user # i
  /\ \A c \in Resets : resets[c].user # i

\* _insert_user: the unique index on the name refuses a second account.
Insert(i, row) ==
  /\ Fresh(i) /\ Named(row.name) = {}
  /\ users' = [users EXCEPT ![i] = row]

\* update_user: an UPDATE by id, which changes nothing when the row is gone.
Update(i, row) == users' = [users EXCEPT ![i] = IF @ = Nothing THEN @ ELSE row]

(***************************************************************************)
(* create_owner.                                                           *)
(***************************************************************************)
AskOwner(t) ==
  /\ NeedsSetup /\ token # 0
  /\ \E n \in Names : /\ Named(n) = {}
                      /\ Arrive(t, [Idle EXCEPT !.at = "insert owner", !.name = n])
  /\ UNCHANGED store /\ Running

InsertOwner(t) ==
  /\ At(t, "insert owner")
  /\ \/ /\ \E i \in Ids : Insert(i, Row(calls[t].name, Owner, TRUE, "owner", Nothing, FALSE))
        /\ Goto(t, "spend token")
     \/ Named(calls[t].name) # {} /\ Return(t) /\ UNCHANGED users
  /\ UNCHANGED <<invites, requests, resets, token>> /\ Running

SpendToken(t) ==
  /\ At(t, "spend token") /\ Return(t)
  /\ token' = 0
  /\ UNCHANGED <<users, invites, requests, resets>> /\ Running

(***************************************************************************)
(* Invitations: create, revoke, accept.                                    *)
(***************************************************************************)
CreateInvite(t) ==
  /\ At(t, "idle") /\ UNCHANGED calls /\ Administrators # {}
  /\ \E c \in Invites, r \in Roles :
       /\ invites[c].state = "none" /\ Issued < MaxIssued
       /\ invites' = [invites EXCEPT ![c] = [state |-> "open", role |-> r, by |-> Nothing]]
  /\ UNCHANGED <<users, requests, resets, token>> /\ Running

RevokeInvite(t) ==
  /\ At(t, "idle") /\ UNCHANGED calls /\ Administrators # {}
  /\ \E c \in Invites : /\ invites[c].state = "open"
                        /\ invites' = [invites EXCEPT ![c].state = "revoked"]
  /\ UNCHANGED <<users, requests, resets, token>> /\ Running

AskToAccept(t) ==
  /\ \E c \in Invites, n \in Names :
       /\ invites[c].state = "open" /\ Named(n) = {}
       /\ Arrive(t, [Idle EXCEPT !.at = "claim invite", !.name = n, !.ref = c,
                                 !.role = invites[c].role])
  /\ UNCHANGED store /\ Running

\* MUTANT of Claimable: the UPDATE does not look whether the code is spent.
ClaimableEver(c) == invites[c].state # "none"

\* claim_invite: one conditional UPDATE, so of two people racing one code one wins.
Claimable(c) == invites[c].state = "open"

ClaimInvite(t) ==
  /\ At(t, "claim invite")
  /\ LET c == calls[t].ref
     IN  IF Claimable(c)
         THEN /\ invites' = [invites EXCEPT ![c].state = "used", ![c].by = calls[t].name]
              /\ Goto(t, "insert invited")
         ELSE Return(t) /\ UNCHANGED invites
  /\ UNCHANGED <<users, requests, resets, token>> /\ Running

InsertInvited(t) ==
  /\ At(t, "insert invited")
  /\ \E i \in Ids :
       Insert(i, Row(calls[t].name, calls[t].role, TRUE, "invite", calls[t].ref, FALSE))
  /\ Return(t)
  /\ UNCHANGED <<invites, requests, resets, token>> /\ Running

\* The name was taken meanwhile: the code is given back.
GiveBack(t) ==
  /\ At(t, "insert invited") /\ Named(calls[t].name) # {} /\ Return(t)
  /\ invites' = [invites EXCEPT ![calls[t].ref].state = "open", ![calls[t].ref].by = Nothing]
  /\ UNCHANGED <<users, requests, resets, token>> /\ Running

(***************************************************************************)
(* Access requests.                                                        *)
(***************************************************************************)
RequestAccess(t) ==
  /\ \E n \in Names, r \in Roles, q \in Requests :
       /\ Named(n) = {} /\ requests[q].status = "none" /\ Issued < MaxIssued
       /\ \A s \in Threads : calls[s].ref # q
       /\ \A i \in Accounts : users[i].code # q
       /\ Arrive(t, [Idle EXCEPT !.at = "insert requester", !.name = n, !.role = r, !.ref = q])
  /\ UNCHANGED store /\ Running

\* MUTANT of RequesterRow: the account is stored with the role it asks for.
RowAsAsked(call) == Row(call.name, call.role, FALSE, "request", call.ref, FALSE)

\* Inactive and least-privileged: the requested role is not written here.
RequesterRow(call) == Row(call.name, Placeholder, FALSE, "request", call.ref, FALSE)

InsertRequester(t) ==
  /\ At(t, "insert requester")
  /\ \/ \E i \in Ids : /\ Insert(i, RequesterRow(calls[t]))
                       /\ calls' = [calls EXCEPT ![t].at = "insert request", ![t].user = i]
     \/ Named(calls[t].name) # {} /\ Return(t) /\ UNCHANGED users
  /\ UNCHANGED <<invites, requests, resets, token>> /\ Running

InsertRequest(t) ==
  /\ At(t, "insert request") /\ Return(t)
  /\ requests' = [requests EXCEPT ![calls[t].ref] =
       [status |-> "pending", user |-> calls[t].user, granted |-> Nothing]]
  /\ UNCHANGED <<users, invites, resets, token>> /\ Running

\* approve_request and reject_request begin with the same reading of the row.
ReadPending(t) ==
  /\ Administrators # {}
  /\ \E q \in Requests :
       /\ requests[q].status = "pending"
       /\ LET call == [Idle EXCEPT !.ref = q, !.user = requests[q].user]
          IN  \/ \E r \in Roles : /\ requests[q].user \in Accounts
                                  /\ Arrive(t, [call EXCEPT !.at = "approve", !.role = r])
              \/ Arrive(t, [call EXCEPT !.at = "reject"])
  /\ UNCHANGED store /\ Running

\* MUTANT of Decidable: the UPDATE overwrites an earlier decision.
DecidableAgain(q) == requests[q].status # "none"

\* decide_access_request: decided only if still pending.
Decidable(q) == requests[q].status = "pending"

Approve(t) ==
  /\ At(t, "approve")
  /\ LET q == calls[t].ref
     IN  IF Decidable(q)
         THEN /\ requests' = [requests EXCEPT ![q].status = "approved", ![q].granted = calls[t].role]
              /\ Goto(t, "grant")
         ELSE Return(t) /\ UNCHANGED requests
  /\ UNCHANGED <<users, invites, resets, token>> /\ Running

Grant(t) ==
  /\ At(t, "grant") /\ Return(t)
  /\ Update(calls[t].user, [users[calls[t].user] EXCEPT !.role = calls[t].role, !.active = TRUE])
  /\ UNCHANGED <<invites, requests, resets, token>> /\ Running

Reject(t) ==
  /\ At(t, "reject")
  /\ LET q == calls[t].ref
     IN  IF Decidable(q)
         THEN /\ requests' = [requests EXCEPT ![q].status = "rejected", ![q].user = Nothing]
              /\ Goto(t, "read rejected")
         ELSE Return(t) /\ UNCHANGED requests
  /\ UNCHANGED <<users, invites, resets, token>> /\ Running

ReadRejected(t) ==
  /\ At(t, "read rejected")
  /\ IF calls[t].user \in Accounts \ Active THEN Goto(t, "delete rejected") ELSE Return(t)
  /\ UNCHANGED store /\ Running

DeleteRejected(t) ==
  /\ At(t, "delete rejected") /\ Return(t)
  /\ users' = [users EXCEPT ![calls[t].user] = Nothing]
  /\ UNCHANGED <<invites, requests, resets, token>> /\ Running

(***************************************************************************)
(* set_active.                                                             *)
(***************************************************************************)
ReadToActivate(t) ==
  /\ Administrators # {}
  /\ \E i \in Accounts : PendingFor(i) = {}
                         /\ Arrive(t, [Idle EXCEPT !.at = "set active", !.user = i, !.on = TRUE])
  /\ UNCHANGED store /\ Running

\* Never oneself, and never the last active administrator as the table reads now.
ReadToDeactivate(t) ==
  /\ \E a \in Administrators, i \in Accounts :
       /\ PendingFor(i) = {} /\ i # a
       /\ i \in Administrators => Administrators \ {i} # {}
       /\ Arrive(t, [Idle EXCEPT !.at = "set active", !.user = i, !.on = FALSE])
  /\ UNCHANGED store /\ Running

SetActive(t) ==
  /\ At(t, "set active")
  /\ LET i == calls[t].user
         by == [users[i] EXCEPT !.active = calls[t].on,
                                !.byHand = @ \/ (calls[t].on /\ users[i].origin = "request")]
     IN  Update(i, by)
  /\ Return(t)
  /\ UNCHANGED <<invites, requests, resets, token>> /\ Running

(***************************************************************************)
(* Password resets.                                                        *)
(***************************************************************************)
ReadToIssue(t) ==
  /\ Administrators # {}
  /\ \E i \in Active, c \in Resets :
       /\ PendingFor(i) = {} /\ resets[c].state = "none" /\ Issued < MaxIssued
       /\ \A s \in Threads : calls[s].ref # c
       /\ Arrive(t, [Idle EXCEPT !.at = "insert reset", !.user = i, !.ref = c])
  /\ UNCHANGED store /\ Running

\* insert_password_reset: a new code retires any earlier one in the same transaction.
WithReset(i, c) ==
  [d \in Resets |-> IF d = c THEN [state |-> "open", user |-> i]
                    ELSE IF resets[d].state = "open" /\ resets[d].user = i
                         THEN [resets[d] EXCEPT !.state = "revoked"] ELSE resets[d]]

InsertReset(t) ==
  /\ At(t, "insert reset") /\ Return(t)
  /\ resets' = WithReset(calls[t].user, calls[t].ref)
  /\ UNCHANGED <<users, invites, requests, token>> /\ Running

AskToReset(t) ==
  /\ \E c \in Resets :
       /\ resets[c].state = "open" /\ resets[c].user \in Active
       /\ Arrive(t, [Idle EXCEPT !.at = "claim reset", !.user = resets[c].user, !.ref = c])
  /\ UNCHANGED store /\ Running

ClaimReset(t) ==
  /\ At(t, "claim reset")
  /\ LET c == calls[t].ref
     IN  IF resets[c].state = "open"
         THEN /\ resets' = [resets EXCEPT ![c].state = "used"]
              /\ Goto(t, "change password")
         ELSE Return(t) /\ UNCHANGED resets
  /\ UNCHANGED <<users, invites, requests, token>> /\ Running

ChangePassword(t) ==
  /\ At(t, "change password")
  /\ LET i == calls[t].user
     IN  /\ i \in Accounts => users[i].pw < MaxPasswords
         /\ Update(i, [users[i] EXCEPT !.pw = @ + 1, !.shared = FALSE])
         /\ Return(t)
  /\ UNCHANGED <<invites, requests, resets, token>> /\ Running

-------------------------------------------------------------------------------
Step(t) ==
  \/ AskOwner(t) \/ InsertOwner(t) \/ SpendToken(t)
  \/ CreateInvite(t) \/ RevokeInvite(t) \/ AskToAccept(t) \/ ClaimInvite(t)
  \/ InsertInvited(t) \/ GiveBack(t)
  \/ RequestAccess(t) \/ InsertRequester(t) \/ InsertRequest(t)
  \/ ReadPending(t) \/ Approve(t) \/ Grant(t)
  \/ Reject(t) \/ ReadRejected(t) \/ DeleteRejected(t)
  \/ ReadToActivate(t) \/ ReadToDeactivate(t) \/ SetActive(t)
  \/ ReadToIssue(t) \/ InsertReset(t) \/ AskToReset(t) \/ ClaimReset(t) \/ ChangePassword(t)

Next == Start \/ Crash \/ \E t \in Threads : Step(t)

Spec == Init /\ [][Next]_vars
-------------------------------------------------------------------------------
InviteRows ==
  [state : {"none", "open", "used", "revoked"},
   role : Roles \cup {Nothing}, by : Names \cup {Nothing}]

RequestRows ==
  [status : {"none", "pending", "approved", "rejected"},
   user : Ids \cup {Nothing}, granted : Roles \cup {Nothing}]

ResetRows == [state : {"none", "open", "used", "revoked"}, user : Ids \cup {Nothing}]

\* A request in progress: its next step, and what its handler holds in local variables.
Points ==
  {"idle", "insert owner", "spend token", "claim invite", "insert invited",
   "insert requester", "insert request", "approve", "grant", "reject", "read rejected",
   "delete rejected", "set active", "insert reset", "claim reset", "change password"}

CallRows ==
  [at : Points,
   name : Names \cup {Nothing}, user : Ids \cup {Nothing},
   ref : Invites \cup Requests \cup Resets \cup {Nothing},
   role : Roles \cup {Nothing}, on : BOOLEAN]

TypeOK ==
  /\ up \in BOOLEAN /\ demo \in BOOLEAN /\ starts \in Nat /\ token \in Nat
  /\ users \in [Ids -> {Nothing} \cup UserRows]
  /\ invites \in [Invites -> InviteRows]
  /\ requests \in [Requests -> RequestRows]
  /\ resets \in [Resets -> ResetRows]
  /\ calls \in [Threads -> CallRows]

\* An account that came in by an invitation took its name and its role from it,
\* the code is spent, and no second account came in by the same code: two
\* people redeeming one code, a code revoked or given back meanwhile, or a
\* crash between the claim and the insert never let two in, or one in for
\* nothing (accept_invite, claim_invite).
InvitedOnce ==
  \A i \in Accounts : users[i].origin = "invite" =>
    LET c == users[i].code
    IN  /\ invites[c].state = "used" /\ invites[c].by = users[i].name
        /\ \A j \in Accounts : users[j].origin = "invite" /\ users[j].code = c => j = i

\* What an account may do, somebody entitled decided: the seeds and the owner
\* administer, an invited account has the role of its invitation, and one
\* that asked for access has either the placeholder role or the role an
\* administrator granted when approving that very request -- never the role
\* it asked for by itself (request_access, approve_request).
RoleWasDecided ==
  \A i \in Accounts :
    LET u == users[i]
    IN  CASE u.origin = "invite" -> u.role = invites[u.code].role
          [] u.origin = "request" ->
               \/ u.role = Placeholder
               \/ requests[u.code].status = "approved" /\ u.role = requests[u.code].granted
          [] OTHER -> u.role = Owner

\* An account that asked for access signs in only after its request was
\* approved, unless an administrator switched it on by hand: of an approval
\* and a rejection in flight together, the one that loses changes nothing
\* (decide_access_request, approve_request, reject_request).
ActiveWasApproved ==
  \A i \in Active : users[i].origin = "request" =>
    users[i].byHand \/ requests[users[i].code].status = "approved"

\* A reset code changes one password once: an account's password has been
\* changed at most as often as its codes were spent, and at most one code of
\* an account can still be redeemed (claim_password_reset,
\* insert_password_reset).
ResetsSpentOnce ==
  /\ \A i \in Accounts :
       users[i].pw <= Cardinality({c \in Resets : resets[c].state = "used" /\ resets[c].user = i})
  /\ \A c, d \in Resets :
       resets[c].state = "open" /\ resets[d].state = "open" /\ resets[c].user = resets[d].user
         => c = d

\* A secret handed out on paper works once, however the requests that present
\* it interleave: an invitation makes one account, a reset code one password.
CodesSpentOnce == InvitedOnce /\ ResetsSpentOnce

\* A start outside demo mode leaves somebody able to take charge: an active
\* administrator or a setup token for the console.  Also when the start has
\* just retired the only administrators, or when the last ones had
\* deactivated each other (lifespan, retire_demo_accounts, issue_setup_token).
StartLeavesAWayIn ==
  [][~up /\ up' /\ ~demo' => HasAdministrator' \/ token' # 0]_vars

\* "You cannot deactivate yourself or the last active administrator"
\* (docs/handbook/03-user-guide/01-sign-in.md:75): a host that has an active
\* administrator keeps one while it runs.  The count is read in one
\* transaction and the row written in another (set_active).
AnAdministratorRemains ==
  [][up /\ up' /\ HasAdministrator => HasAdministrator']_vars
===============================================================================
