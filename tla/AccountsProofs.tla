---------------------------- MODULE AccountsProofs ----------------------------
(***************************************************************************)
(* The account store under any number of threads, accounts and codes, and  *)
(* crashes between any two transactions.                                   *)
(*                                                                         *)
(* The invariant is in three parts, one for each kind of code: what the    *)
(* rows made by it show, and what a request in the middle of using it may  *)
(* rely on when it writes next.  Most steps do not touch a part's tables:  *)
(* a frame says what such a step leaves alone, and one lemma for each part *)
(* shows that this is enough.                                              *)
(***************************************************************************)
EXTENDS Accounts, FiniteSetTheorems, TLAPS

SameRow(i) ==
  /\ users[i] # Nothing /\ users'[i] # Nothing
  /\ users'[i].name = users[i].name /\ users'[i].origin = users[i].origin
  /\ users'[i].code = users[i].code

\* calls at these points are where they were, if they are still there
Kept(points) == \A t \in Threads : calls'[t].at \in points => calls'[t] = calls[t]

-----------------------------------------------------------------------------
(* Invitations. *)

InvitePoints == {"claim invite", "insert invited"}

InvitedRows ==
  \A i \in Accounts : users[i].origin = "invite" =>
    users[i].code \in Invites /\ users[i].role = invites[users[i].code].role

ClaimingCall(t) ==
  /\ calls[t].ref \in Invites /\ calls[t].name \in Names /\ calls[t].role \in Roles
  /\ invites[calls[t].ref].state # "none" /\ calls[t].role = invites[calls[t].ref].role

\* the code is this call's: it is spent in its name, and nobody has come in by it
InvitedCall(t) ==
  /\ invites[calls[t].ref].state = "used" /\ invites[calls[t].ref].by = calls[t].name
  /\ \A i \in Accounts : users[i].origin = "invite" => users[i].code # calls[t].ref
  /\ \A s \in Threads \ {t} : calls[s].at = "insert invited" => calls[s].ref # calls[t].ref

InviteCalls ==
  \A t \in Threads :
    /\ calls[t].at \in InvitePoints => ClaimingCall(t)
    /\ calls[t].at = "insert invited" => InvitedCall(t)

IssuedWithRole == \A c \in Invites : invites[c].state # "none" => invites[c].role \in Roles

InviteInv == InvitedOnce /\ InvitedRows /\ IssuedWithRole /\ InviteCalls

InviteFrame ==
  /\ UNCHANGED invites /\ Kept(InvitePoints)
  /\ \A i \in Accounts' : users'[i].origin = "invite" => SameRow(i) /\ users'[i].role = users[i].role

LEMMA InviteFrameHolds == InviteInv /\ InviteFrame => InviteInv'
<1> SUFFICES ASSUME InviteInv, InviteFrame PROVE InviteInv'
  OBVIOUS
<1>1. \A i \in Accounts' : users'[i].origin = "invite" =>
        i \in Accounts /\ users[i].origin = "invite" /\ users'[i].code = users[i].code
        /\ users'[i].name = users[i].name /\ users'[i].role = users[i].role
  BY DEF InviteFrame, SameRow, Accounts
<1>2. InvitedOnce'
  BY <1>1 DEF InviteInv, InvitedOnce, InviteFrame
<1>3. InvitedRows'
  BY <1>1 DEF InviteInv, InvitedRows, InviteFrame
<1>4. ASSUME NEW t \in Threads, calls'[t].at \in InvitePoints PROVE ClaimingCall(t)'
  BY <1>4 DEF InviteInv, InviteCalls, ClaimingCall, InviteFrame, Kept
<1>5. ASSUME NEW t \in Threads, calls'[t].at = "insert invited" PROVE InvitedCall(t)'
  <2>1. \A s \in Threads : calls'[s].at = "insert invited" => calls'[s] = calls[s]
    BY DEF InviteFrame, Kept, InvitePoints
  <2>2. InvitedCall(t)
    BY <1>5, <2>1 DEF InviteInv, InviteCalls
  <2> QED
    BY <1>1, <1>5, <2>1, <2>2 DEF InvitedCall, InviteFrame
<1>6. InviteCalls'
  BY <1>4, <1>5 DEF InviteCalls
<1>7. IssuedWithRole'
  BY DEF InviteInv, IssuedWithRole, InviteFrame
<1> QED
  BY <1>2, <1>3, <1>6, <1>7 DEF InviteInv

-----------------------------------------------------------------------------
(* Access requests. *)

Deciding == {"approve", "grant", "reject", "read rejected", "delete rejected"}
Asking == {"insert requester", "insert request"}

\* account i, if it is there, came in by request q
CameBy(i, q) == users[i] # Nothing => users[i].origin = "request" /\ users[i].code = q

RequestRow(i) ==
  /\ users[i].shared => users[i].origin = "seed"
  /\ users[i].origin \in {"seed", "owner"} => users[i].role = Owner
  /\ users[i].origin = "request" =>
       LET q == users[i].code
       IN  /\ q \in Requests
           /\ \/ users[i].role = Placeholder
              \/ requests[q].status = "approved" /\ users[i].role = requests[q].granted
           /\ users[i].active => users[i].byHand \/ requests[q].status = "approved"

RequestedRows == \A i \in Accounts : RequestRow(i)

RequestTable ==
  \A q \in Requests :
    /\ requests[q].status \in {"pending", "approved"} =>
         /\ requests[q].user \in Ids /\ users[requests[q].user] # Nothing
         /\ CameBy(requests[q].user, q)
    /\ requests[q].status \in {"none", "rejected"} => requests[q].user = Nothing

AskingCall(t) ==
  /\ calls[t].ref \in Requests /\ calls[t].name \in Names
  /\ requests[calls[t].ref].status = "none"
  /\ \A s \in Threads \ {t} : calls[s].at \in Asking => calls[s].ref # calls[t].ref
  /\ calls[t].at = "insert request" =>
       calls[t].user \in Ids /\ users[calls[t].user] # Nothing /\ CameBy(calls[t].user, calls[t].ref)

DecidingCall(t) ==
  LET q == calls[t].ref
  IN  /\ q \in Requests /\ calls[t].user \in Ids /\ CameBy(calls[t].user, q)
      /\ requests[q].status # "none"
      /\ calls[t].at \in {"approve", "grant"} => calls[t].role \in Roles
      /\ calls[t].at = "grant" =>
           requests[q].status = "approved" /\ requests[q].granted = calls[t].role
      /\ calls[t].at \in {"read rejected", "delete rejected"} => requests[q].status = "rejected"

RequestCalls ==
  \A t \in Threads :
    /\ calls[t].at \in Asking => AskingCall(t)
    /\ calls[t].at \in Deciding => DecidingCall(t)

RequestInv == RequestedRows /\ RequestTable /\ RequestCalls

RequestFrame ==
  /\ UNCHANGED requests /\ Kept(Asking \cup Deciding)
  /\ \A i \in Accounts :
       /\ SameRow(i) /\ users'[i].role = users[i].role
       /\ users'[i].shared => users[i].shared
       /\ users[i].byHand => users'[i].byHand
       /\ users'[i].active /\ users[i].origin = "request" => users[i].active \/ users'[i].byHand
  /\ \A i \in Accounts' \ Accounts :
       /\ users'[i].origin # "request"
       /\ users'[i].shared => users'[i].origin = "seed"
       /\ users'[i].origin \in {"seed", "owner"} => users'[i].role = Owner
       /\ \A t \in Threads : calls'[t].at \in Deciding => calls[t].user # i

LEMMA RequestFrameHolds == RequestInv /\ RequestFrame => RequestInv'
<1> SUFFICES ASSUME RequestInv, RequestFrame PROVE RequestInv'
  OBVIOUS
<1>1. \A i \in Ids : users[i] # Nothing => SameRow(i)
  BY DEF RequestFrame, Accounts
<1>2. ASSUME NEW i \in Accounts' PROVE RequestRow(i)'
  <2>1. CASE i \in Accounts
    BY <2>1 DEF RequestInv, RequestedRows, RequestRow, RequestFrame, SameRow
  <2>2. CASE i \notin Accounts
    BY <2>2 DEF RequestFrame, RequestRow
  <2> QED
    BY <2>1, <2>2
<1>3. RequestTable'
  BY <1>1 DEF RequestInv, RequestTable, RequestFrame, SameRow, CameBy
<1>4. ASSUME NEW t \in Threads, calls'[t].at \in Asking PROVE AskingCall(t)'
  <2>1. \A s \in Threads : calls'[s].at \in Asking => calls'[s] = calls[s]
    BY DEF RequestFrame, Kept
  <2>2. AskingCall(t)
    BY <1>4, <2>1 DEF RequestInv, RequestCalls
  <2>3. calls'[t] = calls[t] /\ UNCHANGED requests
    BY <1>4, <2>1 DEF RequestFrame
  <2>4. \A s \in Threads \ {t} : calls'[s].at \in Asking => calls'[s].ref # calls'[t].ref
    BY <2>1, <2>2, <2>3 DEF AskingCall
  <2>5. calls[t].at = "insert request" =>
          users'[calls[t].user] # Nothing /\ CameBy(calls[t].user, calls[t].ref)'
    BY <1>1, <2>2, <2>3 DEF AskingCall, SameRow, CameBy
  <2> QED
    BY <2>2, <2>3, <2>4, <2>5 DEF AskingCall
<1>5. ASSUME NEW t \in Threads, calls'[t].at \in Deciding PROVE DecidingCall(t)'
  <2>1. calls'[t] = calls[t] /\ DecidingCall(t)
    BY <1>5 DEF RequestFrame, Kept, RequestInv, RequestCalls
  <2>2. CameBy(calls[t].user, calls[t].ref)'
    <3>1. CASE users[calls[t].user] = Nothing
      BY <1>5, <2>1, <3>1 DEF RequestFrame, Accounts, CameBy, DecidingCall
    <3>2. CASE users[calls[t].user] # Nothing
      BY <1>1, <2>1, <3>2 DEF SameRow, CameBy, DecidingCall
    <3> QED
      BY <3>1, <3>2
  <2> QED
    BY <2>1, <2>2 DEF DecidingCall, RequestFrame
<1> QED
  BY <1>2, <1>3, <1>4, <1>5 DEF RequestInv, RequestedRows, RequestCalls

-----------------------------------------------------------------------------
(* Password resets. *)

ResetPoints == {"insert reset", "claim reset", "change password"}

Spent(i) == {c \in Resets : resets[c].state = "used" /\ resets[c].user = i}

\* codes whose password is still to be written
Promised == {c \in Resets : \E t \in Threads : calls[t].at = "change password" /\ calls[t].ref = c}

ChangedRows == \A i \in Accounts : users[i].pw <= Cardinality(Spent(i) \ Promised)

OneOpen ==
  \A c, d \in Resets :
    resets[c].state = "open" /\ resets[d].state = "open" /\ resets[c].user = resets[d].user => c = d

ResetCall(t) ==
  /\ calls[t].ref \in Resets /\ calls[t].user \in Ids
  /\ calls[t].at = "insert reset" => resets[calls[t].ref].state = "none"
  /\ calls[t].at = "claim reset" => resets[calls[t].ref].state # "none"
  /\ calls[t].at = "change password" => resets[calls[t].ref].state = "used"
  /\ calls[t].at # "insert reset" => resets[calls[t].ref].user = calls[t].user
  /\ calls[t].at # "claim reset" =>
       \A s \in Threads \ {t} : calls[s].at = calls[t].at => calls[s].ref # calls[t].ref

ResetCalls == \A t \in Threads : calls[t].at \in ResetPoints => ResetCall(t)

ResetInv == ChangedRows /\ OneOpen /\ ResetCalls

ResetFrame ==
  /\ UNCHANGED resets /\ Kept(ResetPoints)
  /\ \A i \in Accounts' : users'[i].pw \in Nat
  /\ \A i \in Accounts' : (i \in Accounts /\ users'[i].pw = users[i].pw) \/ users'[i].pw = 0

\* What an account has changed is counted by a finite set.
LEMMA SpentIsFinite ==
  ASSUME NEW i, NEW S
  PROVE  IsFiniteSet(Spent(i) \ S) /\ Cardinality(Spent(i) \ S) \in Nat
<1>1. IsFiniteSet(Spent(i) \ S)
  <2>1. Spent(i) \ S \in SUBSET Resets
    BY DEF Spent
  <2> QED
    BY <2>1, FS_Subset, AccountsAssumption
<1> QED
  BY <1>1, FS_CardinalityType

LEMMA ResetFrameHolds == ResetInv /\ ResetFrame => ResetInv'
<1> SUFFICES ASSUME ResetInv, ResetFrame PROVE ResetInv'
  OBVIOUS
<1>1. \A s \in Threads : calls'[s].at \in ResetPoints => calls'[s] = calls[s]
  BY DEF ResetFrame, Kept
<1>2. Promised' \subseteq Promised
  BY <1>1 DEF Promised, ResetPoints
<1>3. ASSUME NEW i \in Accounts' PROVE users'[i].pw <= Cardinality(Spent(i) \ Promised)'
  <2>1. Spent(i)' = Spent(i)
    BY DEF Spent, ResetFrame
  <2>2. Spent(i) \ Promised \in SUBSET (Spent(i) \ Promised')
    BY <1>2
  <2>3. Cardinality(Spent(i) \ Promised) <= Cardinality(Spent(i) \ Promised')
    BY <2>2, SpentIsFinite, FS_Subset
  <2>4. Cardinality(Spent(i) \ Promised) \in Nat /\ Cardinality(Spent(i) \ Promised') \in Nat
    BY SpentIsFinite
  <2>5. users'[i].pw \in Nat
    BY DEF ResetFrame
  <2>6. CASE users'[i].pw = 0
    BY <2>1, <2>4, <2>6
  <2>7. CASE i \in Accounts /\ users'[i].pw = users[i].pw
    <3>1. users[i].pw <= Cardinality(Spent(i) \ Promised)
      BY <2>7 DEF ResetInv, ChangedRows
    <3> QED
      BY <2>1, <2>3, <2>4, <2>5, <2>7, <3>1
  <2> QED
    BY <2>6, <2>7 DEF ResetFrame
<1>4. OneOpen'
  BY DEF ResetInv, OneOpen, ResetFrame
<1>5. ASSUME NEW t \in Threads, calls'[t].at \in ResetPoints PROVE ResetCall(t)'
  <2>1. ResetCall(t) /\ calls'[t] = calls[t]
    BY <1>1, <1>5 DEF ResetInv, ResetCalls
  <2> QED
    BY <1>1, <1>5, <2>1 DEF ResetCall, ResetFrame
<1> QED
  BY <1>3, <1>4, <1>5 DEF ResetInv, ChangedRows, ResetCalls

-----------------------------------------------------------------------------
(* Types, and what the helpers do to calls and users. *)

\* The other calls rely on nothing that somebody else could have changed.
OtherCalls ==
  \A t \in Threads :
    /\ calls[t].at = "set active" => calls[t].user \in Ids
    /\ calls[t].at = "insert owner" => calls[t].name \in Names

NoCallsDown == ~up => \A t \in Threads : calls[t] = Idle

IInv == TypeOK /\ InviteInv /\ RequestInv /\ ResetInv /\ OtherCalls /\ NoCallsDown

Moves(t) == \A s \in Threads \ {t} : calls'[s] = calls[s]

LEMMA IdleType == Idle \in CallRows /\ Idle.at = "idle"
  BY DEF Idle, CallRows, Points

LEMMA ArriveType ==
  ASSUME TypeOK, NEW t \in Threads, NEW c \in CallRows, Arrive(t, c)
  PROVE  calls' \in [Threads -> CallRows] /\ calls'[t] = c /\ Moves(t) /\ calls[t].at = "idle"
  BY DEF TypeOK, CallRows, Arrive, Moves, At

LEMMA ReturnType ==
  ASSUME TypeOK, NEW t \in Threads, Return(t)
  PROVE  calls' \in [Threads -> CallRows] /\ calls'[t] = Idle /\ calls'[t].at = "idle" /\ Moves(t)
  BY IdleType DEF TypeOK, CallRows, Return, Moves

LEMMA GotoType ==
  ASSUME TypeOK, NEW t \in Threads, NEW point \in Points, Goto(t, point)
  PROVE  /\ calls' \in [Threads -> CallRows] /\ calls'[t].at = point /\ Moves(t)
         /\ calls'[t].name = calls[t].name /\ calls'[t].user = calls[t].user
         /\ calls'[t].ref = calls[t].ref /\ calls'[t].role = calls[t].role
         /\ calls'[t].on = calls[t].on
  BY DEF TypeOK, CallRows, Goto, Moves

\* A call that is elsewhere is not one of the points'.
LEMMA KeptElsewhere ==
  ASSUME NEW t \in Threads, NEW points, Moves(t), calls'[t].at \notin points
  PROVE  Kept(points)
  BY DEF Kept, Moves

LEMMA InsertType ==
  ASSUME TypeOK, NEW i \in Ids, NEW row \in UserRows, Insert(i, row)
  PROVE  /\ users' \in [Ids -> {Nothing} \cup UserRows]
         /\ i \notin Accounts /\ Accounts' = Accounts \cup {i} /\ users'[i] = row
         /\ \A j \in Ids \ {i} : users'[j] = users[j]
         /\ \A t \in Threads : calls[t].user # i
         /\ \A j \in Accounts : users[j].name # row.name
  BY AccountsAssumption DEF TypeOK, Insert, Fresh, Named, Accounts

LEMMA UpdateType ==
  ASSUME TypeOK, NEW i \in Ids, NEW row, users[i] # Nothing => row \in UserRows, Update(i, row)
  PROVE  /\ users' \in [Ids -> {Nothing} \cup UserRows]
         /\ Accounts' = Accounts
         /\ \A j \in Ids \ {i} : users'[j] = users[j]
         /\ users[i] # Nothing => users'[i] = row
  BY AccountsAssumption DEF TypeOK, Update, Accounts

\* A step that leaves the accounts alone is framed by the tables and the calls it keeps.
LEMMA NoUsersFrames ==
  ASSUME TypeOK, UNCHANGED users
  PROVE  /\ UNCHANGED invites /\ Kept(InvitePoints) => InviteFrame
         /\ UNCHANGED requests /\ Kept(Asking \cup Deciding) => RequestFrame
         /\ UNCHANGED resets /\ Kept(ResetPoints) => ResetFrame
<1>1. Accounts' = Accounts
  BY DEF Accounts
<1>2. \A i \in Accounts : SameRow(i) /\ users[i].pw \in Nat
  BY DEF SameRow, Accounts, TypeOK, UserRows
<1> QED
  BY <1>1, <1>2 DEF InviteFrame, RequestFrame, ResetFrame

\* So is one that adds an account of another origin.
LEMMA InsertFrames ==
  ASSUME TypeOK, NEW i \in Ids, NEW row \in UserRows, Insert(i, row), row.pw = 0,
         NEW t \in Threads, Moves(t)
  PROVE  /\ row.origin # "invite" /\ UNCHANGED invites /\ Kept(InvitePoints) => InviteFrame
         /\ row.origin \notin {"request", "seed"} /\ ~ row.shared
            /\ (row.origin = "owner" => row.role = Owner)
            /\ UNCHANGED requests /\ Kept(Asking \cup Deciding) => RequestFrame
         /\ UNCHANGED resets /\ Kept(ResetPoints) => ResetFrame
<1>1. /\ i \notin Accounts /\ Accounts' = Accounts \cup {i} /\ users'[i] = row
      /\ \A j \in Ids \ {i} : users'[j] = users[j]
      /\ \A s \in Threads : calls[s].user # i
  BY InsertType
<1>2. \A j \in Accounts : SameRow(j) /\ users'[j] = users[j] /\ users[j].pw \in Nat
  BY <1>1 DEF SameRow, Accounts, TypeOK, UserRows
<1> QED
  BY <1>1, <1>2 DEF InviteFrame, RequestFrame, ResetFrame

-----------------------------------------------------------------------------
(* Every step keeps the types, and moves no call but its own. *)

\* What the writes make of a row.
LEMMA InviteWrites ==
  ASSUME NEW v \in InviteRows, NEW n \in Names \cup {Nothing}, NEW s \in {"open", "used", "revoked"}
  PROVE  /\ [v EXCEPT !.state = s] \in InviteRows
         /\ [v EXCEPT !.state = s, !.by = n] \in InviteRows
  BY DEF InviteRows

LEMMA RequestWrites ==
  ASSUME NEW v \in RequestRows, NEW r \in Roles \cup {Nothing}
  PROVE  /\ [v EXCEPT !.status = "approved", !.granted = r] \in RequestRows
         /\ [v EXCEPT !.status = "rejected", !.user = Nothing] \in RequestRows
  BY DEF RequestRows

LEMMA ResetWrites ==
  ASSUME NEW v \in ResetRows, NEW s \in {"used", "revoked"}
  PROVE  [v EXCEPT !.state = s] \in ResetRows
  BY DEF ResetRows

LEMMA PasswordWrites ==
  ASSUME NEW u \in UserRows, NEW v, v = [u EXCEPT !.pw = @ + 1, !.shared = FALSE]
  PROVE  v \in UserRows
<1>1. u.pw + 1 \in Nat
  BY DEF UserRows
<1>2. ASSUME NEW n \in Nat PROVE [u EXCEPT !.pw = n, !.shared = FALSE] \in UserRows
  BY DEF UserRows
<1> QED
  BY <1>1, <1>2

LEMMA StepType ==
  ASSUME TypeOK, RequestInv, ResetInv, InviteInv, OtherCalls, NEW t \in Threads, Step(t)
  PROVE  TypeOK' /\ Moves(t) /\ up /\ up'
<1>0. /\ up \in BOOLEAN /\ demo \in BOOLEAN /\ starts \in Nat /\ token \in Nat
      /\ calls \in [Threads -> CallRows] /\ calls[t] \in CallRows
  BY DEF TypeOK
<1>1. up /\ Running
  BY DEF Step, AskOwner, InsertOwner, SpendToken, CreateInvite, RevokeInvite, AskToAccept, ClaimInvite,
         InsertInvited, GiveBack, RequestAccess, InsertRequester, InsertRequest, ReadPending, Approve,
         Grant, Reject, ReadRejected, DeleteRejected, ReadToActivate, ReadToDeactivate, SetActive,
         ReadToIssue, InsertReset, AskToReset, ClaimReset, ChangePassword, Arrive, At
<1> DEFINE Called(c) == c \in CallRows /\ Arrive(t, c)
<1>2. ASSUME UNCHANGED store, NEW c \in CallRows, Arrive(t, c) PROVE TypeOK' /\ Moves(t)
  BY <1>0, <1>1, <1>2, ArriveType DEF TypeOK, store, Running
<1>3. ASSUME AskOwner(t) PROVE TypeOK' /\ Moves(t)
  <2>1. PICK n \in Names : Arrive(t, [Idle EXCEPT !.at = "insert owner", !.name = n])
    BY <1>3 DEF AskOwner
  <2>2. [Idle EXCEPT !.at = "insert owner", !.name = n] \in CallRows
    BY DEF Idle, CallRows, Points
  <2> QED
    BY <1>2, <1>3, <2>1, <2>2 DEF AskOwner
<1>4. ASSUME InsertOwner(t) PROVE TypeOK' /\ Moves(t)
  <2>1. calls[t].name \in Names
    BY <1>4 DEF InsertOwner, At, OtherCalls
  <2>2. CASE /\ \E i \in Ids : Insert(i, Row(calls[t].name, Owner, TRUE, "owner", Nothing, FALSE))
             /\ Goto(t, "spend token")
    <3>1. Row(calls[t].name, Owner, TRUE, "owner", Nothing, FALSE) \in UserRows
      BY <2>1, AccountsAssumption DEF Row, UserRows
    <3>2. users' \in [Ids -> {Nothing} \cup UserRows]
      BY <2>2, <3>1, InsertType
    <3>3. calls' \in [Threads -> CallRows] /\ Moves(t)
      BY <2>2, GotoType DEF Points
    <3> QED
      BY <1>1, <1>4, <3>2, <3>3 DEF TypeOK, InsertOwner, Running
  <2>3. CASE Return(t) /\ UNCHANGED users
    BY <1>1, <1>4, <2>3, ReturnType DEF TypeOK, InsertOwner, Running
  <2> QED
    BY <1>4, <2>2, <2>3 DEF InsertOwner
<1>5. ASSUME SpendToken(t) PROVE TypeOK' /\ Moves(t)
  BY <1>1, <1>5, ReturnType DEF TypeOK, SpendToken, Running
<1>6. ASSUME CreateInvite(t) \/ RevokeInvite(t) PROVE TypeOK' /\ Moves(t)
  <2>1. CASE CreateInvite(t)
    <3>1. \A r \in Roles : [state |-> "open", role |-> r, by |-> Nothing] \in InviteRows
      BY DEF InviteRows
    <3> QED
      BY <1>1, <2>1, <3>1 DEF TypeOK, CreateInvite, Running, Moves
  <2>2. CASE RevokeInvite(t)
    <3>1. PICK c \in Invites : invites' = [invites EXCEPT ![c].state = "revoked"]
      BY <2>2 DEF RevokeInvite
    <3>2. [invites[c] EXCEPT !.state = "revoked"] \in InviteRows
      BY InviteWrites DEF TypeOK
    <3> QED
      BY <1>1, <2>2, <3>1, <3>2 DEF TypeOK, RevokeInvite, Running, Moves
  <2> QED
    BY <1>6, <2>1, <2>2
<1>7. ASSUME AskToAccept(t) PROVE TypeOK' /\ Moves(t)
  <2>1. PICK c \in Invites, n \in Names :
          Arrive(t, [Idle EXCEPT !.at = "claim invite", !.name = n, !.ref = c, !.role = invites[c].role])
    BY <1>7 DEF AskToAccept
  <2>2. invites[c].role \in Roles \cup {Nothing}
    BY DEF TypeOK, InviteRows
  <2>3. [Idle EXCEPT !.at = "claim invite", !.name = n, !.ref = c, !.role = invites[c].role] \in CallRows
    BY <2>2 DEF Idle, CallRows, Points
  <2> QED
    BY <1>2, <1>7, <2>1, <2>3 DEF AskToAccept
<1>8. ASSUME ClaimInvite(t) PROVE TypeOK' /\ Moves(t)
  <2>1. calls[t].name \in Names /\ calls[t].ref \in Invites
    BY <1>8 DEF ClaimInvite, At, InviteInv, InviteCalls, InvitePoints, ClaimingCall
  <2>2. calls' \in [Threads -> CallRows] /\ Moves(t)
    BY <1>8, GotoType, ReturnType DEF ClaimInvite, Points
  <2>3. invites' \in [Invites -> InviteRows]
    <3>1. [invites[calls[t].ref] EXCEPT !.state = "used", !.by = calls[t].name] \in InviteRows
      BY <2>1, InviteWrites DEF TypeOK
    <3> QED
      BY <1>8, <2>1, <3>1 DEF ClaimInvite, TypeOK
  <2> QED
    BY <1>1, <1>8, <2>2, <2>3 DEF TypeOK, ClaimInvite, Running
<1>9. ASSUME InsertInvited(t) PROVE TypeOK' /\ Moves(t)
  <2>1. calls[t].name \in Names /\ calls[t].ref \in Invites /\ calls[t].role \in Roles
    BY <1>9 DEF InsertInvited, At, InviteInv, InviteCalls, InvitePoints, ClaimingCall
  <2>2. Row(calls[t].name, calls[t].role, TRUE, "invite", calls[t].ref, FALSE) \in UserRows
    BY <2>1 DEF Row, UserRows
  <2>3. users' \in [Ids -> {Nothing} \cup UserRows]
    BY <1>9, <2>2, InsertType DEF InsertInvited
  <2> QED
    BY <1>1, <1>9, <2>3, ReturnType DEF TypeOK, InsertInvited, Running
<1>10. ASSUME GiveBack(t) PROVE TypeOK' /\ Moves(t)
  <2>1. invites' \in [Invites -> InviteRows]
    <3>1. calls[t].ref \in Invites
      BY <1>10 DEF GiveBack, At, InviteInv, InviteCalls, InvitePoints, ClaimingCall
    <3>2. [invites[calls[t].ref] EXCEPT !.state = "open", !.by = Nothing] \in InviteRows
      BY <3>1, InviteWrites DEF TypeOK
    <3> QED
      BY <1>10, <3>1, <3>2 DEF GiveBack, TypeOK
  <2> QED
    BY <1>1, <1>10, <2>1, ReturnType DEF TypeOK, GiveBack, Running
<1>11. ASSUME RequestAccess(t) PROVE TypeOK' /\ Moves(t)
  <2>1. PICK n \in Names, r \in Roles, q \in Requests :
          Arrive(t, [Idle EXCEPT !.at = "insert requester", !.name = n, !.role = r, !.ref = q])
    BY <1>11 DEF RequestAccess
  <2>2. [Idle EXCEPT !.at = "insert requester", !.name = n, !.role = r, !.ref = q] \in CallRows
    BY DEF Idle, CallRows, Points
  <2> QED
    BY <1>2, <1>11, <2>1, <2>2 DEF RequestAccess
<1>12. ASSUME InsertRequester(t) PROVE TypeOK' /\ Moves(t)
  <2>1. calls[t].name \in Names /\ calls[t].ref \in Requests
    BY <1>12 DEF InsertRequester, At, RequestInv, RequestCalls, Asking, AskingCall
  <2>2. RequesterRow(calls[t]) \in UserRows
    BY <2>1, AccountsAssumption DEF RequesterRow, Row, UserRows
  <2>3. ASSUME NEW i \in Ids, Insert(i, RequesterRow(calls[t])),
               calls' = [calls EXCEPT ![t].at = "insert request", ![t].user = i]
        PROVE  TypeOK' /\ Moves(t)
    <3>1. users' \in [Ids -> {Nothing} \cup UserRows]
      BY <2>2, <2>3, InsertType
    <3>2. calls' \in [Threads -> CallRows] /\ Moves(t)
      BY <1>0, <2>3 DEF Moves, CallRows, Points
    <3> QED
      BY <1>1, <1>12, <3>1, <3>2 DEF TypeOK, InsertRequester, Running
  <2>4. CASE Return(t) /\ UNCHANGED users
    BY <1>1, <1>12, <2>4, ReturnType DEF TypeOK, InsertRequester, Running
  <2> QED
    BY <1>12, <2>3, <2>4 DEF InsertRequester
<1>13. ASSUME InsertRequest(t) PROVE TypeOK' /\ Moves(t)
  <2>1. calls[t].ref \in Requests /\ calls[t].user \in Ids
    BY <1>13 DEF InsertRequest, At, RequestInv, RequestCalls, Asking, AskingCall
  <2>2. [status |-> "pending", user |-> calls[t].user, granted |-> Nothing] \in RequestRows
    BY <2>1 DEF RequestRows
  <2> QED
    BY <1>1, <1>13, <2>1, <2>2, ReturnType DEF TypeOK, InsertRequest, Running
<1>14. ASSUME ReadPending(t) PROVE TypeOK' /\ Moves(t)
  <2>1. PICK q \in Requests :
          LET call == [Idle EXCEPT !.ref = q, !.user = requests[q].user]
          IN  \/ \E r \in Roles : Arrive(t, [call EXCEPT !.at = "approve", !.role = r])
              \/ Arrive(t, [call EXCEPT !.at = "reject"])
    BY <1>14 DEF ReadPending
  <2>2. requests[q].user \in Ids \cup {Nothing}
    BY DEF TypeOK, RequestRows
  <2>3. ASSUME NEW r \in Roles
        PROVE  /\ [[Idle EXCEPT !.ref = q, !.user = requests[q].user]
                     EXCEPT !.at = "approve", !.role = r] \in CallRows
               /\ [[Idle EXCEPT !.ref = q, !.user = requests[q].user] EXCEPT !.at = "reject"] \in CallRows
    BY <2>2 DEF Idle, CallRows, Points
  <2>4. [[Idle EXCEPT !.ref = q, !.user = requests[q].user] EXCEPT !.at = "reject"] \in CallRows
    BY <2>2 DEF Idle, CallRows, Points
  <2> QED
    BY <1>2, <1>14, <2>1, <2>3, <2>4 DEF ReadPending
<1>15. ASSUME Approve(t) PROVE TypeOK' /\ Moves(t)
  <2>1. calls[t].role \in Roles \cup {Nothing}
    BY <1>0 DEF CallRows
  <2>2. requests' \in [Requests -> RequestRows]
    <3>1. calls[t].ref \in Requests
      BY <1>15 DEF Approve, At, RequestInv, RequestCalls, Deciding, DecidingCall
    <3>2. [requests[calls[t].ref] EXCEPT !.status = "approved", !.granted = calls[t].role] \in RequestRows
      BY <2>1, <3>1, RequestWrites DEF TypeOK
    <3> QED
      BY <1>15, <3>1, <3>2 DEF Approve, TypeOK
  <2>3. calls' \in [Threads -> CallRows] /\ Moves(t)
    BY <1>15, GotoType, ReturnType DEF Approve, Points
  <2> QED
    BY <1>1, <1>15, <2>2, <2>3 DEF TypeOK, Approve, Running
<1>16. ASSUME Grant(t) PROVE TypeOK' /\ Moves(t)
  <2>1. calls[t].user \in Ids /\ calls[t].role \in Roles
    BY <1>16 DEF Grant, At, RequestInv, RequestCalls, Deciding, DecidingCall
  <2>2. users[calls[t].user] \in UserRows =>
          [users[calls[t].user] EXCEPT !.role = calls[t].role, !.active = TRUE] \in UserRows
    BY <2>1 DEF UserRows
  <2>3. users' \in [Ids -> {Nothing} \cup UserRows]
    BY <1>16, <2>1, <2>2, UpdateType DEF Grant, TypeOK
  <2> QED
    BY <1>1, <1>16, <2>3, ReturnType DEF TypeOK, Grant, Running
<1>17. ASSUME Reject(t) PROVE TypeOK' /\ Moves(t)
  <2>1. requests' \in [Requests -> RequestRows]
    <3>1. calls[t].ref \in Requests
      BY <1>17 DEF Reject, At, RequestInv, RequestCalls, Deciding, DecidingCall
    <3>2. [requests[calls[t].ref] EXCEPT !.status = "rejected", !.user = Nothing] \in RequestRows
      BY <3>1, RequestWrites DEF TypeOK
    <3> QED
      BY <1>17, <3>1, <3>2 DEF Reject, TypeOK
  <2>2. calls' \in [Threads -> CallRows] /\ Moves(t)
    BY <1>17, GotoType, ReturnType DEF Reject, Points
  <2> QED
    BY <1>1, <1>17, <2>1, <2>2 DEF TypeOK, Reject, Running
<1>18. ASSUME ReadRejected(t) PROVE TypeOK' /\ Moves(t)
  <2>1. calls' \in [Threads -> CallRows] /\ Moves(t)
    BY <1>18, GotoType, ReturnType DEF ReadRejected, Points
  <2> QED
    BY <1>1, <1>18, <2>1 DEF TypeOK, ReadRejected, Running, store
<1>19. ASSUME DeleteRejected(t) PROVE TypeOK' /\ Moves(t)
  BY <1>1, <1>19, ReturnType DEF TypeOK, DeleteRejected, Running
<1>20. ASSUME ReadToActivate(t) \/ ReadToDeactivate(t) PROVE TypeOK' /\ Moves(t)
  <2>1. PICK i \in Accounts, f \in BOOLEAN :
          Arrive(t, [Idle EXCEPT !.at = "set active", !.user = i, !.on = f])
    BY <1>20 DEF ReadToActivate, ReadToDeactivate
  <2>2. [Idle EXCEPT !.at = "set active", !.user = i, !.on = f] \in CallRows
    BY DEF Idle, CallRows, Points, Accounts
  <2> QED
    BY <1>2, <1>20, <2>1, <2>2 DEF ReadToActivate, ReadToDeactivate
<1>21. ASSUME SetActive(t) PROVE TypeOK' /\ Moves(t)
  <2>1. calls[t].user \in Ids /\ calls[t].on \in BOOLEAN
    BY <1>0, <1>21 DEF SetActive, At, OtherCalls, CallRows
  <2> DEFINE u == users[calls[t].user]
             by == [u EXCEPT !.active = calls[t].on,
                             !.byHand = @ \/ (calls[t].on /\ u.origin = "request")]
  <2>2. u \in UserRows => by \in UserRows
    BY <2>1 DEF UserRows
  <2>3. Update(calls[t].user, by)
    BY <1>21 DEF SetActive
  <2>4. u # Nothing => u \in UserRows
    BY <2>1 DEF TypeOK
  <2>5. users' \in [Ids -> {Nothing} \cup UserRows]
    BY <2>1, <2>2, <2>3, <2>4, UpdateType
  <2> QED
    BY <1>1, <1>21, <2>5, ReturnType DEF TypeOK, SetActive, Running
<1>22. ASSUME ReadToIssue(t) PROVE TypeOK' /\ Moves(t)
  <2>1. PICK i \in Active, c \in Resets :
          Arrive(t, [Idle EXCEPT !.at = "insert reset", !.user = i, !.ref = c])
    BY <1>22 DEF ReadToIssue
  <2>2. [Idle EXCEPT !.at = "insert reset", !.user = i, !.ref = c] \in CallRows
    BY DEF Idle, CallRows, Points, Active, Accounts
  <2> QED
    BY <1>2, <1>22, <2>1, <2>2 DEF ReadToIssue
<1>23. ASSUME InsertReset(t) PROVE TypeOK' /\ Moves(t)
  <2>1. calls[t].user \in Ids
    BY <1>23 DEF InsertReset, At, ResetInv, ResetCalls, ResetPoints, ResetCall
  <2>2. resets' \in [Resets -> ResetRows]
    <3>1. \A d \in Resets : [resets[d] EXCEPT !.state = "revoked"] \in ResetRows
      BY ResetWrites DEF TypeOK
    <3>2. [state |-> "open", user |-> calls[t].user] \in ResetRows
      BY <2>1 DEF ResetRows
    <3> QED
      BY <1>23, <3>1, <3>2 DEF InsertReset, WithReset, TypeOK
  <2> QED
    BY <1>1, <1>23, <2>2, ReturnType DEF TypeOK, InsertReset, Running
<1>24. ASSUME AskToReset(t) PROVE TypeOK' /\ Moves(t)
  <2>1. PICK c \in Resets :
          Arrive(t, [Idle EXCEPT !.at = "claim reset", !.user = resets[c].user, !.ref = c])
    BY <1>24 DEF AskToReset
  <2>2. resets[c].user \in Ids \cup {Nothing}
    BY DEF TypeOK, ResetRows
  <2>3. [Idle EXCEPT !.at = "claim reset", !.user = resets[c].user, !.ref = c] \in CallRows
    BY <2>2 DEF Idle, CallRows, Points
  <2> QED
    BY <1>2, <1>24, <2>1, <2>3 DEF AskToReset
<1>25. ASSUME ClaimReset(t) PROVE TypeOK' /\ Moves(t)
  <2>1. resets' \in [Resets -> ResetRows]
    <3>1. calls[t].ref \in Resets
      BY <1>25 DEF ClaimReset, At, ResetInv, ResetCalls, ResetPoints, ResetCall
    <3>2. [resets[calls[t].ref] EXCEPT !.state = "used"] \in ResetRows
      BY <3>1, ResetWrites DEF TypeOK
    <3> QED
      BY <1>25, <3>1, <3>2 DEF ClaimReset, TypeOK
  <2>2. calls' \in [Threads -> CallRows] /\ Moves(t)
    BY <1>25, GotoType, ReturnType DEF ClaimReset, Points
  <2> QED
    BY <1>1, <1>25, <2>1, <2>2 DEF TypeOK, ClaimReset, Running
<1>26. ASSUME ChangePassword(t) PROVE TypeOK' /\ Moves(t)
  <2>1. calls[t].user \in Ids
    BY <1>26 DEF ChangePassword, At, ResetInv, ResetCalls, ResetPoints, ResetCall
  <2> DEFINE u == users[calls[t].user]
             by == [u EXCEPT !.pw = @ + 1, !.shared = FALSE]
  <2>2. u \in UserRows => by \in UserRows
    BY PasswordWrites
  <2>3. Update(calls[t].user, by)
    BY <1>26 DEF ChangePassword
  <2>4. u # Nothing => u \in UserRows
    BY <2>1 DEF TypeOK
  <2>5. users' \in [Ids -> {Nothing} \cup UserRows]
    BY <2>1, <2>2, <2>3, <2>4, UpdateType
  <2> QED
    BY <1>1, <1>26, <2>5, ReturnType DEF TypeOK, ChangePassword, Running
<1> QED
  BY <1>1, <1>3, <1>4, <1>5, <1>6, <1>7, <1>8, <1>9, <1>10, <1>11, <1>12, <1>13, <1>14, <1>15, <1>16,
     <1>17, <1>18, <1>19, <1>20, <1>21, <1>22, <1>23, <1>24, <1>25, <1>26 DEF Step, Running

-----------------------------------------------------------------------------
(* Where a step leaves its own call, and which accounts it writes. *)

LEMMA Landing ==
  ASSUME TypeOK, NEW t \in Threads
  PROVE  /\ AskOwner(t) => calls'[t].at = "insert owner"
         /\ InsertOwner(t) => calls'[t].at \in {"spend token", "idle"}
         /\ AskToAccept(t) => calls'[t].at = "claim invite"
         /\ ClaimInvite(t) => calls'[t].at \in {"insert invited", "idle"}
         /\ RequestAccess(t) => calls'[t].at = "insert requester"
         /\ InsertRequester(t) => calls'[t].at \in {"insert request", "idle"}
         /\ ReadPending(t) => calls'[t].at \in {"approve", "reject"}
         /\ Approve(t) => calls'[t].at \in {"grant", "idle"}
         /\ Reject(t) => calls'[t].at \in {"read rejected", "idle"}
         /\ ReadRejected(t) => calls'[t].at \in {"delete rejected", "idle"}
         /\ ReadToActivate(t) \/ ReadToDeactivate(t) => calls'[t].at = "set active"
         /\ ReadToIssue(t) => calls'[t].at = "insert reset"
         /\ AskToReset(t) => calls'[t].at = "claim reset"
         /\ ClaimReset(t) => calls'[t].at \in {"change password", "idle"}
         /\ \/ SpendToken(t) \/ InsertInvited(t) \/ GiveBack(t) \/ InsertRequest(t) \/ Grant(t)
            \/ DeleteRejected(t) \/ SetActive(t) \/ InsertReset(t) \/ ChangePassword(t)
            => calls'[t].at = "idle"
         /\ CreateInvite(t) \/ RevokeInvite(t) => UNCHANGED calls
<1> USE DEF TypeOK
<1>1. AskOwner(t) => calls'[t].at = "insert owner"
  BY DEF AskOwner, Arrive, Idle
<1>2. InsertOwner(t) => calls'[t].at \in {"spend token", "idle"}
  BY GotoType, ReturnType DEF InsertOwner, Points
<1>3. AskToAccept(t) => calls'[t].at = "claim invite"
  BY DEF AskToAccept, Arrive, Idle
<1>4. ClaimInvite(t) => calls'[t].at \in {"insert invited", "idle"}
  BY GotoType, ReturnType DEF ClaimInvite, Points
<1>5. RequestAccess(t) => calls'[t].at = "insert requester"
  BY DEF RequestAccess, Arrive, Idle
<1>6. InsertRequester(t) => calls'[t].at \in {"insert request", "idle"}
  <2>1. calls[t] \in CallRows
    OBVIOUS
  <2> QED
    BY <2>1, ReturnType, ZenonT(30) DEF InsertRequester, CallRows
<1>7. ReadPending(t) => calls'[t].at \in {"approve", "reject"}
  BY DEF ReadPending, Arrive, Idle
<1>8. Approve(t) => calls'[t].at \in {"grant", "idle"}
  BY GotoType, ReturnType DEF Approve, Points
<1>9. Reject(t) => calls'[t].at \in {"read rejected", "idle"}
  BY GotoType, ReturnType DEF Reject, Points
<1>10. ReadRejected(t) => calls'[t].at \in {"delete rejected", "idle"}
  BY GotoType, ReturnType DEF ReadRejected, Points
<1>11. ReadToActivate(t) \/ ReadToDeactivate(t) => calls'[t].at = "set active"
  BY DEF ReadToActivate, ReadToDeactivate, Arrive, Idle
<1>12. ReadToIssue(t) => calls'[t].at = "insert reset"
  BY DEF ReadToIssue, Arrive, Idle
<1>13. AskToReset(t) => calls'[t].at = "claim reset"
  BY DEF AskToReset, Arrive, Idle
<1>14. ClaimReset(t) => calls'[t].at \in {"change password", "idle"}
  BY GotoType, ReturnType DEF ClaimReset, Points
<1>15. \/ SpendToken(t) \/ InsertInvited(t) \/ GiveBack(t) \/ InsertRequest(t) \/ Grant(t)
       \/ DeleteRejected(t) \/ SetActive(t) \/ InsertReset(t) \/ ChangePassword(t)
       => calls'[t].at = "idle"
  BY ReturnType DEF SpendToken, InsertInvited, GiveBack, InsertRequest, Grant, DeleteRejected,
                    SetActive, InsertReset, ChangePassword
<1>16. CreateInvite(t) \/ RevokeInvite(t) => UNCHANGED calls
  BY DEF CreateInvite, RevokeInvite
<1> QED
  BY <1>1, <1>2, <1>3, <1>4, <1>5, <1>6, <1>7, <1>8, <1>9, <1>10, <1>11, <1>12, <1>13, <1>14, <1>15,
     <1>16

\* The steps that write to the accounts.
Writing(t) ==
  \/ InsertOwner(t) \/ InsertInvited(t) \/ InsertRequester(t)
  \/ Grant(t) \/ DeleteRejected(t) \/ SetActive(t) \/ ChangePassword(t)

LEMMA OnlyWriting ==
  ASSUME NEW t \in Threads, Step(t), ~ Writing(t)
  PROVE  UNCHANGED users
  BY DEF Step, Writing, AskOwner, SpendToken, CreateInvite, RevokeInvite, AskToAccept, ClaimInvite,
         GiveBack, RequestAccess, InsertRequest, ReadPending, Approve, Reject, ReadRejected,
         ReadToActivate, ReadToDeactivate, ReadToIssue, InsertReset, AskToReset, ClaimReset, store


LEMMA NewPasswordRow ==
  ASSUME NEW u \in UserRows, NEW v, v = [u EXCEPT !.pw = @ + 1, !.shared = FALSE]
  PROVE  /\ v # Nothing /\ v.name = u.name /\ v.origin = u.origin /\ v.code = u.code
         /\ v.role = u.role /\ v.active = u.active /\ v.pw = u.pw + 1
         /\ (v.shared => u.shared) /\ (u.byHand => v.byHand)
<1>1. v \in UserRows
  BY PasswordWrites
<1>2. ~ v.shared /\ v.byHand = u.byHand /\ v.active = u.active
  BY DEF UserRows
<1> QED
  BY <1>1, <1>2, AccountsAssumption DEF UserRows

\* Those that change a row change neither whose it is nor how it came to be,
\* and only an approval changes what it may do.
LEMMA Updates ==
  ASSUME TypeOK, RequestInv, ResetInv, OtherCalls, NEW t \in Threads
  PROVE  /\ Grant(t) \/ SetActive(t) \/ ChangePassword(t) =>
              /\ calls[t].user \in Ids /\ Accounts' = Accounts
              /\ \A i \in Accounts : SameRow(i)
              /\ \A i \in Accounts : users'[i].shared => users[i].shared
              /\ \A i \in Accounts : users[i].byHand => users'[i].byHand
              /\ \A i \in Ids \ {calls[t].user} : users'[i] = users[i]
         /\ SetActive(t) \/ ChangePassword(t) => \A i \in Accounts : users'[i].role = users[i].role
         /\ Grant(t) \/ SetActive(t) => \A i \in Accounts : users'[i].pw = users[i].pw
         /\ SetActive(t) => \A i \in Accounts :
              users'[i].active /\ users[i].origin = "request" => users[i].active \/ users'[i].byHand
         /\ ChangePassword(t) => \A i \in Accounts :
              /\ users'[i].active = users[i].active
              /\ i = calls[t].user => users'[i].pw = users[i].pw + 1
         /\ Grant(t) => \A i \in Accounts : i = calls[t].user => users'[i].role = calls[t].role
<1>1. ASSUME Grant(t)
      PROVE  /\ calls[t].user \in Ids /\ Accounts' = Accounts
             /\ \A i \in Ids \ {calls[t].user} : users'[i] = users[i]
             /\ users[calls[t].user] # Nothing =>
                  /\ SameRow(calls[t].user)
                  /\ users'[calls[t].user].shared => users[calls[t].user].shared
                  /\ users[calls[t].user].byHand => users'[calls[t].user].byHand
                  /\ users'[calls[t].user].pw = users[calls[t].user].pw
                  /\ users'[calls[t].user].role = calls[t].role
  <2> DEFINE u == users[calls[t].user]
             v == [u EXCEPT !.role = calls[t].role, !.active = TRUE]
  <2>1. calls[t].user \in Ids /\ calls[t].role \in Roles
    BY <1>1 DEF Grant, At, RequestInv, RequestCalls, Deciding, DecidingCall
  <2>2. u # Nothing => u \in UserRows
    BY <2>1 DEF TypeOK
  <2>3. u \in UserRows => v \in UserRows
    BY <2>1 DEF UserRows
  <2>4. Update(calls[t].user, v)
    BY <1>1 DEF Grant
  <2>5. /\ Accounts' = Accounts /\ \A i \in Ids \ {calls[t].user} : users'[i] = users[i]
        /\ u # Nothing => users'[calls[t].user] = v
    BY <2>1, <2>2, <2>3, <2>4, UpdateType
  <2>6. u # Nothing => /\ v # Nothing /\ v.name = u.name /\ v.origin = u.origin /\ v.code = u.code
                       /\ v.pw = u.pw /\ v.role = calls[t].role
                       /\ (v.shared => u.shared) /\ (u.byHand => v.byHand)
    <3> SUFFICES ASSUME u \in UserRows, u # Nothing
                 PROVE  /\ v # Nothing /\ v.name = u.name /\ v.origin = u.origin /\ v.code = u.code
                        /\ v.pw = u.pw /\ v.role = calls[t].role
                        /\ (v.shared => u.shared) /\ (u.byHand => v.byHand)
      BY <2>2, Zenon
    <3>1. v \in UserRows /\ v.shared = u.shared /\ v.byHand = u.byHand
      BY <2>1 DEF UserRows
    <3> QED
      BY <2>1, <3>1, AccountsAssumption DEF UserRows
  <2> HIDE DEF v
  <2> QED
    BY <2>1, <2>5, <2>6 DEF SameRow
<1>2. ASSUME SetActive(t)
      PROVE  /\ calls[t].user \in Ids /\ Accounts' = Accounts
             /\ \A i \in Ids \ {calls[t].user} : users'[i] = users[i]
             /\ users[calls[t].user] # Nothing =>
                  /\ SameRow(calls[t].user)
                  /\ users'[calls[t].user].shared => users[calls[t].user].shared
                  /\ users[calls[t].user].byHand => users'[calls[t].user].byHand
                  /\ users'[calls[t].user].pw = users[calls[t].user].pw
                  /\ users'[calls[t].user].role = users[calls[t].user].role
                  /\ users'[calls[t].user].active /\ users[calls[t].user].origin = "request" =>
                       users[calls[t].user].active \/ users'[calls[t].user].byHand
  <2> DEFINE u == users[calls[t].user]
             v == [u EXCEPT !.active = calls[t].on,
                            !.byHand = @ \/ (calls[t].on /\ u.origin = "request")]
  <2>1. calls[t].user \in Ids /\ calls[t].on \in BOOLEAN
    BY <1>2 DEF SetActive, At, OtherCalls, TypeOK, CallRows
  <2>2. u # Nothing => u \in UserRows
    BY <2>1 DEF TypeOK
  <2>3. u \in UserRows => v \in UserRows
    BY <2>1 DEF UserRows
  <2>4. Update(calls[t].user, v)
    BY <1>2 DEF SetActive
  <2>5. /\ Accounts' = Accounts /\ \A i \in Ids \ {calls[t].user} : users'[i] = users[i]
        /\ u # Nothing => users'[calls[t].user] = v
    BY <2>1, <2>2, <2>3, <2>4, UpdateType
  <2>6. u # Nothing => /\ v # Nothing /\ v.name = u.name /\ v.origin = u.origin /\ v.code = u.code
                       /\ v.pw = u.pw /\ v.role = u.role
                       /\ (v.shared => u.shared) /\ (u.byHand => v.byHand)
                       /\ v.active /\ u.origin = "request" => u.active \/ v.byHand
    <3> SUFFICES ASSUME u \in UserRows, u # Nothing
                 PROVE  /\ v # Nothing /\ v.name = u.name /\ v.origin = u.origin /\ v.code = u.code
                        /\ v.pw = u.pw /\ v.role = u.role
                        /\ (v.shared => u.shared) /\ (u.byHand => v.byHand)
                        /\ v.active /\ u.origin = "request" => u.active \/ v.byHand
      BY <2>2, Zenon
    <3>1. v \in UserRows /\ v.shared = u.shared
      BY <2>1 DEF UserRows
    <3>2. (u.byHand => v.byHand) /\ (v.active /\ u.origin = "request" => v.byHand)
      BY <2>1 DEF UserRows
    <3> QED
      BY <2>1, <3>1, <3>2, AccountsAssumption DEF UserRows
  <2> HIDE DEF v
  <2> QED
    BY <2>1, <2>5, <2>6 DEF SameRow
<1>3. ASSUME ChangePassword(t)
      PROVE  /\ calls[t].user \in Ids /\ Accounts' = Accounts
             /\ \A i \in Ids \ {calls[t].user} : users'[i] = users[i]
             /\ users[calls[t].user] # Nothing =>
                  /\ SameRow(calls[t].user)
                  /\ users'[calls[t].user].shared => users[calls[t].user].shared
                  /\ users[calls[t].user].byHand => users'[calls[t].user].byHand
                  /\ users'[calls[t].user].pw = users[calls[t].user].pw + 1
                  /\ users'[calls[t].user].role = users[calls[t].user].role
                  /\ users'[calls[t].user].active = users[calls[t].user].active
  <2> DEFINE u == users[calls[t].user]
             v == [u EXCEPT !.pw = @ + 1, !.shared = FALSE]
  <2>1. calls[t].user \in Ids
    BY <1>3 DEF ChangePassword, At, ResetInv, ResetCalls, ResetPoints, ResetCall
  <2>2. u # Nothing => u \in UserRows
    BY <2>1 DEF TypeOK
  <2>3. u \in UserRows => v \in UserRows
    BY PasswordWrites
  <2>4. Update(calls[t].user, v)
    BY <1>3 DEF ChangePassword
  <2>5. /\ Accounts' = Accounts /\ \A i \in Ids \ {calls[t].user} : users'[i] = users[i]
        /\ u # Nothing => users'[calls[t].user] = v
    BY <2>1, <2>2, <2>3, <2>4, UpdateType
  <2>6. u # Nothing => /\ v # Nothing /\ v.name = u.name /\ v.origin = u.origin /\ v.code = u.code
                       /\ v.pw = u.pw + 1 /\ v.role = u.role /\ v.active = u.active
                       /\ (v.shared => u.shared) /\ (u.byHand => v.byHand)
    <3>1. v = [u EXCEPT !.pw = @ + 1, !.shared = FALSE]
      OBVIOUS
    <3> HIDE DEF u, v
    <3> QED
      BY <2>2, <3>1, NewPasswordRow, Zenon
  <2> HIDE DEF v
  <2> QED
    BY <2>1, <2>5, <2>6 DEF SameRow
<1> QED
  BY <1>1, <1>2, <1>3 DEF Accounts, SameRow

\* A rejected account is the only one a step takes away.
LEMMA Deletion ==
  ASSUME TypeOK, RequestInv, NEW t \in Threads, DeleteRejected(t)
  PROVE  /\ calls[t].user \in Ids /\ Accounts' = Accounts \ {calls[t].user}
         /\ \A i \in Ids \ {calls[t].user} : users'[i] = users[i]
         /\ users'[calls[t].user] = Nothing
<1>1. calls[t].user \in Ids
  BY DEF DeleteRejected, At, RequestInv, RequestCalls, Deciding, DecidingCall
<1> QED
  BY <1>1 DEF DeleteRejected, TypeOK, Accounts

-----------------------------------------------------------------------------
(* Every step keeps what is known of the invitations. *)

\* The administrators' writes to the table touch no code that is spent.
LEMMA InviteTableWrites ==
  ASSUME InviteInv, UNCHANGED users, Kept(InvitePoints),
         \A c \in Invites : invites[c].state # "none" =>
           invites'[c].state # "none" /\ invites'[c].role = invites[c].role,
         \A c \in Invites : invites[c].state = "used" => invites'[c] = invites[c],
         IssuedWithRole'
  PROVE  InviteInv'
<1>1. Accounts' = Accounts
  BY DEF Accounts
<1>2. \A i \in Accounts : users[i].origin = "invite" =>
        users[i].code \in Invites /\ invites[users[i].code].state = "used"
  BY DEF InviteInv, InvitedOnce, InvitedRows
<1>3. InvitedOnce' /\ InvitedRows'
  BY <1>1, <1>2 DEF InviteInv, InvitedOnce, InvitedRows
<1>4. ASSUME NEW t \in Threads, calls'[t].at \in InvitePoints
      PROVE  ClaimingCall(t)' /\ (calls'[t].at = "insert invited" => InvitedCall(t)')
  <2>1. \A s \in Threads : calls'[s].at \in InvitePoints => calls'[s] = calls[s]
    BY DEF Kept
  <2>2. ClaimingCall(t)
    BY <1>4, <2>1 DEF InviteInv, InviteCalls
  <2>3. ClaimingCall(t)'
    BY <1>4, <2>1, <2>2 DEF ClaimingCall
  <2>4. CASE calls'[t].at = "insert invited"
    <3>1. InvitedCall(t)
      BY <1>4, <2>1, <2>4 DEF InviteInv, InviteCalls
    <3>2. \A s \in Threads : calls'[s].at = "insert invited" => calls'[s] = calls[s]
      BY <2>1 DEF InvitePoints
    <3> QED
      BY <1>1, <1>4, <2>1, <2>2, <2>3, <3>1, <3>2 DEF InvitedCall, ClaimingCall
  <2> QED
    BY <2>3, <2>4
<1>5. InviteCalls'
  BY <1>4 DEF InviteCalls, InvitePoints
<1> QED
  BY <1>3, <1>5 DEF InviteInv

LEMMA StepInvites ==
  ASSUME TypeOK, InviteInv, RequestInv, ResetInv, OtherCalls, NEW t \in Threads, Step(t),
         TypeOK', Moves(t)
  PROVE  InviteInv'
<1>1. CASE \/ AskOwner(t) \/ SpendToken(t) \/ RequestAccess(t) \/ InsertRequest(t) \/ ReadPending(t)
           \/ Approve(t) \/ Reject(t) \/ ReadRejected(t) \/ ReadToActivate(t) \/ ReadToDeactivate(t)
           \/ ReadToIssue(t) \/ InsertReset(t) \/ AskToReset(t) \/ ClaimReset(t)
  <2>1. UNCHANGED <<users, invites>>
    BY <1>1 DEF AskOwner, SpendToken, RequestAccess, InsertRequest, ReadPending, Approve, Reject,
         ReadRejected, ReadToActivate, ReadToDeactivate, ReadToIssue, InsertReset, AskToReset,
         ClaimReset, store
  <2>2. calls'[t].at \notin InvitePoints
    BY <1>1, Landing DEF InvitePoints
  <2> QED
    BY <2>1, <2>2, KeptElsewhere, NoUsersFrames, InviteFrameHolds
<1>2. CASE Grant(t) \/ SetActive(t) \/ ChangePassword(t) \/ DeleteRejected(t)
  <2>1. Kept(InvitePoints)
    BY <1>2, Landing, KeptElsewhere DEF InvitePoints
  <2>2. UNCHANGED invites
    BY <1>2 DEF Grant, SetActive, ChangePassword, DeleteRejected
  <2>3. ASSUME NEW i \in Accounts', users'[i].origin = "invite"
        PROVE  SameRow(i) /\ users'[i].role = users[i].role
    <3>1. CASE Grant(t)
      <4>1. CameBy(calls[t].user, calls[t].ref)
        BY <3>1 DEF Grant, At, RequestInv, RequestCalls, Deciding, DecidingCall
      <4>2. i \in Accounts /\ SameRow(i)
        <5>1. Accounts' = Accounts /\ \A j \in Accounts : SameRow(j)
          BY <3>1, Updates
        <5> QED
          BY <5>1
      <4>3. i # calls[t].user
        BY <2>3, <4>1, <4>2 DEF CameBy, SameRow
      <4>4. users'[i] = users[i]
        <5>1. \A j \in Ids \ {calls[t].user} : users'[j] = users[j]
          BY <3>1, Updates
        <5> QED
          BY <4>2, <4>3, <5>1 DEF Accounts
      <4> QED
        BY <4>2, <4>4
    <3>2. CASE SetActive(t) \/ ChangePassword(t)
      <4>1. /\ Accounts' = Accounts /\ \A j \in Accounts : SameRow(j)
            /\ \A j \in Accounts : users'[j].role = users[j].role
        BY <3>2, Updates
      <4> QED
        BY <4>1
    <3>3. CASE DeleteRejected(t)
      BY <2>3, <3>3, Deletion DEF SameRow, Accounts
    <3> QED
      BY <1>2, <3>1, <3>2, <3>3
  <2> QED
    BY <2>1, <2>2, <2>3, InviteFrameHolds DEF InviteFrame
<1>3. CASE InsertOwner(t) \/ InsertRequester(t)
  <2>1. Kept(InvitePoints)
    BY <1>3, Landing, KeptElsewhere DEF InvitePoints
  <2>2. UNCHANGED invites
    BY <1>3 DEF InsertOwner, InsertRequester
  <2>3. CASE UNCHANGED users
    BY <2>1, <2>2, <2>3, NoUsersFrames, InviteFrameHolds
  <2>4. ASSUME NEW i \in Ids, NEW row \in UserRows, Insert(i, row), row.pw = 0, row.origin # "invite"
        PROVE  InviteInv'
    BY <2>1, <2>2, <2>4, InsertFrames, InviteFrameHolds
  <2>5. CASE InsertOwner(t)
    <3> DEFINE row == Row(calls[t].name, Owner, TRUE, "owner", Nothing, FALSE)
    <3>1. calls[t].name \in Names
      BY <2>5 DEF InsertOwner, At, OtherCalls
    <3>2. row \in UserRows /\ row.pw = 0 /\ row.origin # "invite"
      BY <3>1, AccountsAssumption DEF Row, UserRows
    <3>3. UNCHANGED users \/ \E i \in Ids : Insert(i, row)
      BY <2>5 DEF InsertOwner
    <3> QED
      BY <2>3, <2>4, <3>2, <3>3
  <2>6. CASE InsertRequester(t)
    <3> DEFINE row == RequesterRow(calls[t])
    <3>1. calls[t].name \in Names /\ calls[t].ref \in Requests
      BY <2>6 DEF InsertRequester, At, RequestInv, RequestCalls, Asking, AskingCall
    <3>2. row \in UserRows /\ row.pw = 0 /\ row.origin # "invite"
      BY <3>1, AccountsAssumption DEF RequesterRow, Row, UserRows
    <3>3. UNCHANGED users \/ \E i \in Ids : Insert(i, row)
      BY <2>6 DEF InsertRequester
    <3> QED
      BY <2>3, <2>4, <3>2, <3>3
  <2> QED
    BY <1>3, <2>5, <2>6
<1>4. CASE CreateInvite(t)
  <2>1. PICK c \in Invites, r \in Roles :
          /\ invites[c].state = "none"
          /\ invites' = [invites EXCEPT ![c] = [state |-> "open", role |-> r, by |-> Nothing]]
    BY <1>4 DEF CreateInvite
  <2>2. /\ invites'[c].state = "open" /\ invites'[c].role = r
        /\ \A d \in Invites \ {c} : invites'[d] = invites[d]
    BY <2>1 DEF TypeOK
  <2>3. UNCHANGED users /\ Kept(InvitePoints)
    BY <1>4 DEF CreateInvite, Kept
  <2>4. IssuedWithRole'
    BY <2>2 DEF IssuedWithRole, InviteInv
  <2> QED
    BY <2>1, <2>2, <2>3, <2>4, InviteTableWrites
<1>5. CASE RevokeInvite(t)
  <2>1. PICK c \in Invites : /\ invites[c].state = "open"
                             /\ invites' = [invites EXCEPT ![c].state = "revoked"]
    BY <1>5 DEF RevokeInvite
  <2>2. /\ invites'[c].state = "revoked" /\ invites'[c].role = invites[c].role
        /\ \A d \in Invites \ {c} : invites'[d] = invites[d]
    BY <2>1 DEF TypeOK, InviteRows
  <2>3. UNCHANGED users /\ Kept(InvitePoints)
    BY <1>5 DEF RevokeInvite, Kept
  <2>4. IssuedWithRole'
    BY <2>1, <2>2 DEF IssuedWithRole, InviteInv
  <2> QED
    BY <2>1, <2>2, <2>3, <2>4, InviteTableWrites
<1>6. CASE AskToAccept(t)
  <2>1. PICK c \in Invites, n \in Names :
          /\ invites[c].state = "open"
          /\ Arrive(t, [Idle EXCEPT !.at = "claim invite", !.name = n, !.ref = c,
                                    !.role = invites[c].role])
    BY <1>6 DEF AskToAccept
  <2>2. /\ calls'[t].at = "claim invite" /\ calls'[t].name = n /\ calls'[t].ref = c
        /\ calls'[t].role = invites[c].role
    BY <2>1 DEF Arrive, Idle, TypeOK
  <2>3. UNCHANGED <<users, invites>> /\ Accounts' = Accounts
    BY <1>6 DEF AskToAccept, store, Accounts
  <2>4. InvitedOnce' /\ InvitedRows' /\ IssuedWithRole'
    BY <2>3 DEF InviteInv, InvitedOnce, InvitedRows, IssuedWithRole
  <2>5. ClaimingCall(t)'
    BY <2>1, <2>2, <2>3 DEF ClaimingCall, InviteInv, IssuedWithRole
  <2>6. ASSUME NEW s \in Threads, calls'[s].at \in InvitePoints PROVE ClaimingCall(s)'
    <3>1. CASE s # t
      BY <2>3, <2>6, <3>1 DEF Moves, InviteInv, InviteCalls, ClaimingCall
    <3> QED
      BY <2>5, <3>1
  <2>7. ASSUME NEW s \in Threads, calls'[s].at = "insert invited" PROVE InvitedCall(s)'
    <3>1. s # t /\ calls'[s] = calls[s] /\ InvitedCall(s)
      BY <2>2, <2>7 DEF Moves, InviteInv, InviteCalls
    <3>2. \A r \in Threads : calls'[r].at = "insert invited" => calls'[r] = calls[r]
      BY <2>2 DEF Moves
    <3> QED
      BY <2>3, <3>1, <3>2 DEF InvitedCall
  <2>8. InviteCalls'
    BY <2>6, <2>7 DEF InviteCalls
  <2> QED
    BY <2>4, <2>8 DEF InviteInv
<1>7. CASE ClaimInvite(t)
  <2> DEFINE c == calls[t].ref
  <2>1. ClaimingCall(t) /\ calls[t].at = "claim invite"
    BY <1>7 DEF ClaimInvite, At, InviteInv, InviteCalls, InvitePoints
  <2>2. UNCHANGED users /\ Accounts' = Accounts
    BY <1>7 DEF ClaimInvite, Accounts
  <2>3. CASE Return(t) /\ UNCHANGED invites
    BY <2>2, <2>3, ReturnType, KeptElsewhere, NoUsersFrames, InviteFrameHolds DEF InvitePoints
  <2>4. CASE /\ invites[c].state = "open"
             /\ invites' = [invites EXCEPT ![c].state = "used", ![c].by = calls[t].name]
             /\ Goto(t, "insert invited")
    <3>1. /\ invites'[c].state = "used" /\ invites'[c].by = calls[t].name
          /\ invites'[c].role = invites[c].role
          /\ \A d \in Invites \ {c} : invites'[d] = invites[d]
      BY <2>1, <2>4, ZenonT(30) DEF TypeOK, InviteRows, ClaimingCall
    <3>2. /\ calls'[t].at = "insert invited" /\ calls'[t].name = calls[t].name
          /\ calls'[t].ref = c /\ calls'[t].role = calls[t].role
      BY <2>4, GotoType DEF Points
    <3> HIDE DEF c
    <3>3. \A i \in Accounts : users[i].origin = "invite" =>
            users[i].code \in Invites \ {c} /\ invites[users[i].code].state = "used"
      BY <2>4 DEF InviteInv, InvitedOnce, InvitedRows
    <3>4. InvitedOnce' /\ InvitedRows'
      BY <2>2, <3>1, <3>3 DEF InviteInv, InvitedOnce, InvitedRows
    <3>5. IssuedWithRole'
      BY <2>4, <3>1 DEF InviteInv, IssuedWithRole
    <3>6. ASSUME NEW s \in Threads, calls'[s].at \in InvitePoints PROVE ClaimingCall(s)'
      <4>1. calls[s].at \in InvitePoints /\ calls'[s].ref = calls[s].ref
            /\ calls'[s].name = calls[s].name /\ calls'[s].role = calls[s].role
        BY <2>1, <3>2, <3>6 DEF Moves, InvitePoints, c
      <4> QED
        BY <3>1, <4>1 DEF InviteInv, InviteCalls, ClaimingCall
    <3>7. \A s \in Threads \ {t} : calls'[s].at = "insert invited" =>
            calls'[s] = calls[s] /\ InvitedCall(s) /\ ClaimingCall(s) /\ calls[s].ref # c
      BY <2>4 DEF Moves, InviteInv, InviteCalls, InvitedCall, InvitePoints
    <3>8. InvitedCall(t)'
      BY <2>2, <3>1, <3>2, <3>3, <3>7 DEF InvitedCall
    <3>9. ASSUME NEW s \in Threads \ {t}, calls'[s].at = "insert invited" PROVE InvitedCall(s)'
      <4>1. /\ calls'[s] = calls[s] /\ InvitedCall(s) /\ calls[s].ref \in Invites
            /\ calls[s].ref # c
        BY <3>7, <3>9 DEF ClaimingCall
      <4>2. ASSUME NEW r \in Threads \ {s}, calls'[r].at = "insert invited"
            PROVE  calls'[r].ref # calls'[s].ref
        BY <3>2, <3>7, <4>1, <4>2 DEF InvitedCall
      <4> QED
        BY <2>2, <3>1, <4>1, <4>2 DEF InvitedCall
    <3> QED
      BY <3>4, <3>5, <3>6, <3>8, <3>9 DEF InviteInv, InviteCalls
  <2> QED
    BY <1>7, <2>3, <2>4 DEF ClaimInvite, Claimable
<1>8. CASE InsertInvited(t)
  <2> DEFINE c == calls[t].ref
             row == Row(calls[t].name, calls[t].role, TRUE, "invite", calls[t].ref, FALSE)
  <2>1. ClaimingCall(t) /\ InvitedCall(t) /\ calls[t].at = "insert invited"
    BY <1>8 DEF InsertInvited, At, InviteInv, InviteCalls, InvitePoints
  <2>2. PICK i \in Ids : Insert(i, row)
    BY <1>8 DEF InsertInvited
  <2>3. /\ row \in UserRows /\ row.name = calls[t].name /\ row.role = calls[t].role
        /\ row.origin = "invite" /\ row.code = c
    BY <2>1 DEF ClaimingCall, Row, UserRows
  <2> HIDE DEF row
  <2>4. /\ i \notin Accounts /\ Accounts' = Accounts \cup {i} /\ users'[i] = row
        /\ \A j \in Accounts : users'[j] = users[j]
    BY <2>2, <2>3, InsertType DEF Accounts
  <2>5. UNCHANGED invites /\ calls'[t].at = "idle"
    BY <1>8, Landing DEF InsertInvited
  <2>6. InvitedOnce'
    <3>1. /\ users'[i].origin = "invite" /\ users'[i].code = c
          /\ users'[i].name = calls[t].name
      BY <2>3, <2>4
    <3>2. \A j \in Accounts : users[j].origin = "invite" => users[j].code # c
      BY <2>1 DEF InvitedCall
    <3>3. ASSUME NEW j \in Accounts', users'[j].origin = "invite"
          PROVE  /\ invites[users'[j].code].state = "used"
                 /\ invites[users'[j].code].by = users'[j].name
                 /\ \A k \in Accounts' : users'[k].origin = "invite" /\ users'[k].code = users'[j].code
                      => k = j
      <4>1. CASE j = i
        BY <2>1, <2>4, <3>1, <3>2, <4>1 DEF InvitedCall
      <4>2. CASE j \in Accounts
        BY <2>4, <3>1, <3>2, <3>3, <4>2 DEF InviteInv, InvitedOnce
      <4> QED
        BY <2>4, <4>1, <4>2
    <3> QED
      BY <2>5, <3>3 DEF InvitedOnce
  <2>7. InvitedRows' /\ IssuedWithRole'
    BY <2>1, <2>3, <2>4, <2>5 DEF InviteInv, InvitedRows, IssuedWithRole, ClaimingCall
  <2>8. \A s \in Threads : calls'[s].at \in InvitePoints => s # t /\ calls'[s] = calls[s]
    BY <2>5 DEF Moves, InvitePoints
  <2>9. ASSUME NEW s \in Threads, calls'[s].at \in InvitePoints PROVE ClaimingCall(s)'
    BY <2>5, <2>8, <2>9 DEF InviteInv, InviteCalls, ClaimingCall
  <2>10. ASSUME NEW s \in Threads, calls'[s].at = "insert invited" PROVE InvitedCall(s)'
    <3>1. s # t /\ calls'[s] = calls[s] /\ InvitedCall(s)
      BY <2>8, <2>10 DEF InviteInv, InviteCalls, InvitePoints
    <3>2. calls[s].ref # c
      BY <2>1, <2>10, <3>1 DEF InvitedCall
    <3>3. \A r \in Threads : calls'[r].at = "insert invited" => calls'[r] = calls[r]
      BY <2>8 DEF InvitePoints
    <3> QED
      BY <2>3, <2>4, <2>5, <3>1, <3>2, <3>3 DEF InvitedCall
  <2>11. InviteCalls'
    BY <2>9, <2>10 DEF InviteCalls
  <2> QED
    BY <2>6, <2>7, <2>11 DEF InviteInv
<1>9. CASE GiveBack(t)
  <2> DEFINE c == calls[t].ref
  <2>1. ClaimingCall(t) /\ InvitedCall(t) /\ calls[t].at = "insert invited"
    BY <1>9 DEF GiveBack, At, InviteInv, InviteCalls, InvitePoints
  <2>2. /\ invites'[c].state = "open" /\ invites'[c].role = invites[c].role
        /\ \A d \in Invites \ {c} : invites'[d] = invites[d]
    BY <1>9, <2>1, ZenonT(30) DEF GiveBack, TypeOK, InviteRows, ClaimingCall
  <2>3. UNCHANGED users /\ Accounts' = Accounts /\ calls'[t].at = "idle"
    BY <1>9, Landing DEF GiveBack, Accounts
  <2>4. InvitedOnce' /\ InvitedRows'
    BY <2>1, <2>2, <2>3, ZenonT(30) DEF InviteInv, InvitedOnce, InvitedRows, InvitedCall
  <2>5. IssuedWithRole'
    BY <2>1, <2>2 DEF InviteInv, IssuedWithRole, ClaimingCall
  <2>6. \A s \in Threads : calls'[s].at \in InvitePoints => s # t /\ calls'[s] = calls[s]
    BY <2>3 DEF Moves, InvitePoints
  <2>7. ASSUME NEW s \in Threads, calls'[s].at \in InvitePoints PROVE ClaimingCall(s)'
    BY <2>2, <2>6, <2>7, ZenonT(30) DEF InviteInv, InviteCalls, ClaimingCall
  <2>8. ASSUME NEW s \in Threads, calls'[s].at = "insert invited" PROVE InvitedCall(s)'
    <3>1. s # t /\ calls'[s] = calls[s] /\ InvitedCall(s) /\ ClaimingCall(s)
      BY <2>6, <2>8 DEF InviteInv, InviteCalls, InvitePoints
    <3>2. calls[s].ref # c
      BY <2>1, <2>8, <3>1 DEF InvitedCall
    <3>3. \A r \in Threads : calls'[r].at = "insert invited" => calls'[r] = calls[r]
      BY <2>6 DEF InvitePoints
    <3> QED
      BY <2>2, <2>3, <3>1, <3>2, <3>3 DEF InvitedCall, ClaimingCall
  <2>9. InviteCalls'
    BY <2>7, <2>8 DEF InviteCalls
  <2> QED
    BY <2>4, <2>5, <2>9 DEF InviteInv
<1> QED
  BY <1>1, <1>2, <1>3, <1>4, <1>5, <1>6, <1>7, <1>8, <1>9 DEF Step

-----------------------------------------------------------------------------
(* Every step keeps what is known of the access requests. *)

RequestPoints == Asking \cup Deciding

LEMMA AskingStays ==
  ASSUME NEW s \in Threads, AskingCall(s), calls'[s] = calls[s], UNCHANGED users,
         \A r \in Threads : calls'[r].at \in Asking => calls'[r] = calls[r],
         requests'[calls[s].ref] = requests[calls[s].ref]
  PROVE  AskingCall(s)'
<1>1. \A r \in Threads \ {s} : calls'[r].at \in Asking => calls'[r].ref # calls'[s].ref
  BY DEF AskingCall
<1> QED
  BY <1>1 DEF AskingCall, CameBy

LEMMA StepRequests ==
  ASSUME TypeOK, InviteInv, RequestInv, ResetInv, OtherCalls, NEW t \in Threads, Step(t),
         TypeOK', Moves(t)
  PROVE  RequestInv'
<1>0. ASSUME calls'[t].at \notin RequestPoints
      PROVE  \A s \in Threads : calls'[s].at \in RequestPoints => s # t /\ calls'[s] = calls[s]
  BY <1>0 DEF Moves
<1>1. CASE \/ AskOwner(t) \/ SpendToken(t) \/ CreateInvite(t) \/ RevokeInvite(t) \/ AskToAccept(t)
           \/ ClaimInvite(t) \/ GiveBack(t) \/ ReadToActivate(t) \/ ReadToDeactivate(t)
           \/ ReadToIssue(t) \/ InsertReset(t) \/ AskToReset(t) \/ ClaimReset(t)
  <2>1. UNCHANGED <<users, requests>>
    BY <1>1 DEF AskOwner, SpendToken, CreateInvite, RevokeInvite, AskToAccept, ClaimInvite, GiveBack,
         ReadToActivate, ReadToDeactivate, ReadToIssue, InsertReset, AskToReset, ClaimReset, store
  <2>2. Kept(RequestPoints)
    <3>1. CASE CreateInvite(t) \/ RevokeInvite(t)
      BY <3>1, Landing DEF Kept
    <3>2. CASE ~ (CreateInvite(t) \/ RevokeInvite(t))
      <4>1. calls'[t].at \notin RequestPoints
        BY <1>1, <3>2, Landing DEF RequestPoints, Asking, Deciding
      <4> QED
        BY <4>1, KeptElsewhere
    <3> QED
      BY <3>1, <3>2
  <2> QED
    BY <2>1, <2>2, NoUsersFrames, RequestFrameHolds DEF RequestPoints
<1>2. CASE SetActive(t) \/ ChangePassword(t)
  <2>1. Kept(RequestPoints)
    <3>1. calls'[t].at \notin RequestPoints
      BY <1>2, Landing DEF RequestPoints, Asking, Deciding
    <3> QED
      BY <3>1, KeptElsewhere
  <2>2. UNCHANGED requests
    BY <1>2 DEF SetActive, ChangePassword
  <2>3. /\ Accounts' = Accounts
        /\ \A i \in Accounts : SameRow(i)
        /\ \A i \in Accounts : users'[i].role = users[i].role
    BY <1>2, Updates
  <2>4. ASSUME NEW i \in Accounts
        PROVE  /\ users'[i].shared => users[i].shared
               /\ users[i].byHand => users'[i].byHand
    BY <1>2, Updates
  <2>5. ASSUME NEW i \in Accounts, users'[i].active, users[i].origin = "request"
        PROVE  users[i].active \/ users'[i].byHand
    <3>1. CASE SetActive(t)
      BY <2>5, <3>1, Updates
    <3>2. CASE ChangePassword(t)
      BY <2>5, <3>2, Updates
    <3> QED
      BY <1>2, <3>1, <3>2
  <2> QED
    BY <2>1, <2>2, <2>3, <2>4, <2>5, RequestFrameHolds DEF RequestFrame, RequestPoints
<1>3. CASE InsertOwner(t) \/ InsertInvited(t)
  <2>1. Kept(RequestPoints)
    <3>1. calls'[t].at \notin RequestPoints
      BY <1>3, Landing DEF RequestPoints, Asking, Deciding
    <3> QED
      BY <3>1, KeptElsewhere
  <2>2. UNCHANGED requests
    BY <1>3 DEF InsertOwner, InsertInvited
  <2>3. CASE UNCHANGED users
    BY <2>1, <2>2, <2>3, NoUsersFrames, RequestFrameHolds DEF RequestPoints
  <2>4. ASSUME NEW i \in Ids, NEW row \in UserRows, Insert(i, row), row.pw = 0,
               row.origin \notin {"request", "seed"}, ~ row.shared, row.origin = "owner" => row.role = Owner
        PROVE  RequestInv'
    BY <2>1, <2>2, <2>4, InsertFrames, RequestFrameHolds DEF RequestPoints
  <2>5. CASE InsertOwner(t)
    <3> DEFINE row == Row(calls[t].name, Owner, TRUE, "owner", Nothing, FALSE)
    <3>1. calls[t].name \in Names
      BY <2>5 DEF InsertOwner, At, OtherCalls
    <3>2. /\ row \in UserRows /\ row.pw = 0 /\ row.origin \notin {"request", "seed"}
          /\ row.origin = "owner" => row.role = Owner
      BY <3>1, AccountsAssumption DEF Row, UserRows
    <3>3. ~ row.shared
      BY DEF Row
    <3>4. UNCHANGED users \/ \E i \in Ids : Insert(i, row)
      BY <2>5 DEF InsertOwner
    <3> HIDE DEF row
    <3> QED
      BY <2>3, <2>4, <3>2, <3>3, <3>4
  <2>6. CASE InsertInvited(t)
    <3> DEFINE row == Row(calls[t].name, calls[t].role, TRUE, "invite", calls[t].ref, FALSE)
    <3>1. ClaimingCall(t)
      BY <2>6 DEF InsertInvited, At, InviteInv, InviteCalls, InvitePoints
    <3>2. /\ row \in UserRows /\ row.pw = 0 /\ row.origin \notin {"request", "seed", "owner"}
      BY <3>1 DEF Row, UserRows, ClaimingCall
    <3>3. ~ row.shared
      BY DEF Row
    <3>4. \E i \in Ids : Insert(i, row)
      BY <2>6 DEF InsertInvited
    <3> HIDE DEF row
    <3> QED
      BY <2>4, <3>2, <3>3, <3>4
  <2> QED
    BY <1>3, <2>5, <2>6
<1>4. CASE RequestAccess(t)
  <2>1. PICK n \in Names, r \in Roles, q \in Requests :
          /\ requests[q].status = "none" /\ \A s \in Threads : calls[s].ref # q
          /\ Arrive(t, [Idle EXCEPT !.at = "insert requester", !.name = n, !.role = r, !.ref = q])
    BY <1>4 DEF RequestAccess
  <2>2. calls'[t].at = "insert requester" /\ calls'[t].name = n /\ calls'[t].ref = q
    BY <2>1 DEF Arrive, Idle, TypeOK
  <2>3. UNCHANGED <<users, requests>> /\ Accounts' = Accounts
    BY <1>4 DEF RequestAccess, store, Accounts
  <2>4. RequestedRows' /\ RequestTable'
    BY <2>3 DEF RequestInv, RequestedRows, RequestRow, RequestTable, CameBy
  <2>5. \A s \in Threads \ {t} : calls'[s] = calls[s] /\ calls[s].ref # q
    BY <2>1 DEF Moves
  <2>6. ASSUME NEW s \in Threads, calls'[s].at \in Asking PROVE AskingCall(s)'
    <3>1. CASE s = t
      BY <2>1, <2>2, <2>3, <2>5, <3>1 DEF AskingCall
    <3>2. CASE s # t
      <4>1. AskingCall(s) /\ calls'[s] = calls[s]
        BY <2>5, <2>6, <3>2 DEF RequestInv, RequestCalls
      <4>2. ASSUME NEW r2 \in Threads \ {s}, calls'[r2].at \in Asking PROVE calls'[r2].ref # calls'[s].ref
        BY <2>2, <2>5, <3>2, <4>1, <4>2 DEF AskingCall
      <4> QED
        BY <2>3, <4>1, <4>2 DEF AskingCall, CameBy
    <3> QED
      BY <3>1, <3>2
  <2>7. ASSUME NEW s \in Threads, calls'[s].at \in Deciding PROVE DecidingCall(s)'
    <3>1. DecidingCall(s) /\ calls'[s] = calls[s]
      BY <2>2, <2>5, <2>7 DEF RequestInv, RequestCalls, Deciding
    <3> QED
      BY <2>3, <3>1 DEF DecidingCall, CameBy
  <2> QED
    BY <2>4, <2>6, <2>7 DEF RequestInv, RequestCalls
<1>5. CASE InsertRequester(t)
  <2> DEFINE row == RequesterRow(calls[t])
  <2>1. AskingCall(t) /\ calls[t].at = "insert requester"
    BY <1>5 DEF InsertRequester, At, RequestInv, RequestCalls, Asking
  <2>2. UNCHANGED requests
    BY <1>5 DEF InsertRequester
  <2>3. CASE Return(t) /\ UNCHANGED users
    <3>1. Kept(RequestPoints)
      BY <2>3, ReturnType, KeptElsewhere DEF RequestPoints, Asking, Deciding
    <3> QED
      BY <2>2, <2>3, <3>1, NoUsersFrames, RequestFrameHolds DEF RequestPoints
  <2>4. ASSUME NEW i \in Ids, Insert(i, row),
               calls' = [calls EXCEPT ![t].at = "insert request", ![t].user = i]
        PROVE  RequestInv'
    <3>1. /\ row \in UserRows /\ row.origin = "request" /\ row.code = calls[t].ref
          /\ row.role = Placeholder
      BY <2>1, AccountsAssumption DEF RequesterRow, Row, UserRows, AskingCall
    <3>2. ~ row.active /\ ~ row.shared
      BY DEF RequesterRow, Row
    <3> HIDE DEF row
    <3>3. /\ i \notin Accounts /\ Accounts' = Accounts \cup {i} /\ users'[i] = row
          /\ \A j \in Ids \ {i} : users'[j] = users[j]
          /\ \A s \in Threads : calls[s].user # i
      BY <2>4, <3>1, InsertType
    <3>4. \A q \in Requests : requests[q].user # i
      BY <2>4 DEF Insert, Fresh
    <3>5. calls'[t].at = "insert request" /\ calls'[t].user = i
          /\ calls'[t].ref = calls[t].ref /\ calls'[t].name = calls[t].name
      BY <2>4 DEF TypeOK, CallRows
    <3>6. ASSUME NEW j \in Accounts' PROVE RequestRow(j)'
      <4>1. CASE j = i
        BY <2>1, <3>1, <3>2, <3>3, <4>1 DEF RequestRow, AskingCall
      <4>2. CASE j \in Accounts /\ j # i
        <5>1. users'[j] = users[j] /\ RequestRow(j)
          BY <3>3, <4>2 DEF RequestInv, RequestedRows, Accounts
        <5> QED
          BY <2>2, <5>1 DEF RequestRow
      <4> QED
        BY <3>3, <4>1, <4>2
    <3>7. RequestTable'
      BY <2>2, <3>3, <3>4 DEF RequestInv, RequestTable, CameBy
    <3>8. ASSUME NEW s \in Threads, calls'[s].at \in Asking PROVE AskingCall(s)'
      <4>1. CASE s = t
        <5>1. CameBy(i, calls[t].ref)' /\ users'[i] # Nothing
          BY <3>1, <3>3, <3>5, AccountsAssumption DEF CameBy
        <5>2. \A r \in Threads \ {t} : calls'[r].at \in Asking => calls'[r].ref # calls[t].ref
          BY <2>1 DEF AskingCall, Moves
        <5> QED
          BY <2>1, <2>2, <3>5, <4>1, <5>1, <5>2 DEF AskingCall, CameBy
      <4>2. CASE s # t
        <5>1. AskingCall(s) /\ calls'[s] = calls[s]
          BY <3>8, <4>2 DEF RequestInv, RequestCalls, Moves
        <5>2. ASSUME NEW r \in Threads \ {s}, calls'[r].at \in Asking PROVE calls'[r].ref # calls'[s].ref
          <6>1. calls[r].at \in Asking /\ calls'[r].ref = calls[r].ref
            BY <2>1, <3>5, <5>2 DEF Moves, Asking
          <6> QED
            BY <5>1, <5>2, <6>1 DEF AskingCall
        <5>3. calls[s].user # i
          BY <3>3
        <5> QED
          BY <2>2, <3>3, <5>1, <5>2, <5>3 DEF AskingCall, CameBy
      <4> QED
        BY <4>1, <4>2
    <3>9. ASSUME NEW s \in Threads, calls'[s].at \in Deciding PROVE DecidingCall(s)'
      <4>1. DecidingCall(s) /\ calls'[s] = calls[s] /\ calls[s].user # i
        BY <3>3, <3>5, <3>9 DEF RequestInv, RequestCalls, Moves, Deciding
      <4> QED
        BY <2>2, <3>3, <4>1 DEF DecidingCall, CameBy
    <3> QED
      BY <3>6, <3>7, <3>8, <3>9 DEF RequestInv, RequestedRows, RequestCalls
  <2> QED
    BY <1>5, <2>3, <2>4 DEF InsertRequester
<1>6. CASE InsertRequest(t)
  <2> DEFINE q == calls[t].ref
  <2>1. AskingCall(t) /\ calls[t].at = "insert request"
    BY <1>6 DEF InsertRequest, At, RequestInv, RequestCalls, Asking
  <2>2. UNCHANGED users /\ Accounts' = Accounts /\ calls'[t].at = "idle"
    BY <1>6, Landing DEF InsertRequest, Accounts
  <2>3. /\ q \in Requests /\ requests[q].status = "none"
        /\ requests'[q].status = "pending" /\ requests'[q].user = calls[t].user
        /\ \A p \in Requests \ {q} : requests'[p] = requests[p]
    BY <1>6, <2>1 DEF InsertRequest, AskingCall, TypeOK
  <2>4. /\ calls[t].user \in Ids /\ users[calls[t].user] # Nothing /\ CameBy(calls[t].user, q)
    BY <2>1 DEF AskingCall
  <2> HIDE DEF q
  <2>5. ASSUME NEW i \in Accounts' PROVE RequestRow(i)'
    BY <2>2, <2>3, <2>5 DEF RequestInv, RequestedRows, RequestRow
  <2>6. RequestTable'
    BY <2>2, <2>3, <2>4 DEF RequestInv, RequestTable, CameBy
  <2>7. calls'[t].at \notin RequestPoints
    BY <2>2 DEF RequestPoints, Asking, Deciding
  <2>8. ASSUME NEW s \in Threads, calls'[s].at \in Asking PROVE AskingCall(s)'
    <3>1. \A r \in Threads : calls'[r].at \in Asking => r # t /\ calls'[r] = calls[r]
      BY <1>0, <2>7 DEF RequestPoints
    <3>2. AskingCall(s) /\ calls[s].ref # q
      BY <2>1, <2>8, <3>1 DEF RequestInv, RequestCalls, AskingCall, q
    <3> QED
      BY <2>2, <2>3, <2>8, <3>1, <3>2 DEF AskingCall, CameBy
  <2>9. ASSUME NEW s \in Threads, calls'[s].at \in Deciding PROVE DecidingCall(s)'
    <3>1. calls'[s] = calls[s] /\ DecidingCall(s)
      BY <1>0, <2>7, <2>9 DEF RequestPoints, RequestInv, RequestCalls
    <3>2. calls[s].ref # q
      BY <2>3, <3>1 DEF DecidingCall
    <3> QED
      BY <2>2, <2>3, <3>1, <3>2 DEF DecidingCall, CameBy
  <2> QED
    BY <2>5, <2>6, <2>8, <2>9 DEF RequestInv, RequestedRows, RequestCalls
<1>7. CASE ReadPending(t)
  <2>1. PICK q \in Requests :
          /\ requests[q].status = "pending"
          /\ LET call == [Idle EXCEPT !.ref = q, !.user = requests[q].user]
             IN  \/ \E r \in Roles : Arrive(t, [call EXCEPT !.at = "approve", !.role = r])
                 \/ Arrive(t, [call EXCEPT !.at = "reject"])
    BY <1>7 DEF ReadPending
  <2>2. /\ calls'[t].at \in {"approve", "reject"}
        /\ calls'[t].ref = q /\ calls'[t].user = requests[q].user
        /\ calls'[t].at = "approve" => calls'[t].role \in Roles
    BY <2>1, ZenonT(30) DEF Arrive, Idle, TypeOK
  <2>3. UNCHANGED <<users, requests>> /\ Accounts' = Accounts
    BY <1>7 DEF ReadPending, store, Accounts
  <2>4. RequestedRows' /\ RequestTable'
    BY <2>3 DEF RequestInv, RequestedRows, RequestRow, RequestTable, CameBy
  <2>5. \A s \in Threads : calls'[s].at \in Asking => s # t /\ calls'[s] = calls[s]
    BY <2>2 DEF Moves, Asking
  <2>6. ASSUME NEW s \in Threads, calls'[s].at \in Asking PROVE AskingCall(s)'
    <3>1. AskingCall(s)
      BY <2>5, <2>6 DEF RequestInv, RequestCalls
    <3> QED
      BY <2>3, <2>5, <2>6, <3>1 DEF AskingCall, CameBy
  <2>7. ASSUME NEW s \in Threads, calls'[s].at \in Deciding PROVE DecidingCall(s)'
    <3>1. CASE s = t
      <4>1. requests[q].user \in Ids /\ CameBy(requests[q].user, q)
        BY <2>1 DEF RequestInv, RequestTable
      <4> QED
        BY <2>1, <2>2, <2>3, <3>1, <4>1 DEF DecidingCall, CameBy
    <3>2. CASE s # t
      <4>1. DecidingCall(s) /\ calls'[s] = calls[s]
        BY <2>7, <3>2 DEF RequestInv, RequestCalls, Moves
      <4> QED
        BY <2>3, <4>1 DEF DecidingCall, CameBy
    <3> QED
      BY <3>1, <3>2
  <2> QED
    BY <2>4, <2>6, <2>7 DEF RequestInv, RequestCalls
<1>8. CASE Approve(t)
  <2> DEFINE q == calls[t].ref
  <2>1. DecidingCall(t) /\ calls[t].at = "approve"
    BY <1>8 DEF Approve, At, RequestInv, RequestCalls, Deciding
  <2>2. UNCHANGED users /\ Accounts' = Accounts
    BY <1>8 DEF Approve, Accounts
  <2>3. CASE Return(t) /\ UNCHANGED requests
    <3>1. Kept(RequestPoints)
      BY <2>3, ReturnType, KeptElsewhere DEF RequestPoints, Asking, Deciding
    <3> QED
      BY <2>2, <2>3, <3>1, NoUsersFrames, RequestFrameHolds DEF RequestPoints
  <2>4. CASE /\ requests[q].status = "pending"
             /\ requests' = [requests EXCEPT ![q].status = "approved", ![q].granted = calls[t].role]
             /\ Goto(t, "grant")
    <3>1. /\ q \in Requests
          /\ requests'[q].status = "approved" /\ requests'[q].user = requests[q].user
          /\ requests'[q].granted = calls[t].role
          /\ \A p \in Requests \ {q} : requests'[p] = requests[p]
      BY <2>1, <2>4 DEF DecidingCall, TypeOK, RequestRows
    <3>2. /\ calls'[t].at = "grant" /\ calls'[t].user = calls[t].user
          /\ calls'[t].ref = q /\ calls'[t].role = calls[t].role
      BY <2>4, GotoType DEF Points
    <3>3. requests[q].status = "pending"
      BY <2>4
    <3>4. calls[t].user \in Ids /\ CameBy(calls[t].user, q) /\ calls[t].role \in Roles
      BY <2>1 DEF DecidingCall
    <3> HIDE DEF q
    <3>5. ASSUME NEW i \in Accounts' PROVE RequestRow(i)'
      BY <2>2, <3>1, <3>3, <3>5 DEF RequestInv, RequestedRows, RequestRow
    <3>6. RequestTable'
      BY <2>2, <3>1, <3>3 DEF RequestInv, RequestTable, CameBy
    <3>7. \A s \in Threads : calls'[s].at \in Asking =>
            s # t /\ calls'[s] = calls[s] /\ AskingCall(s) /\ calls[s].ref # q
      BY <3>2, <3>3 DEF Moves, Asking, RequestInv, RequestCalls, AskingCall
    <3>8. ASSUME NEW s \in Threads, calls'[s].at \in Asking PROVE AskingCall(s)'
      <4>1. calls'[s] = calls[s] /\ AskingCall(s) /\ calls[s].ref \in Requests \ {q}
        BY <3>7, <3>8 DEF AskingCall
      <4> QED
        BY <2>2, <3>1, <3>7, <4>1, AskingStays
    <3>9. ASSUME NEW s \in Threads, calls'[s].at \in Deciding PROVE DecidingCall(s)'
      <4>1. CASE s = t
        BY <2>2, <3>1, <3>2, <3>4, <4>1 DEF DecidingCall, CameBy
      <4>2. CASE s # t
        <5>1. calls'[s] = calls[s] /\ DecidingCall(s)
          BY <3>9, <4>2 DEF Moves, RequestInv, RequestCalls
        <5> QED
          BY <2>2, <3>1, <3>3, <5>1 DEF DecidingCall, CameBy
      <4> QED
        BY <4>1, <4>2
    <3> QED
      BY <3>5, <3>6, <3>8, <3>9 DEF RequestInv, RequestedRows, RequestCalls
  <2> QED
    BY <1>8, <2>3, <2>4 DEF Approve, Decidable
<1>9. CASE Grant(t)
  <2> DEFINE q == calls[t].ref
             u == calls[t].user
  <2>1. DecidingCall(t) /\ calls[t].at = "grant"
    BY <1>9 DEF Grant, At, RequestInv, RequestCalls, Deciding
  <2>2. /\ q \in Requests /\ u \in Ids /\ CameBy(u, q)
        /\ requests[q].status = "approved" /\ requests[q].granted = calls[t].role
    BY <2>1 DEF DecidingCall
  <2>3. UNCHANGED requests /\ calls'[t].at = "idle"
    BY <1>9, Landing DEF Grant
  <2>4. /\ Accounts' = Accounts /\ \A i \in Accounts : SameRow(i)
        /\ \A i \in Ids \ {u} : users'[i] = users[i]
        /\ \A i \in Accounts : i = u => users'[i].role = calls[t].role
    BY <1>9, Updates
  <2>5. \A i \in Accounts : users'[i].shared => users[i].shared
    BY <1>9, Updates
  <2>6. \A i \in Ids : users[i] # Nothing => SameRow(i)
    BY <2>4 DEF Accounts
  <2> HIDE DEF q, u
  <2>7. ASSUME NEW i \in Accounts' PROVE RequestRow(i)'
    <3>1. i \in Accounts /\ RequestRow(i) /\ SameRow(i)
      BY <2>4, <2>7 DEF RequestInv, RequestedRows
    <3>2. CASE i = u
      <4>1. users[i].origin = "request" /\ users[i].code = q
        BY <2>2, <3>1, <3>2 DEF CameBy, Accounts
      <4>2. users'[i].origin = "request" /\ users'[i].code = q /\ users'[i].role = requests'[q].granted
        BY <2>2, <2>3, <2>4, <3>1, <3>2, <4>1 DEF SameRow
      <4>3. ~ users'[i].shared
        BY <2>5, <3>1, <4>1 DEF RequestRow
      <4> QED
        BY <2>2, <2>3, <4>2, <4>3 DEF RequestRow
    <3>3. CASE i # u
      <4>1. users'[i] = users[i]
        BY <2>4, <3>1, <3>3 DEF Accounts
      <4> QED
        BY <2>3, <3>1, <4>1 DEF RequestRow
    <3> QED
      BY <3>2, <3>3
  <2>8. RequestTable'
    BY <2>3, <2>6 DEF RequestInv, RequestTable, SameRow, CameBy
  <2>9. \A s \in Threads : calls'[s].at \in RequestPoints => s # t /\ calls'[s] = calls[s]
    <3>1. calls'[t].at \notin RequestPoints
      BY <2>3 DEF RequestPoints, Asking, Deciding
    <3> QED
      BY <1>0, <3>1
  <2>10. ASSUME NEW s \in Threads, calls'[s].at \in Asking PROVE AskingCall(s)'
    <3>1. \A r \in Threads : calls'[r].at \in Asking => calls'[r] = calls[r]
      BY <2>9 DEF RequestPoints
    <3>2. AskingCall(s)
      BY <2>10, <3>1 DEF RequestInv, RequestCalls
    <3> QED
      BY <2>3, <2>6, <2>10, <3>1, <3>2 DEF AskingCall, SameRow, CameBy
  <2>11. ASSUME NEW s \in Threads, calls'[s].at \in Deciding PROVE DecidingCall(s)'
    <3>1. calls'[s] = calls[s] /\ DecidingCall(s)
      BY <2>9, <2>11 DEF RequestPoints, RequestInv, RequestCalls
    <3>2. CameBy(calls[s].user, calls[s].ref)'
      <4>1. CASE users[calls[s].user] = Nothing
        <5>1. users'[calls[s].user] = Nothing
          BY <2>4, <3>1, <4>1 DEF Accounts, DecidingCall
        <5> QED
          BY <3>1, <5>1 DEF CameBy
      <4>2. CASE users[calls[s].user] # Nothing
        BY <2>6, <3>1, <4>2 DEF SameRow, CameBy, DecidingCall
      <4> QED
        BY <4>1, <4>2
    <3> QED
      BY <2>3, <3>1, <3>2 DEF DecidingCall
  <2> QED
    BY <2>7, <2>8, <2>10, <2>11 DEF RequestInv, RequestedRows, RequestCalls
<1>10. CASE Reject(t)
  <2> DEFINE q == calls[t].ref
  <2>1. DecidingCall(t) /\ calls[t].at = "reject"
    BY <1>10 DEF Reject, At, RequestInv, RequestCalls, Deciding
  <2>2. UNCHANGED users /\ Accounts' = Accounts
    BY <1>10 DEF Reject, Accounts
  <2>3. CASE Return(t) /\ UNCHANGED requests
    <3>1. Kept(RequestPoints)
      BY <2>3, ReturnType, KeptElsewhere DEF RequestPoints, Asking, Deciding
    <3> QED
      BY <2>2, <2>3, <3>1, NoUsersFrames, RequestFrameHolds DEF RequestPoints
  <2>4. CASE /\ requests[q].status = "pending"
             /\ requests' = [requests EXCEPT ![q].status = "rejected", ![q].user = Nothing]
             /\ Goto(t, "read rejected")
    <3>1. /\ q \in Requests
          /\ requests'[q].status = "rejected" /\ requests'[q].user = Nothing
          /\ \A p \in Requests \ {q} : requests'[p] = requests[p]
      BY <2>1, <2>4, ZenonT(30) DEF DecidingCall, TypeOK, RequestRows
    <3>2. /\ calls'[t].at = "read rejected" /\ calls'[t].user = calls[t].user
          /\ calls'[t].ref = q
      BY <2>4, GotoType DEF Points
    <3>3. requests[q].status = "pending"
      BY <2>4
    <3>4. calls[t].user \in Ids /\ CameBy(calls[t].user, q)
      BY <2>1 DEF DecidingCall
    <3> HIDE DEF q
    <3>5. ASSUME NEW i \in Accounts' PROVE RequestRow(i)'
      BY <2>2, <3>1, <3>3, <3>5 DEF RequestInv, RequestedRows, RequestRow
    <3>6. RequestTable'
      BY <2>2, <3>1, <3>3 DEF RequestInv, RequestTable, CameBy
    <3>7. \A s \in Threads : calls'[s].at \in Asking =>
            s # t /\ calls'[s] = calls[s] /\ AskingCall(s) /\ calls[s].ref # q
      BY <3>2, <3>3 DEF Moves, Asking, RequestInv, RequestCalls, AskingCall
    <3>8. ASSUME NEW s \in Threads, calls'[s].at \in Asking PROVE AskingCall(s)'
      <4>1. calls'[s] = calls[s] /\ AskingCall(s) /\ calls[s].ref \in Requests \ {q}
        BY <3>7, <3>8 DEF AskingCall
      <4> QED
        BY <2>2, <3>1, <3>7, <4>1, AskingStays
    <3>9. ASSUME NEW s \in Threads, calls'[s].at \in Deciding PROVE DecidingCall(s)'
      <4>1. CASE s = t
        BY <2>2, <3>1, <3>2, <3>4, <4>1 DEF DecidingCall, CameBy
      <4>2. CASE s # t
        <5>1. calls'[s] = calls[s] /\ DecidingCall(s)
          BY <3>9, <4>2 DEF Moves, RequestInv, RequestCalls
        <5> QED
          BY <2>2, <3>1, <3>3, <5>1 DEF DecidingCall, CameBy
      <4> QED
        BY <4>1, <4>2
    <3> QED
      BY <3>5, <3>6, <3>8, <3>9 DEF RequestInv, RequestedRows, RequestCalls
  <2> QED
    BY <1>10, <2>3, <2>4 DEF Reject, Decidable
<1>11. CASE ReadRejected(t)
  <2>1. DecidingCall(t) /\ calls[t].at = "read rejected"
    BY <1>11 DEF ReadRejected, At, RequestInv, RequestCalls, Deciding
  <2>2. UNCHANGED <<users, requests>> /\ Accounts' = Accounts
    BY <1>11 DEF ReadRejected, store, Accounts
  <2>3. CASE Return(t)
    <3>1. Kept(RequestPoints)
      BY <2>3, ReturnType, KeptElsewhere DEF RequestPoints, Asking, Deciding
    <3> QED
      BY <2>2, <3>1, NoUsersFrames, RequestFrameHolds DEF RequestPoints
  <2>4. CASE Goto(t, "delete rejected")
    <3>1. /\ calls'[t].at = "delete rejected" /\ calls'[t].user = calls[t].user
          /\ calls'[t].ref = calls[t].ref
      BY <2>4, GotoType DEF Points
    <3>2. RequestedRows' /\ RequestTable'
      BY <2>2 DEF RequestInv, RequestedRows, RequestRow, RequestTable, CameBy
    <3>3. \A s \in Threads : calls'[s].at \in Asking => calls'[s] = calls[s] /\ AskingCall(s)
      BY <3>1 DEF Moves, Asking, RequestInv, RequestCalls
    <3>4. ASSUME NEW s \in Threads, calls'[s].at \in Asking PROVE AskingCall(s)'
      BY <2>2, <3>3, <3>4, AskingStays
    <3>5. ASSUME NEW s \in Threads, calls'[s].at \in Deciding PROVE DecidingCall(s)'
      <4>1. CASE s = t
        BY <2>1, <2>2, <3>1, <4>1 DEF DecidingCall, CameBy
      <4>2. CASE s # t
        BY <2>2, <3>5, <4>2 DEF Moves, RequestInv, RequestCalls, DecidingCall, CameBy
      <4> QED
        BY <4>1, <4>2
    <3> QED
      BY <3>2, <3>4, <3>5 DEF RequestInv, RequestCalls
  <2> QED
    BY <1>11, <2>3, <2>4 DEF ReadRejected
<1>12. CASE DeleteRejected(t)
  <2> DEFINE q == calls[t].ref
             u == calls[t].user
  <2>1. DecidingCall(t) /\ calls[t].at = "delete rejected"
    BY <1>12 DEF DeleteRejected, At, RequestInv, RequestCalls, Deciding
  <2>2. /\ q \in Requests /\ u \in Ids /\ requests[q].status = "rejected"
        /\ users[u] # Nothing => users[u].code = q
    BY <2>1 DEF DecidingCall, CameBy
  <2>3. UNCHANGED requests /\ calls'[t].at = "idle"
    BY <1>12, Landing DEF DeleteRejected
  <2>4. /\ Accounts' = Accounts \ {u} /\ users'[u] = Nothing
        /\ \A i \in Ids \ {u} : users'[i] = users[i]
    BY <1>12, Deletion
  <2> HIDE DEF q, u
  <2>5. ASSUME NEW i \in Accounts' PROVE RequestRow(i)'
    <3>1. i \in Accounts /\ users'[i] = users[i]
      BY <2>4, <2>5 DEF Accounts
    <3> QED
      BY <2>3, <3>1 DEF RequestInv, RequestedRows, RequestRow
  <2>6. RequestTable'
    <3>1. \A p \in Requests : requests[p].status \in {"pending", "approved"} => requests[p].user # u
      BY <2>2 DEF RequestInv, RequestTable, CameBy
    <3> QED
      BY <2>3, <2>4, <3>1 DEF RequestInv, RequestTable, CameBy
  <2>7. \A s \in Threads : calls'[s].at \in RequestPoints => s # t /\ calls'[s] = calls[s]
    <3>1. calls'[t].at \notin RequestPoints
      BY <2>3 DEF RequestPoints, Asking, Deciding
    <3> QED
      BY <1>0, <3>1
  <2>8. ASSUME NEW s \in Threads, calls'[s].at \in Asking PROVE AskingCall(s)'
    <3>1. \A r \in Threads : calls'[r].at \in Asking => calls'[r] = calls[r]
      BY <2>7 DEF RequestPoints
    <3>2. AskingCall(s)
      BY <2>8, <3>1 DEF RequestInv, RequestCalls
    <3>3. calls[s].at = "insert request" => calls[s].user # u
      BY <2>2, <3>2 DEF AskingCall, CameBy
    <3> QED
      BY <2>3, <2>4, <2>8, <3>1, <3>2, <3>3 DEF AskingCall, CameBy
  <2>9. ASSUME NEW s \in Threads, calls'[s].at \in Deciding PROVE DecidingCall(s)'
    <3>1. calls'[s] = calls[s] /\ DecidingCall(s)
      BY <2>7, <2>9 DEF RequestPoints, RequestInv, RequestCalls
    <3> QED
      BY <2>3, <2>4, <3>1 DEF DecidingCall, CameBy
  <2> QED
    BY <2>5, <2>6, <2>8, <2>9 DEF RequestInv, RequestedRows, RequestCalls
<1> QED
  BY <1>1, <1>2, <1>3, <1>4, <1>5, <1>6, <1>7, <1>8, <1>9, <1>10, <1>11, <1>12 DEF Step

-----------------------------------------------------------------------------
(* Every step keeps what is known of the reset codes. *)

\* Codes may be spent and passwords promised together.
LEMMA NothingGained ==
  ASSUME ChangedRows, TypeOK, UNCHANGED users,
         \A i \in Ids : Spent(i) \ Promised \subseteq Spent(i)' \ Promised'
  PROVE  ChangedRows'
<1> SUFFICES ASSUME NEW i \in Accounts' PROVE users'[i].pw <= Cardinality(Spent(i)' \ Promised')
  BY DEF ChangedRows
<1>1. i \in Ids /\ users[i].pw \in Nat /\ users[i].pw <= Cardinality(Spent(i) \ Promised)
  BY DEF ChangedRows, Accounts, TypeOK, UserRows
<1>2. IsFiniteSet(Spent(i)' \ Promised')
  <2>1. Spent(i)' \ Promised' \in SUBSET Resets
    BY DEF Spent
  <2> QED
    BY <2>1, FS_Subset, AccountsAssumption
<1>3. Cardinality(Spent(i) \ Promised) <= Cardinality(Spent(i)' \ Promised')
  BY <1>1, <1>2, FS_Subset
<1>4. Cardinality(Spent(i) \ Promised) \in Nat /\ Cardinality(Spent(i)' \ Promised') \in Nat
  BY <1>2, SpentIsFinite, FS_CardinalityType
<1> QED
  BY <1>1, <1>3, <1>4

LEMMA StepResets ==
  ASSUME TypeOK, InviteInv, RequestInv, ResetInv, OtherCalls, NEW t \in Threads, Step(t),
         TypeOK', Moves(t)
  PROVE  ResetInv'
<1>1. CASE \/ AskOwner(t) \/ SpendToken(t) \/ CreateInvite(t) \/ RevokeInvite(t) \/ AskToAccept(t)
           \/ ClaimInvite(t) \/ GiveBack(t) \/ RequestAccess(t) \/ InsertRequest(t) \/ ReadPending(t)
           \/ Approve(t) \/ Reject(t) \/ ReadRejected(t) \/ ReadToActivate(t) \/ ReadToDeactivate(t)
  <2>1. UNCHANGED <<users, resets>>
    BY <1>1 DEF AskOwner, SpendToken, CreateInvite, RevokeInvite, AskToAccept, ClaimInvite, GiveBack,
         RequestAccess, InsertRequest, ReadPending, Approve, Reject, ReadRejected, ReadToActivate,
         ReadToDeactivate, store
  <2>2. Kept(ResetPoints)
    <3>1. CASE CreateInvite(t) \/ RevokeInvite(t)
      BY <3>1, Landing DEF Kept
    <3>2. CASE ~ (CreateInvite(t) \/ RevokeInvite(t))
      BY <1>1, <3>2, Landing, KeptElsewhere DEF ResetPoints
    <3> QED
      BY <3>1, <3>2
  <2> QED
    BY <2>1, <2>2, NoUsersFrames, ResetFrameHolds
<1>2. CASE Grant(t) \/ SetActive(t) \/ DeleteRejected(t)
  <2>1. Kept(ResetPoints)
    BY <1>2, Landing, KeptElsewhere DEF ResetPoints
  <2>2. UNCHANGED resets
    BY <1>2 DEF Grant, SetActive, DeleteRejected
  <2>3. ASSUME NEW i \in Accounts' PROVE users'[i].pw \in Nat
    BY <2>3 DEF TypeOK, Accounts, UserRows
  <2>4. ASSUME NEW i \in Accounts' PROVE i \in Accounts /\ users'[i].pw = users[i].pw
    <3>1. CASE Grant(t) \/ SetActive(t)
      <4>1. Accounts' = Accounts /\ \A j \in Accounts : users'[j].pw = users[j].pw
        BY <3>1, Updates
      <4> QED
        BY <4>1
    <3>2. CASE DeleteRejected(t)
      BY <2>4, <3>2, Deletion DEF Accounts
    <3> QED
      BY <1>2, <3>1, <3>2
  <2> QED
    BY <2>1, <2>2, <2>3, <2>4, ResetFrameHolds DEF ResetFrame
<1>3. CASE InsertOwner(t) \/ InsertInvited(t) \/ InsertRequester(t)
  <2>1. Kept(ResetPoints)
    BY <1>3, Landing, KeptElsewhere DEF ResetPoints
  <2>2. UNCHANGED resets
    BY <1>3 DEF InsertOwner, InsertInvited, InsertRequester
  <2>3. CASE UNCHANGED users
    BY <2>1, <2>2, <2>3, NoUsersFrames, ResetFrameHolds
  <2>4. ASSUME NEW i \in Ids, NEW row \in UserRows, Insert(i, row), row.pw = 0
        PROVE  ResetInv'
    BY <2>1, <2>2, <2>4, InsertFrames, ResetFrameHolds
  <2>5. CASE InsertOwner(t)
    <3> DEFINE row == Row(calls[t].name, Owner, TRUE, "owner", Nothing, FALSE)
    <3>1. calls[t].name \in Names
      BY <2>5 DEF InsertOwner, At, OtherCalls
    <3>2. row \in UserRows /\ row.pw = 0
      BY <3>1, AccountsAssumption DEF Row, UserRows
    <3>3. UNCHANGED users \/ \E i \in Ids : Insert(i, row)
      BY <2>5 DEF InsertOwner
    <3> QED
      BY <2>3, <2>4, <3>2, <3>3
  <2>6. CASE InsertInvited(t)
    <3> DEFINE row == Row(calls[t].name, calls[t].role, TRUE, "invite", calls[t].ref, FALSE)
    <3>1. ClaimingCall(t)
      BY <2>6 DEF InsertInvited, At, InviteInv, InviteCalls, InvitePoints
    <3>2. row \in UserRows /\ row.pw = 0
      BY <3>1 DEF Row, UserRows, ClaimingCall
    <3>3. \E i \in Ids : Insert(i, row)
      BY <2>6 DEF InsertInvited
    <3> QED
      BY <2>4, <3>2, <3>3
  <2>7. CASE InsertRequester(t)
    <3> DEFINE row == RequesterRow(calls[t])
    <3>1. calls[t].name \in Names /\ calls[t].ref \in Requests
      BY <2>7 DEF InsertRequester, At, RequestInv, RequestCalls, Asking, AskingCall
    <3>2. row \in UserRows /\ row.pw = 0
      BY <3>1, AccountsAssumption DEF RequesterRow, Row, UserRows
    <3>3. UNCHANGED users \/ \E i \in Ids : Insert(i, row)
      BY <2>7 DEF InsertRequester
    <3> QED
      BY <2>3, <2>4, <3>2, <3>3
  <2> QED
    BY <1>3, <2>5, <2>6, <2>7
<1>4. CASE ReadToIssue(t)
  <2>1. PICK i \in Active, c \in Resets :
          /\ resets[c].state = "none" /\ \A s \in Threads : calls[s].ref # c
          /\ Arrive(t, [Idle EXCEPT !.at = "insert reset", !.user = i, !.ref = c])
    BY <1>4 DEF ReadToIssue
  <2>2. /\ calls'[t].at = "insert reset" /\ calls'[t].user = i /\ calls'[t].ref = c
        /\ calls[t].at = "idle" /\ i \in Ids
    BY <2>1 DEF Arrive, At, Idle, TypeOK, Active, Accounts
  <2>3. UNCHANGED <<users, resets>>
    BY <1>4 DEF ReadToIssue, store
  <2>4. Promised' = Promised
    BY <2>2 DEF Promised, Moves
  <2>5. ChangedRows' /\ OneOpen'
    <3>1. \A j : Spent(j)' = Spent(j)
      BY <2>3 DEF Spent
    <3>2. OneOpen'
      BY <2>3 DEF ResetInv, OneOpen
    <3> QED
      BY <2>3, <2>4, <3>1, <3>2, NothingGained DEF ResetInv
  <2>6. ASSUME NEW s \in Threads, calls'[s].at \in ResetPoints PROVE ResetCall(s)'
    <3>1. \A r \in Threads \ {t} : calls'[r] = calls[r] /\ calls[r].ref # c
      BY <2>1 DEF Moves
    <3>2. CASE s = t
      BY <2>1, <2>2, <2>3, <3>1, <3>2 DEF ResetCall
    <3>3. CASE s # t
      <4>1. ResetCall(s) /\ calls'[s] = calls[s]
        BY <2>6, <3>1, <3>3 DEF ResetInv, ResetCalls
      <4>2. ASSUME NEW r \in Threads \ {s}, calls'[r].at = calls'[s].at, calls'[s].at # "claim reset"
            PROVE  calls'[r].ref # calls'[s].ref
        BY <2>2, <3>1, <3>3, <4>1, <4>2 DEF ResetCall
      <4> QED
        BY <2>3, <4>1, <4>2 DEF ResetCall
    <3> QED
      BY <3>2, <3>3
  <2> QED
    BY <2>5, <2>6 DEF ResetInv, ResetCalls
<1>5. CASE InsertReset(t)
  <2> DEFINE c == calls[t].ref
             u == calls[t].user
  <2>1. ResetCall(t) /\ calls[t].at = "insert reset"
    BY <1>5 DEF InsertReset, At, ResetInv, ResetCalls, ResetPoints
  <2>2. /\ c \in Resets /\ u \in Ids /\ resets[c].state = "none"
        /\ \A s \in Threads \ {t} : calls[s].at = "insert reset" => calls[s].ref # c
    BY <2>1 DEF ResetCall
  <2>3. UNCHANGED users /\ calls'[t].at = "idle"
    BY <1>5, Landing DEF InsertReset
  <2>4. resets' = WithReset(u, c)
    BY <1>5 DEF InsertReset
  <2> HIDE DEF c, u
  <2>5. /\ resets'[c].state = "open" /\ resets'[c].user = u
        /\ \A d \in Resets \ {c} :
             /\ resets'[d].user = resets[d].user
             /\ resets[d].state = "open" /\ resets[d].user = u => resets'[d].state = "revoked"
             /\ ~ (resets[d].state = "open" /\ resets[d].user = u) => resets'[d] = resets[d]
    BY <2>2, <2>4 DEF WithReset, TypeOK, ResetRows
  <2>6. OneOpen'
    BY <2>5 DEF ResetInv, OneOpen
  <2>7. Promised' = Promised
    BY <2>1, <2>3 DEF Promised, Moves
  <2>8. \A j \in Ids : Spent(j) \ Promised \subseteq Spent(j)' \ Promised'
    BY <2>2, <2>5, <2>7 DEF Spent
  <2>9. ChangedRows'
    BY <2>3, <2>8, NothingGained DEF ResetInv
  <2>10. ASSUME NEW s \in Threads, calls'[s].at \in ResetPoints PROVE ResetCall(s)'
    <3>1. \A r \in Threads : calls'[r].at \in ResetPoints => r # t /\ calls'[r] = calls[r]
      BY <2>3 DEF Moves, ResetPoints
    <3>2. ResetCall(s) /\ s # t /\ calls'[s] = calls[s]
      BY <2>10, <3>1 DEF ResetInv, ResetCalls
    <3>3. calls[s].ref \in Resets \ {c}
      BY <2>2, <2>10, <3>2 DEF ResetCall, ResetPoints
    <3>4. \A r \in Threads \ {s} :
            calls'[s].at # "claim reset" /\ calls'[r].at = calls'[s].at => calls'[r].ref # calls'[s].ref
      BY <2>10, <3>1, <3>2 DEF ResetCall
    <3> QED
      BY <2>5, <3>2, <3>3, <3>4 DEF ResetCall
  <2> QED
    BY <2>6, <2>9, <2>10 DEF ResetInv, ResetCalls
<1>6. CASE AskToReset(t)
  <2>1. PICK c \in Resets :
          /\ resets[c].state = "open" /\ resets[c].user \in Active
          /\ Arrive(t, [Idle EXCEPT !.at = "claim reset", !.user = resets[c].user, !.ref = c])
    BY <1>6 DEF AskToReset
  <2>2. /\ calls'[t].at = "claim reset" /\ calls'[t].user = resets[c].user /\ calls'[t].ref = c
        /\ calls[t].at = "idle" /\ resets[c].user \in Ids
    BY <2>1 DEF Arrive, At, Idle, TypeOK, Active, Accounts
  <2>3. UNCHANGED <<users, resets>>
    BY <1>6 DEF AskToReset, store
  <2>4. Promised' = Promised
    BY <2>2 DEF Promised, Moves
  <2>5. ChangedRows' /\ OneOpen'
    <3>1. \A j : Spent(j)' = Spent(j)
      BY <2>3 DEF Spent
    <3>2. OneOpen'
      BY <2>3 DEF ResetInv, OneOpen
    <3> QED
      BY <2>3, <2>4, <3>1, <3>2, NothingGained DEF ResetInv
  <2>6. ASSUME NEW s \in Threads, calls'[s].at \in ResetPoints PROVE ResetCall(s)'
    <3>1. CASE s = t
      BY <2>1, <2>2, <2>3, <3>1 DEF ResetCall
    <3>2. CASE s # t
      <4>1. ResetCall(s) /\ calls'[s] = calls[s]
        BY <2>6, <3>2 DEF Moves, ResetInv, ResetCalls
      <4>2. ASSUME NEW r \in Threads \ {s}, calls'[r].at = calls'[s].at, calls'[s].at # "claim reset"
            PROVE  calls'[r].ref # calls'[s].ref
        BY <2>2, <4>1, <4>2 DEF ResetCall, Moves
      <4> QED
        BY <2>3, <4>1, <4>2 DEF ResetCall
    <3> QED
      BY <3>1, <3>2
  <2> QED
    BY <2>5, <2>6 DEF ResetInv, ResetCalls
<1>7. CASE ClaimReset(t)
  <2> DEFINE c == calls[t].ref
  <2>1. ResetCall(t) /\ calls[t].at = "claim reset"
    BY <1>7 DEF ClaimReset, At, ResetInv, ResetCalls, ResetPoints
  <2>2. UNCHANGED users
    BY <1>7 DEF ClaimReset
  <2>3. CASE Return(t) /\ UNCHANGED resets
    BY <2>2, <2>3, ReturnType, KeptElsewhere, NoUsersFrames, ResetFrameHolds DEF ResetPoints
  <2>4. CASE /\ resets[c].state = "open"
             /\ resets' = [resets EXCEPT ![c].state = "used"]
             /\ Goto(t, "change password")
    <3>1. /\ c \in Resets /\ resets'[c].state = "used" /\ resets'[c].user = resets[c].user
          /\ \A d \in Resets \ {c} : resets'[d] = resets[d]
      BY <2>1, <2>4 DEF TypeOK, ResetRows, ResetCall
    <3>2. /\ calls'[t].at = "change password" /\ calls'[t].user = calls[t].user /\ calls'[t].ref = c
      BY <2>4, GotoType DEF Points
    <3>3. resets[c].state = "open" /\ calls[t].user \in Ids /\ resets[c].user = calls[t].user
      BY <2>1, <2>4 DEF ResetCall
    <3> HIDE DEF c
    <3>4. Promised' = Promised \cup {c}
      BY <2>1, <3>1, <3>2 DEF Promised, Moves, c
    <3>5. \A j \in Ids : Spent(j) \ Promised \subseteq Spent(j)' \ Promised'
      BY <3>1, <3>3, <3>4 DEF Spent
    <3>6. ChangedRows'
      BY <2>2, <3>5, NothingGained DEF ResetInv
    <3>7. OneOpen'
      BY <3>1 DEF ResetInv, OneOpen
    <3>8. ASSUME NEW s \in Threads, calls'[s].at \in ResetPoints PROVE ResetCall(s)'
      <4>1. \A r \in Threads \ {t} : calls'[r] = calls[r]
        BY DEF Moves
      <4>2. \A r \in Threads \ {t} : calls[r].at = "change password" => calls[r].ref # c
        BY <3>3 DEF ResetInv, ResetCalls, ResetPoints, ResetCall
      <4>3. CASE s = t
        BY <3>1, <3>2, <3>3, <4>1, <4>2, <4>3 DEF ResetCall
      <4>4. CASE s # t
        <5>1. ResetCall(s) /\ calls'[s] = calls[s]
          BY <3>8, <4>1, <4>4 DEF ResetInv, ResetCalls
        <5>2. ASSUME NEW r \in Threads \ {s}, calls'[r].at = calls'[s].at, calls'[s].at # "claim reset"
              PROVE  calls'[r].ref # calls'[s].ref
          BY <3>2, <4>1, <4>2, <4>4, <5>1, <5>2 DEF ResetCall
        <5>3. calls[s].at = "insert reset" => calls[s].ref # c
          BY <3>3, <5>1 DEF ResetCall
        <5> QED
          BY <3>1, <4>2, <4>4, <5>1, <5>2, <5>3 DEF ResetCall
      <4> QED
        BY <4>3, <4>4
    <3> QED
      BY <3>6, <3>7, <3>8 DEF ResetInv, ResetCalls
  <2> QED
    BY <1>7, <2>3, <2>4 DEF ClaimReset
<1>8. CASE ChangePassword(t)
  <2> DEFINE c == calls[t].ref
             u == calls[t].user
  <2>1. ResetCall(t) /\ calls[t].at = "change password"
    BY <1>8 DEF ChangePassword, At, ResetInv, ResetCalls, ResetPoints
  <2>2. /\ c \in Resets /\ u \in Ids /\ resets[c].state = "used" /\ resets[c].user = u
        /\ \A s \in Threads \ {t} : calls[s].at = "change password" => calls[s].ref # c
    BY <2>1 DEF ResetCall
  <2>3. UNCHANGED resets /\ calls'[t].at = "idle"
    BY <1>8, Landing DEF ChangePassword
  <2>4. /\ Accounts' = Accounts
        /\ \A i \in Ids \ {u} : users'[i] = users[i]
    BY <1>8, Updates
  <2>5. \A i \in Accounts : i = u => users'[i].pw = users[i].pw + 1
    BY <1>8, Updates
  <2>6. Promised' = Promised \ {c} /\ c \in Promised
    BY <2>1, <2>2, <2>3 DEF Promised, Moves, c
  <2> HIDE DEF c, u
  <2>7. \A j : Spent(j)' = Spent(j)
    BY <2>3 DEF Spent
  <2>8. OneOpen'
    BY <2>3 DEF ResetInv, OneOpen
  <2>9. ASSUME NEW i \in Accounts' PROVE users'[i].pw <= Cardinality(Spent(i) \ Promised)'
    <3>1. /\ i \in Accounts /\ users[i].pw \in Nat
          /\ users[i].pw <= Cardinality(Spent(i) \ Promised)
      BY <2>4, <2>9 DEF ResetInv, ChangedRows, Accounts, TypeOK, UserRows
    <3>2. /\ IsFiniteSet(Spent(i) \ Promised) /\ Cardinality(Spent(i) \ Promised) \in Nat
          /\ IsFiniteSet(Spent(i) \ Promised') /\ Cardinality(Spent(i) \ Promised') \in Nat
      BY SpentIsFinite
    <3>3. CASE i = u
      <4>1. c \notin Spent(i) \ Promised /\ Spent(i) \ Promised' = (Spent(i) \ Promised) \cup {c}
        BY <2>2, <2>6, <3>3 DEF Spent
      <4>2. Cardinality(Spent(i) \ Promised') = Cardinality(Spent(i) \ Promised) + 1
        BY <3>2, <4>1, FS_AddElement
      <4>3. users'[i].pw = users[i].pw + 1
        BY <2>5, <3>1, <3>3
      <4> QED
        BY <2>7, <3>1, <3>2, <4>2, <4>3
    <3>4. CASE i # u
      <4>1. Spent(i) \ Promised \in SUBSET (Spent(i) \ Promised')
        BY <2>6
      <4>2. Cardinality(Spent(i) \ Promised) <= Cardinality(Spent(i) \ Promised')
        BY <3>2, <4>1, FS_Subset
      <4>3. users'[i].pw = users[i].pw
        BY <2>4, <3>1, <3>4 DEF Accounts
      <4> QED
        BY <2>7, <3>1, <3>2, <4>2, <4>3
    <3> QED
      BY <3>3, <3>4
  <2>10. ASSUME NEW s \in Threads, calls'[s].at \in ResetPoints PROVE ResetCall(s)'
    <3>1. \A r \in Threads : calls'[r].at \in ResetPoints => r # t /\ calls'[r] = calls[r]
      BY <2>3 DEF Moves, ResetPoints
    <3>2. ResetCall(s) /\ calls'[s] = calls[s]
      BY <2>10, <3>1 DEF ResetInv, ResetCalls
    <3>3. \A r \in Threads \ {s} :
            calls'[s].at # "claim reset" /\ calls'[r].at = calls'[s].at => calls'[r].ref # calls'[s].ref
      BY <2>10, <3>1, <3>2 DEF ResetCall
    <3> QED
      BY <2>3, <3>2, <3>3 DEF ResetCall
  <2> QED
    BY <2>8, <2>9, <2>10 DEF ResetInv, ChangedRows, ResetCalls
<1> QED
  BY <1>1, <1>2, <1>3, <1>4, <1>5, <1>6, <1>7, <1>8 DEF Step

-----------------------------------------------------------------------------
(* Starts, crashes, and the invariant. *)

\* What a start writes: seed accounts come, and are switched on and off.
LEMMA StartRows ==
  ASSUME TypeOK, Seed \/ Retire
  PROVE  /\ \A i \in Accounts :
              /\ users'[i] \in UserRows /\ SameRow(i)
              /\ users'[i].role = users[i].role /\ users'[i].pw = users[i].pw
         /\ \A i \in Accounts : users'[i].shared => users[i].shared
         /\ \A i \in Accounts : users[i].byHand => users'[i].byHand
         /\ \A i \in Accounts : users'[i].active => users[i].active \/ users[i].shared
         /\ \A i \in Ids \ Accounts :
              \/ users'[i] = Nothing
              \/ /\ users'[i] \in UserRows /\ users'[i].origin = "seed"
                 /\ users'[i].role = Owner /\ users'[i].pw = 0
         /\ users' \in [Ids -> {Nothing} \cup UserRows]
<1>1. ASSUME NEW i \in Accounts PROVE users[i] \in UserRows /\ i \in Ids /\ users[i] # Nothing
  BY DEF Accounts, TypeOK
<1>2. \A i \in Accounts : \/ users'[i] = users[i]
                          \/ users'[i] = [users[i] EXCEPT !.active = FALSE]
                          \/ users'[i] = [users[i] EXCEPT !.active = TRUE] /\ users[i].shared
  <2>1. CASE Retire
    BY <1>1, <2>1 DEF Retire
  <2>2. CASE Seed
    <3>1. PICK new \in [{n \in SeedNames : Named(n) = {}} -> {i \in Ids : users[i] = Nothing}] :
            users' = [i \in Ids |->
              IF \E n \in DOMAIN new : new[n] = i
              THEN Row(CHOOSE n \in DOMAIN new : new[n] = i, Owner, TRUE, "seed", Nothing, TRUE)
              ELSE IF Restorable(i) THEN [users[i] EXCEPT !.active = TRUE] ELSE users[i]]
      BY <2>2 DEF Seed
    <3>2. \A i \in Accounts : ~ \E n \in DOMAIN new : new[n] = i
      BY <1>1
    <3> QED
      BY <1>1, <3>1, <3>2 DEF Restorable
  <2> QED
    BY <2>1, <2>2
<1>3. ASSUME NEW i \in Accounts
      PROVE  /\ users'[i] \in UserRows /\ SameRow(i)
             /\ users'[i].role = users[i].role /\ users'[i].pw = users[i].pw
             /\ users'[i].shared => users[i].shared
             /\ users[i].byHand => users'[i].byHand
             /\ users'[i].active => users[i].active \/ users[i].shared
  <2>1. CASE users'[i] = users[i]
    BY <1>1, <2>1 DEF SameRow
  <2>2. CASE users'[i] = [users[i] EXCEPT !.active = FALSE]
    <3>1. ~ users'[i].active
      BY <1>1, <2>2 DEF UserRows
    <3>2. /\ users'[i] \in UserRows /\ users'[i] # Nothing /\ users'[i].name = users[i].name
          /\ users'[i].origin = users[i].origin /\ users'[i].code = users[i].code
          /\ users'[i].role = users[i].role /\ users'[i].pw = users[i].pw
          /\ users'[i].shared = users[i].shared /\ users'[i].byHand = users[i].byHand
      <4>1. users'[i] \in UserRows
        BY <1>1, <2>2 DEF UserRows
      <4> QED
        BY <1>1, <2>2, <4>1, AccountsAssumption, ZenonT(30) DEF UserRows
    <3> QED
      BY <1>1, <3>1, <3>2 DEF SameRow
  <2>3. CASE users'[i] = [users[i] EXCEPT !.active = TRUE] /\ users[i].shared
    <3>0. users'[i] = [users[i] EXCEPT !.active = TRUE]
      BY <2>3
    <3>1. /\ users'[i] \in UserRows /\ users'[i] # Nothing /\ users'[i].name = users[i].name
          /\ users'[i].origin = users[i].origin /\ users'[i].code = users[i].code
          /\ users'[i].role = users[i].role /\ users'[i].pw = users[i].pw
          /\ users'[i].shared = users[i].shared /\ users'[i].byHand = users[i].byHand
      <4>1. users'[i] \in UserRows
        BY <1>1, <3>0 DEF UserRows
      <4> QED
        BY <1>1, <3>0, <4>1, AccountsAssumption DEF UserRows
    <3> QED
      BY <1>1, <2>3, <3>1 DEF SameRow
  <2> QED
    BY <1>2, <2>1, <2>2, <2>3
<1>4. ASSUME NEW i \in Ids \ Accounts
      PROVE  \/ users'[i] = Nothing
             \/ /\ users'[i] \in UserRows /\ users'[i].origin = "seed"
                /\ users'[i].role = Owner /\ users'[i].pw = 0
  <2>0. users[i] = Nothing
    BY DEF Accounts
  <2>1. CASE Retire
    BY <2>0, <2>1 DEF Retire, Retired
  <2>2. CASE Seed
    <3>1. PICK new \in [{n \in SeedNames : Named(n) = {}} -> {j \in Ids : users[j] = Nothing}] :
            users' = [j \in Ids |->
              IF \E n \in DOMAIN new : new[n] = j
              THEN Row(CHOOSE n \in DOMAIN new : new[n] = j, Owner, TRUE, "seed", Nothing, TRUE)
              ELSE IF Restorable(j) THEN [users[j] EXCEPT !.active = TRUE] ELSE users[j]]
      BY <2>2 DEF Seed
    <3>2. \A n \in SeedNames : Row(n, Owner, TRUE, "seed", Nothing, TRUE) \in UserRows
      BY AccountsAssumption DEF Row, UserRows
    <3>3. CASE \E n \in DOMAIN new : new[n] = i
      <4> DEFINE n == CHOOSE n \in DOMAIN new : new[n] = i
      <4>1. n \in SeedNames
        BY <3>3
      <4> HIDE DEF n
      <4>2. users'[i] = Row(n, Owner, TRUE, "seed", Nothing, TRUE)
        BY <3>1, <3>3 DEF n
      <4> QED
        BY <3>2, <4>1, <4>2 DEF Row
    <3>4. CASE ~ \E n \in DOMAIN new : new[n] = i
      BY <2>0, <3>1, <3>4 DEF Restorable
    <3> QED
      BY <3>3, <3>4
  <2> QED
    BY <2>1, <2>2
<1>5. users' \in [Ids -> {Nothing} \cup UserRows]
  <2>1. \A i \in Ids : users'[i] \in {Nothing} \cup UserRows
    BY <1>3, <1>4
  <2>2. \E f : users' = [i \in Ids |-> f[i]]
    <3>1. users' = [i \in Ids |-> users'[i]]
      BY DEF Retire, Seed
    <3> QED
      BY <3>1
  <2> QED
    BY <2>1, <2>2
<1> QED
  BY <1>3, <1>4, <1>5

LEMMA StartKeeps == IInv /\ Start => IInv'
<1> SUFFICES ASSUME IInv, Start PROVE IInv'
  OBVIOUS
<1> USE DEF IInv
<1>1. (Seed \/ Retire) /\ UNCHANGED <<invites, requests, resets, calls>> /\ up'
  BY DEF Start, Provision
<1>2. TypeOK'
  <2>1. token' \in Nat /\ starts' \in Nat /\ up' \in BOOLEAN /\ demo' \in BOOLEAN
    BY DEF Start, Provision, IssueSetupToken, TypeOK
  <2> QED
    BY <1>1, <2>1, StartRows DEF TypeOK
<1>3. \A t \in Threads : calls[t] = Idle
  BY DEF Start, NoCallsDown
<1>4. Kept(InvitePoints) /\ Kept(Asking \cup Deciding) /\ Kept(ResetPoints)
  BY <1>1 DEF Kept
<1>5. \A i \in Accounts :
        /\ SameRow(i) /\ users'[i].role = users[i].role /\ users'[i].pw = users[i].pw
        /\ users'[i].pw \in Nat
  <2>1. \A i \in Accounts :
          /\ users'[i] \in UserRows /\ SameRow(i)
          /\ users'[i].role = users[i].role /\ users'[i].pw = users[i].pw
    BY <1>1, StartRows
  <2> QED
    BY <2>1 DEF UserRows
<1>6. \A i \in Accounts' \ Accounts :
        /\ users'[i].origin = "seed" /\ users'[i].role = Owner /\ users'[i].pw = 0
  <2>1. \A i \in Ids \ Accounts :
          \/ users'[i] = Nothing
          \/ users'[i].origin = "seed" /\ users'[i].role = Owner /\ users'[i].pw = 0
    BY <1>1, StartRows
  <2> QED
    BY <2>1 DEF Accounts
<1>7. InviteInv'
  <2>1. InviteFrame
    BY <1>1, <1>4, <1>5, <1>6 DEF InviteFrame
  <2> QED
    BY <2>1, InviteFrameHolds
<1>8. RequestInv'
  <2>1. ASSUME NEW i \in Accounts
        PROVE  /\ users'[i].shared => users[i].shared
               /\ users[i].byHand => users'[i].byHand
    BY <1>1, StartRows
  <2>2. ASSUME NEW i \in Accounts, users'[i].active, users[i].origin = "request"
        PROVE  users[i].active
    <3>1. users[i].active \/ users[i].shared
      <4>1. \A j \in Accounts : users'[j].active => users[j].active \/ users[j].shared
        BY <1>1, StartRows
      <4> QED
        BY <2>2, <4>1, Zenon
    <3>2. ~ users[i].shared
      BY <2>2 DEF RequestInv, RequestedRows, RequestRow
    <3> QED
      BY <3>1, <3>2
  <2>3. \A t \in Threads : calls'[t].at \notin Deciding
    BY <1>1, <1>3, IdleType DEF Deciding
  <2>4. RequestFrame
    BY <1>1, <1>4, <1>5, <1>6, <2>1, <2>2, <2>3 DEF RequestFrame
  <2> QED
    BY <2>4, RequestFrameHolds
<1>9. ResetInv'
  <2>1. ResetFrame
    BY <1>1, <1>4, <1>5, <1>6 DEF ResetFrame
  <2> QED
    BY <2>1, ResetFrameHolds
<1>10. OtherCalls' /\ NoCallsDown'
  BY <1>1 DEF OtherCalls, NoCallsDown
<1> QED
  BY <1>2, <1>7, <1>8, <1>9, <1>10

LEMMA CrashKeeps == IInv /\ Crash => IInv'
<1> SUFFICES ASSUME IInv, Crash PROVE IInv'
  OBVIOUS
<1> USE DEF IInv
<1>1. UNCHANGED <<demo, starts, users, invites, requests, resets, token>> /\ up' = FALSE
  BY DEF Crash, store
<1>2. calls' = [t \in Threads |-> Idle]
  BY DEF Crash
<1>3. TypeOK'
  BY <1>1, <1>2, IdleType DEF TypeOK
<1>4. \A t \in Threads : calls'[t] = Idle /\ calls'[t].at = "idle"
  BY <1>2 DEF Idle
<1>5. Kept(InvitePoints) /\ Kept(Asking \cup Deciding) /\ Kept(ResetPoints)
  BY <1>4 DEF Kept, InvitePoints, Asking, Deciding, ResetPoints
<1>6. InviteInv' /\ RequestInv' /\ ResetInv'
  BY <1>1, <1>5, NoUsersFrames, InviteFrameHolds, RequestFrameHolds, ResetFrameHolds
<1>7. OtherCalls' /\ NoCallsDown'
  BY <1>4 DEF OtherCalls, NoCallsDown
<1> QED
  BY <1>3, <1>6, <1>7

LEMMA StepKeepsOtherCalls ==
  ASSUME TypeOK, OtherCalls, NEW t \in Threads, Step(t), Moves(t)
  PROVE  OtherCalls'
<1>1. ASSUME NEW s \in Threads \ {t}
      PROVE  /\ calls'[s].at = "set active" => calls'[s].user \in Ids
             /\ calls'[s].at = "insert owner" => calls'[s].name \in Names
  BY DEF Moves, OtherCalls
<1>2. calls'[t].at = "set active" => calls'[t].user \in Ids
  <2>1. CASE ReadToActivate(t) \/ ReadToDeactivate(t)
    <3>1. PICK i \in Accounts, f \in BOOLEAN :
            Arrive(t, [Idle EXCEPT !.at = "set active", !.user = i, !.on = f])
      BY <2>1 DEF ReadToActivate, ReadToDeactivate
    <3> QED
      BY <3>1 DEF Arrive, Idle, TypeOK, Accounts
  <2>2. CASE CreateInvite(t) \/ RevokeInvite(t)
    BY <2>2, Landing DEF OtherCalls
  <2>3. CASE ~ (ReadToActivate(t) \/ ReadToDeactivate(t) \/ CreateInvite(t) \/ RevokeInvite(t))
    BY <2>3, Landing DEF Step
  <2> QED
    BY <2>1, <2>2, <2>3
<1>3. calls'[t].at = "insert owner" => calls'[t].name \in Names
  <2>1. CASE AskOwner(t)
    <3>1. PICK n \in Names : Arrive(t, [Idle EXCEPT !.at = "insert owner", !.name = n])
      BY <2>1 DEF AskOwner
    <3> QED
      BY <3>1 DEF Arrive, Idle, TypeOK
  <2>2. CASE CreateInvite(t) \/ RevokeInvite(t)
    BY <2>2, Landing DEF OtherCalls
  <2>3. CASE ~ (AskOwner(t) \/ CreateInvite(t) \/ RevokeInvite(t))
    BY <2>3, Landing DEF Step
  <2> QED
    BY <2>1, <2>2, <2>3
<1> QED
  BY <1>1, <1>2, <1>3 DEF OtherCalls

LEMMA InitHolds == Init => IInv
<1> SUFFICES ASSUME Init PROVE IInv
  OBVIOUS
<1>1. Accounts = {}
  BY DEF Init, Accounts
<1>2. \A t \in Threads : calls[t] = Idle /\ calls[t].at = "idle"
  BY DEF Init, Idle
<1>3. TypeOK
  <2>1. [state |-> "none", role |-> Nothing, by |-> Nothing] \in InviteRows
    BY DEF InviteRows
  <2>2. [status |-> "none", user |-> Nothing, granted |-> Nothing] \in RequestRows
    BY DEF RequestRows
  <2>3. [state |-> "none", user |-> Nothing] \in ResetRows
    BY DEF ResetRows
  <2> QED
    BY <2>1, <2>2, <2>3, IdleType DEF Init, TypeOK
<1>4. InviteInv
  BY <1>1, <1>2 DEF Init, InviteInv, InvitedOnce, InvitedRows, IssuedWithRole, InviteCalls, InvitePoints
<1>5. RequestInv
  BY <1>1, <1>2 DEF Init, RequestInv, RequestedRows, RequestTable, RequestCalls, Asking, Deciding
<1>6. ResetInv
  BY <1>1, <1>2 DEF Init, ResetInv, ChangedRows, OneOpen, ResetCalls, ResetPoints
<1>7. OtherCalls /\ NoCallsDown
  BY <1>2 DEF OtherCalls, NoCallsDown
<1> QED
  BY <1>3, <1>4, <1>5, <1>6, <1>7 DEF IInv

LEMMA StutterKeeps == IInv /\ UNCHANGED vars => IInv'
<1> SUFFICES ASSUME IInv, UNCHANGED vars PROVE IInv'
  OBVIOUS
<1> USE DEF IInv
<1>1. UNCHANGED <<up, demo, starts, users, invites, requests, resets, token, calls>>
  BY DEF vars, store
<1>2. TypeOK' /\ OtherCalls' /\ NoCallsDown'
  BY <1>1 DEF TypeOK, OtherCalls, NoCallsDown
<1>3. Kept(InvitePoints) /\ Kept(Asking \cup Deciding) /\ Kept(ResetPoints)
  BY <1>1 DEF Kept
<1> QED
  BY <1>1, <1>2, <1>3, NoUsersFrames, InviteFrameHolds, RequestFrameHolds, ResetFrameHolds

\* Whatever the threads do between two starts, and wherever a crash cuts them,
\* what each request in progress relies on stays true until it writes.
THEOREM AccountsInvariant == Spec => []IInv
<1>1. IInv /\ [Next]_vars => IInv'
  <2> SUFFICES ASSUME IInv, [Next]_vars PROVE IInv'
    OBVIOUS
  <2>1. CASE Start
    BY <2>1, StartKeeps
  <2>2. CASE Crash
    BY <2>2, CrashKeeps
  <2>3. ASSUME NEW t \in Threads, Step(t) PROVE IInv'
    <3>1. TypeOK /\ InviteInv /\ RequestInv /\ ResetInv /\ OtherCalls
      BY DEF IInv
    <3>2. TypeOK' /\ Moves(t) /\ up'
      BY <2>3, <3>1, StepType
    <3>3. InviteInv' /\ RequestInv' /\ ResetInv'
      BY <2>3, <3>1, <3>2, StepInvites, StepRequests, StepResets
    <3>4. OtherCalls'
      BY <2>3, <3>1, <3>2, StepKeepsOtherCalls
    <3> QED
      BY <3>2, <3>3, <3>4 DEF IInv, NoCallsDown
  <2>4. CASE UNCHANGED vars
    BY <2>4, StutterKeeps
  <2> QED
    BY <2>1, <2>2, <2>3, <2>4 DEF Next
<1> QED
  BY <1>1, InitHolds, PTL DEF Spec

\* No account has a role nobody entitled decided: the rows a claim, a request
\* or an approval writes carry the role of the very code or decision they came
\* from, at every interleaving (request_access, approve_request, accept_invite).
THEOREM RolesAreDecided == Spec => []RoleWasDecided
<1>1. IInv => RoleWasDecided
  <2> SUFFICES ASSUME IInv, NEW i \in Accounts
               PROVE  /\ users[i].origin = "invite" => users[i].role = invites[users[i].code].role
                      /\ users[i].origin = "request" =>
                           \/ users[i].role = Placeholder
                           \/ /\ requests[users[i].code].status = "approved"
                              /\ users[i].role = requests[users[i].code].granted
                      /\ users[i].origin \notin {"invite", "request"} => users[i].role = Owner
    BY DEF RoleWasDecided
  <2>1. users[i] \in UserRows
    BY DEF IInv, TypeOK, Accounts
  <2>2. users[i].origin \in {"seed", "owner", "invite", "request"}
    BY <2>1 DEF UserRows
  <2>3. RequestRow(i)
    BY DEF IInv, RequestInv, RequestedRows
  <2> QED
    BY <2>2, <2>3 DEF IInv, InviteInv, InvitedRows, RequestRow
<1> QED
  BY <1>1, AccountsInvariant, PTL

\* Of an approval and a rejection of one request in flight together, only the
\* one that decided it lets anybody in (decide_access_request).
THEOREM OnlyApprovedSignIn == Spec => []ActiveWasApproved
<1>1. IInv => ActiveWasApproved
  BY DEF IInv, ActiveWasApproved, RequestInv, RequestedRows, RequestRow, Active
<1> QED
  BY <1>1, AccountsInvariant, PTL

\* An invitation lets one account in and a reset code changes one password
\* (claim_invite, claim_password_reset).
THEOREM CodesWorkOnce == Spec => []CodesSpentOnce
<1>1. IInv => CodesSpentOnce
  <2> SUFFICES ASSUME IInv PROVE CodesSpentOnce
    OBVIOUS
  <2>1. InvitedOnce /\ OneOpen
    BY DEF IInv, InviteInv, ResetInv
  <2>2. ASSUME NEW i \in Accounts PROVE users[i].pw <= Cardinality(Spent(i))
    <3>1. users[i].pw \in Nat /\ users[i].pw <= Cardinality(Spent(i) \ Promised)
      BY DEF IInv, ResetInv, ChangedRows, Accounts, TypeOK, UserRows
    <3>2. Spent(i) = Spent(i) \ {} /\ Spent(i) \ Promised \in SUBSET Spent(i)
      OBVIOUS
    <3>3. IsFiniteSet(Spent(i)) /\ Cardinality(Spent(i)) \in Nat
          /\ Cardinality(Spent(i) \ Promised) \in Nat
      BY <3>2, SpentIsFinite
    <3>4. Cardinality(Spent(i) \ Promised) <= Cardinality(Spent(i))
      BY <3>2, <3>3, FS_Subset
    <3> QED
      BY <3>1, <3>3, <3>4
  <2> QED
    BY <2>1, <2>2 DEF CodesSpentOnce, ResetsSpentOnce, OneOpen, Spent
<1> QED
  BY <1>1, AccountsInvariant, PTL

\* Every start outside demo mode leaves an administrator or a setup token
\* (lifespan, retire_demo_accounts, issue_setup_token).
THEOREM StartsLeaveAWayIn == Spec => StartLeavesAWayIn
<1>1. TypeOK /\ [Next]_vars => [~up /\ up' /\ ~demo' => HasAdministrator' \/ token' # 0]_vars
  <2> SUFFICES ASSUME TypeOK, Next, ~up, up', ~demo' PROVE HasAdministrator' \/ token' # 0
    BY DEF Start
  <2>1. ~ Crash /\ \A t \in Threads : ~ Step(t)
    BY ZenonT(60) DEF Crash, Step, AskOwner, InsertOwner, SpendToken, CreateInvite, RevokeInvite, AskToAccept,
         ClaimInvite, InsertInvited, GiveBack, RequestAccess, InsertRequester, InsertRequest,
         ReadPending, Approve, Grant, Reject, ReadRejected, DeleteRejected, ReadToActivate,
         ReadToDeactivate, SetActive, ReadToIssue, InsertReset, AskToReset, ClaimReset,
         ChangePassword, Arrive, At
  <2>2. Start
    BY <2>1 DEF Next
  <2> QED
    BY <2>2 DEF Start, Provision, IssueSetupToken, TypeOK
<1>2. IInv => TypeOK
  BY DEF IInv
<1> QED
  BY <1>1, <1>2, AccountsInvariant, PTL DEF Spec, StartLeavesAWayIn
=============================================================================
