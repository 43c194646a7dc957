-------------------------------- MODULE SignIn --------------------------------
(***************************************************************************)
(* Signing in: the login route (backend/api/routes/system.py), the         *)
(* throttle on failed attempts (backend/security/throttle.py), sessions    *)
(* (backend/core/identity.py) and the two places that end an account's     *)
(* sessions, a password reset and a deactivation (backend/core/accounts.py).*)
(*                                                                         *)
(* The route is a plain function, so sign-ins run in threads.  The         *)
(* throttle holds a lock for each of its calls but not between them, and   *)
(* every database call is a transaction of its own: signIns[t].at names    *)
(* the next call of the sign-in thread t is in.  Passwords are versions:   *)
(* users[a].password is the one in force, and no guess is ever version 0.  *)
(* The clock counts ticks.  The expiry of a session is one disjunct of     *)
(* Logout; audit records are left out.                                     *)
(***************************************************************************)
EXTENDS Naturals, FiniteSets, Sequences

CONSTANTS People,        \* accounts
          Clients,       \* client addresses
          Logins,        \* threads that serve the login route
          MaxFailures, SprayAccounts, Window, Lockout,  \* config/app.yaml, security
          MaxTime, MaxChanges, MaxSessions   \* bounds

ASSUME SignInAssumption ==
  /\ People \cap Clients = {} /\ IsFiniteSet(Logins)
  /\ MaxFailures \in Nat \ {0} /\ SprayAccounts \in Nat \ {0}
  /\ Window \in Nat \ {0} /\ Lockout \in Nat /\ Window <= Lockout
  /\ MaxTime \in Nat /\ MaxChanges \in Nat /\ MaxSessions \in Nat \ {0}

VARIABLES
  now,
  failures,   \* _account_failures: People -> times
  tried,      \* _client_failures: Clients -> People -> when the account last failed there, or 0
  lockedTill, \* _locked_until: account or client -> time, 0 when there is none
  users,      \* People -> [password, active, ending]: ending, the second write is to come
  changes,    \* how many times an account's sessions were to be ended
  sessions,   \* the sessions table; spared: missed by a change that ended the account's others
  signIns,    \* Logins -> the sign-in in progress
  guesses     \* history: People -> when a wrong password was tried on the account

throttle == <<failures, tried, lockedTill>>
signInVars == <<now, throttle, users, changes, sessions, signIns, guesses>>

Waiting == [at |-> "idle"]
NoneTried == [a \in People |-> 0]

(***************************************************************************)
(* LoginThrottle.                                                          *)
(***************************************************************************)
Locked(a, c) == lockedTill[a] > now \/ lockedTill[c] > now

\* A deque loses its head while that is more than a window before the time.
Since(times, time) ==
  LET kept == {i \in 1..Len(times) : times[i] + Window >= time}
  IN  IF kept = {} THEN <<>>
      ELSE SubSeq(times, CHOOSE i \in kept : \A j \in kept : i <= j, Len(times))

Recent(times) == Since(times, now)
TriedRecently(c) == {b \in People : tried[c][b] > 0 /\ now - tried[c][b] <= Window}

\* Mutant: one failure more than max_failures
PassesLimit(times) == Len(times) > MaxFailures
ReachesLimit(times) == Len(times) >= MaxFailures

\* failed: both counts, each of which may lock and start again from nothing
RecordFailure(a, c) ==
  LET recent == Recent(Append(failures[a], now))
      account == ReachesLimit(recent)
      client == Cardinality(TriedRecently(c) \cup {a}) >= SprayAccounts
  IN  /\ failures' = [failures EXCEPT ![a] = IF account THEN <<>> ELSE recent]
      /\ tried' = [tried EXCEPT ![c] = IF client THEN NoneTried ELSE [@ EXCEPT ![a] = now]]
      /\ lockedTill' = [k \in People \cup Clients |->
           IF (k = a /\ account) \/ (k = c /\ client) THEN now + Lockout ELSE lockedTill[k]]

\* succeeded: the account's count and its lock, never the client's
ClearFailures(a) ==
  /\ failures' = [failures EXCEPT ![a] = <<>>]
  /\ lockedTill' = [lockedTill EXCEPT ![a] = 0]
  /\ UNCHANGED tried

(***************************************************************************)
(* The login route, call by call.                                          *)
(***************************************************************************)
Step(t, a, at) == signIns[t].at = at /\ signIns[t].name = a

AskToSignIn(t, a, c, p) ==
  /\ signIns[t] = Waiting /\ ~Locked(a, c)
  /\ signIns' = [signIns EXCEPT ![t] =
       [at |-> "read", name |-> a, client |-> c, password |-> p, late |-> FALSE]]
  /\ UNCHANGED <<now, throttle, users, changes, sessions, guesses>>

\* authenticate reads the row once and judges by it
Admitted(a, p) == users[a].active /\ users[a].password = p

CheckPassword(t, a) ==
  /\ Step(t, a, "read")
  /\ LET p == signIns[t].password
     IN  /\ signIns' = [signIns EXCEPT ![t].at = IF Admitted(a, p) THEN "open" ELSE "refused"]
         /\ guesses' = IF users[a].active /\ ~Admitted(a, p)
                       THEN [guesses EXCEPT ![a] = Append(@, now)] ELSE guesses
  /\ UNCHANGED <<now, throttle, users, changes, sessions>>

OpenSession(t, a) ==
  /\ Step(t, a, "open") /\ Cardinality(sessions) < MaxSessions
  /\ sessions' = sessions \cup
       {[user |-> a, password |-> signIns[t].password, spared |-> signIns[t].late]}
  /\ signIns' = [signIns EXCEPT ![t].at = "opened"]
  /\ UNCHANGED <<now, throttle, users, changes, guesses>>

Welcome(t, a) ==
  /\ Step(t, a, "opened")
  /\ ClearFailures(a)
  /\ guesses' = [guesses EXCEPT ![a] = <<>>]
  /\ signIns' = [signIns EXCEPT ![t] = Waiting]
  /\ UNCHANGED <<now, users, changes, sessions>>

Refuse(t, a) ==
  /\ Step(t, a, "refused")
  /\ RecordFailure(a, signIns[t].client)
  /\ signIns' = [signIns EXCEPT ![t] = Waiting]
  /\ UNCHANGED <<now, users, changes, sessions, guesses>>

(***************************************************************************)
(* What ends sessions: accept_password_reset writes the password and       *)
(* set_active the flag, and each deletes the account's sessions in a       *)
(* second transaction.                                                     *)
(***************************************************************************)
ChangePassword(a) ==
  /\ users[a].ending = FALSE /\ users[a].active /\ changes < MaxChanges
  /\ users' = [users EXCEPT ![a] = [password |-> @.password + 1, active |-> TRUE, ending |-> TRUE]]
  /\ changes' = changes + 1
  /\ UNCHANGED <<now, throttle, sessions, signIns, guesses>>

SetActive(a, on) ==
  /\ users[a].ending = FALSE /\ users[a].active # on /\ (on \/ changes < MaxChanges)
  /\ users' = [users EXCEPT ![a].active = on, ![a].ending = ~on]
  /\ changes' = IF on THEN changes ELSE changes + 1
  /\ UNCHANGED <<now, throttle, sessions, signIns, guesses>>

\* Mutant: spares the sessions of the password now in force, a deactivated account's too
RemainingOrCurrent(a) == {s \in sessions : s.user # a \/ s.password = users[a].password}
\* delete_user_sessions
Remaining(a) == {s \in sessions : s.user # a}

EndSessions(a) ==
  /\ users[a].ending
  /\ sessions' = Remaining(a)
  /\ users' = [users EXCEPT ![a].ending = FALSE]
  /\ signIns' = [t \in Logins |-> IF Step(t, a, "open") THEN [signIns[t] EXCEPT !.late = TRUE]
                                  ELSE signIns[t]]
  /\ UNCHANGED <<now, throttle, changes, guesses>>

\* logout, and resolve_session when the session has run out
Logout(s) ==
  /\ sessions' = sessions \ {s}
  /\ UNCHANGED <<now, throttle, users, changes, signIns, guesses>>

(***************************************************************************)
(* Time, and a restart: the throttle is in memory and sessions are not.    *)
(* A death between the two writes of a change spares every session, and    *)
(* nothing at start ends them.                                             *)
(***************************************************************************)
Tick ==
  /\ now < MaxTime /\ now' = now + 1
  /\ guesses' = [a \in People |-> Since(guesses[a], now' + 1)]
  /\ UNCHANGED <<throttle, users, changes, sessions, signIns>>

NoTimes == [a \in People |-> <<>>]
NoLock == [k \in People \cup Clients |-> 0]
NoSignIns == [t \in Logins |-> Waiting]

RestartLogin ==
  /\ failures' = NoTimes /\ tried' = [c \in Clients |-> NoneTried] /\ lockedTill' = NoLock
  /\ signIns' = NoSignIns /\ guesses' = NoTimes
  /\ users' = [a \in People |-> [users[a] EXCEPT !.ending = FALSE]]
  /\ sessions' = {[s EXCEPT !.spared = @ \/ users[s.user].ending] : s \in sessions}
  /\ UNCHANGED <<now, changes>>

SignInInit ==
  /\ failures = NoTimes /\ tried = [c \in Clients |-> NoneTried] /\ lockedTill = NoLock
  /\ signIns = NoSignIns /\ guesses = NoTimes
  /\ now = 1 /\ changes = 0 /\ sessions = {}
  /\ users = [a \in People |-> [password |-> 1, active |-> TRUE, ending |-> FALSE]]

SignInNext ==
  \/ \E t \in Logins, a \in People :
       \/ \E c \in Clients, p \in {0, users[a].password} : AskToSignIn(t, a, c, p)
       \/ CheckPassword(t, a) \/ OpenSession(t, a) \/ Welcome(t, a) \/ Refuse(t, a)
  \/ \E a \in People : \/ ChangePassword(a) \/ EndSessions(a)
                       \/ \E on \in BOOLEAN : SetActive(a, on)
  \/ \E s \in sessions : Logout(s)
  \/ Tick \/ RestartLogin

SignInSpec == SignInInit /\ [][SignInNext]_signInVars

-----------------------------------------------------------------------------
(***************************************************************************)
(* Between two successful sign-ins, an account has at most MaxFailures - 1 *)
(* wrong passwords tried on it within a window, and one more for each      *)
(* thread that was already past locked_for when the lock came: the check   *)
(* and the count are separate calls (throttle.py 50-80).                   *)
(***************************************************************************)
GuessesAreBounded ==
  \A a \in People : Len(guesses[a]) <= MaxFailures - 1 + Cardinality(Logins)

(***************************************************************************)
(* "Whoever held the old password is signed out everywhere" (accounts.py   *)
(* 694), and so is whoever held an account that is deactivated.  Once the  *)
(* change is through, the sessions it missed are those of a sign-in whose  *)
(* password had already been accepted when the others were ended, and, if  *)
(* the program died between the two writes, those open at that moment.     *)
(***************************************************************************)
OldPasswordsSignedOut ==
  \A s \in sessions :
    \/ s.spared \/ users[s.user].ending
    \/ users[s.user].active /\ s.password = users[s.user].password
=============================================================================
