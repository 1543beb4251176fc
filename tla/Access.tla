-------------------------------- MODULE Access --------------------------------
(* Who may use the gateway: the users, as the control plane creates, disables  *)
(* and resets them, and the sessions that logins open and revocations end.  A  *)
(* login is a series of separate steps: the failure limiter, the password, the *)
(* limiter again and the store, with other logins and the administrator in     *)
(* between; the control plane's changes are one transaction each.              *)
EXTENDS Integers, Sequences, FiniteSets

CONSTANTS
  Users, Passwords, Identities,   \* user names, passwords and synthetic IDs
  Clients,                        \* devices that log in, all at one address
  Limit, Block, TTL,              \* loginFailureLimit and the two durations
  MaxSteps, MaxTime,              \* bounds: requests made, and the clock
  Nothing

VARIABLES
  account,    \* users: password, synthetic ID, enabled; when all was revoked
  sessions,   \* gateway_sessions, in the order they were saved
  failures,   \* loginFailureLimiter.entries
  login,      \* the login each client has under way
  now, step

vars == <<account, sessions, failures, login, now, step>>

\* A user of the store, and the step at which its sessions were last ended.
AccountRecord ==
  [password : Passwords, id : Identities, enabled : BOOLEAN, cut : 0..MaxSteps]

\* A failure counts against a limit, Nothing is neither a user nor a time, and the
\* answers to a client are no identities.
Assumption ==
  /\ Limit \in Nat \ {0} /\ Block \in Nat /\ TTL \in Nat /\ MaxSteps \in Nat
  /\ IsFiniteSet(Clients)
  /\ Nothing \notin AccountRecord \cup Nat
  /\ "unauthorized" \notin Identities /\ "forbidden" \notin Identities

NoLogin == [pc |-> "idle", user |-> Nothing, password |-> Nothing, id |-> Nothing, at |-> 0]

Init ==
  /\ account = [u \in Users |-> Nothing]
  /\ sessions = <<>>
  /\ failures = [u \in Users |-> Nothing]
  /\ login = [c \in Clients |-> NoLogin]
  /\ now = 0 /\ step = 0

-----------------------------------------------------------------------------
(* What the handlers compute *)

Exists(u) == account[u] # Nothing

Active(s) == ~s.revoked /\ now < s.expires
ActiveSession(t) == t \in DOMAIN sessions /\ Active(sessions[t])

\* handleCurrentUser: what a client may know of the user behind its token.
CurrentUser(t, requested) ==
  IF ~ActiveSession(t) THEN "unauthorized"
  ELSE IF requested \in {"Me", sessions[t].id} THEN sessions[t].id ELSE "forbidden"

PublicUsers == {account[u].id : u \in {v \in Users : Exists(v) /\ account[v].enabled}}

\* A session limiter entry is dropped by the first look after its block.
Expired(f) == f # Nothing /\ f.till # Nothing /\ now >= f.till
Blocked(f) == f # Nothing /\ f.till # Nothing /\ now < f.till

RecordedFailure(f) ==
  LET n == IF f = Nothing THEN 1 ELSE f.count + 1 IN
  [count |-> n,
   till |-> IF n >= Limit THEN now + Block ELSE IF f = Nothing THEN Nothing ELSE f.till]

Authenticates_Faulty(u, p) == Exists(u) /\ account[u].password = p
Authenticates(u, p) == Exists(u) /\ account[u].enabled /\ account[u].password = p

\* revokeUserSessionsTx
WithoutSessions_Faulty(u) ==
  [t \in DOMAIN sessions |->
     IF sessions[t].user = u /\ t < Len(sessions)
     THEN [sessions[t] EXCEPT !.revoked = TRUE] ELSE sessions[t]]
WithoutSessions(u) ==
  [t \in DOMAIN sessions |->
     IF sessions[t].user = u THEN [sessions[t] EXCEPT !.revoked = TRUE] ELSE sessions[t]]

\* createUserRecord, with the unique index on the synthetic ID
Creatable(u, id) == \A v \in Users : Exists(v) => account[v].id # id
Created(p, id) == [password |-> p, id |-> id, enabled |-> TRUE, cut |-> 0]

Upserted_Faulty(a, p, id) == [a EXCEPT !.password = p, !.id = id]
Upserted(a, p, id) == IF a.id = id THEN [a EXCEPT !.password = p] ELSE a

Turn == step < MaxSteps /\ step' = step + 1

-----------------------------------------------------------------------------
(* A login *)

\* handleAuthenticate: the limiter, then the body's fields.
Login(c, u, p) ==
  /\ login[c].pc = "idle" /\ Turn
  /\ failures' = [failures EXCEPT ![u] = IF Expired(@) THEN Nothing ELSE @]
  /\ login' = IF Blocked(failures[u]) \/ p = Nothing THEN login
              ELSE [login EXCEPT ![c] = [NoLogin EXCEPT !.pc = "check", !.user = u,
                                                        !.password = p]]
  /\ UNCHANGED <<account, sessions, now>>

AuthenticateGatewayUser(c) ==
  LET l == login[c]
      ok == Authenticates(l.user, l.password) IN
  /\ l.pc = "check"
  /\ login' = [login EXCEPT ![c].pc = IF ok THEN "known" ELSE "refused",
                            ![c].id = IF ok THEN account[l.user].id ELSE Nothing,
                            ![c].at = step]
  /\ UNCHANGED <<account, sessions, failures, now, step>>

RecordFailure(c) ==
  /\ login[c].pc = "refused"
  /\ failures' = [failures EXCEPT ![login[c].user] = RecordedFailure(@)]
  /\ login' = [login EXCEPT ![c] = NoLogin]
  /\ UNCHANGED <<account, sessions, now, step>>

ClearFailures(c) ==
  /\ login[c].pc = "known"
  /\ failures' = [failures EXCEPT ![login[c].user] = Nothing]
  /\ login' = [login EXCEPT ![c].pc = "save"]
  /\ UNCHANGED <<account, sessions, now, step>>

NewSession(l) ==
  [user |-> l.user, id |-> l.id, revoked |-> FALSE, expires |-> now + TTL,
   known |-> l.at, saved |-> step]

SaveSession(c) ==
  /\ login[c].pc = "save"
  /\ sessions' = Append(sessions, NewSession(login[c]))
  /\ login' = [login EXCEPT ![c] = NoLogin]
  /\ UNCHANGED <<account, failures, now, step>>

SaveFails(c) ==
  /\ login[c].pc = "save"
  /\ login' = [login EXCEPT ![c] = NoLogin]
  /\ UNCHANGED <<account, sessions, failures, now, step>>

Revoked(t) == [sessions EXCEPT ![t].revoked = TRUE]

\* Only an active session can log out; one that has run out is refused.
Logout(t) ==
  /\ Turn
  /\ ActiveSession(t)
  /\ sessions' = Revoked(t)
  /\ UNCHANGED <<account, failures, login, now>>

-----------------------------------------------------------------------------
(* The control plane: a transaction each *)

CreateUser(u, p, id) ==
  /\ Turn
  /\ ~Exists(u) /\ Creatable(u, id)
  /\ account' = [account EXCEPT ![u] = Created(p, id)]
  /\ UNCHANGED <<sessions, failures, login, now>>

\* The set-up command: a new password leaves the sessions alone.
UpsertUser(u, p, id) ==
  /\ Turn
  /\ Exists(u)
  /\ account' = [account EXCEPT ![u] = Upserted(@, p, id)]
  /\ UNCHANGED <<sessions, failures, login, now>>

SetUserEnabled(u, enabled) ==
  /\ Turn
  /\ Exists(u)
  /\ account' = [account EXCEPT ![u].enabled = enabled,
                                ![u].cut = IF enabled THEN @ ELSE step']
  /\ sessions' = IF enabled THEN sessions ELSE WithoutSessions(u)
  /\ UNCHANGED <<failures, login, now>>

ResetUserPassword(u, p) ==
  /\ Turn
  /\ Exists(u)
  /\ account' = [account EXCEPT ![u].password = p, ![u].cut = step']
  /\ sessions' = WithoutSessions(u)
  /\ UNCHANGED <<failures, login, now>>

RevokeUserSessions(u) ==
  /\ Turn
  /\ Exists(u)
  /\ account' = [account EXCEPT ![u].cut = step']
  /\ sessions' = WithoutSessions(u)
  /\ UNCHANGED <<failures, login, now>>

\* A session that is over keeps the date of its end.
RevokeSessionByID(t) ==
  /\ Turn
  /\ ~sessions[t].revoked
  /\ sessions' = Revoked(t)
  /\ UNCHANGED <<account, failures, login, now>>

Tick ==
  /\ now < MaxTime
  /\ now' = now + 1
  /\ UNCHANGED <<account, sessions, failures, login, step>>

LoginStep(c) ==
  \/ AuthenticateGatewayUser(c) \/ RecordFailure(c) \/ ClearFailures(c)
  \/ SaveSession(c) \/ SaveFails(c)

Next ==
  \/ \E c \in Clients, u \in Users, p \in Passwords \cup {Nothing} : Login(c, u, p)
  \/ \E c \in Clients : LoginStep(c)
  \/ \E t \in DOMAIN sessions : Logout(t) \/ RevokeSessionByID(t)
  \/ \E u \in Users, p \in Passwords, id \in Identities :
       CreateUser(u, p, id) \/ UpsertUser(u, p, id)
  \/ \E u \in Users, b \in BOOLEAN : SetUserEnabled(u, b)
  \/ \E u \in Users, p \in Passwords : ResetUserPassword(u, p)
  \/ \E u \in Users : RevokeUserSessions(u)
  \/ Tick

Spec == Init /\ [][Next]_vars

-----------------------------------------------------------------------------
(* Properties *)

TypeOK ==
  /\ \A u \in Users : account[u] = Nothing \/ account[u] \in AccountRecord
  /\ \A t \in DOMAIN sessions : sessions[t].user \in Users /\ sessions[t].revoked \in BOOLEAN
  /\ \A u \in Users : failures[u] = Nothing \/ failures[u].count > 0
  /\ login \in [Clients -> [pc : {"idle", "check", "known", "refused", "save"},
                            user : Users \cup {Nothing}, password : Passwords \cup {Nothing},
                            id : Identities \cup {Nothing}, at : 0..MaxSteps]]

\* Disabling a user and a new password end every session there is, and a session
\* of a disabled user that is still active belongs to a login that knew the
\* password before and was saved after (the login overlapped).
RevokedForGood ==
  \A t \in DOMAIN sessions :
    LET s == sessions[t]
        a == account[s.user] IN
    Active(s) => /\ s.saved >= a.cut
                 /\ ~a.enabled => s.known < a.cut

\* The identity in a session stays its user's, whatever the control plane does,
\* so what a client is told of itself is never another user's.
IdentitiesKept ==
  \A t \in DOMAIN sessions :
    LET s == sessions[t] IN
    /\ s.id = account[s.user].id
    /\ \A u \in Users \ {s.user} : Exists(u) => CurrentUser(t, account[u].id) # account[u].id

\* Logins that run at the same time get past the limit, but each of them once:
\* passwords are not tried without end.
GuessesBounded ==
  \A u \in Users :
    failures[u] # Nothing => failures[u].count < Limit + Cardinality(Clients)

AccessSound == TypeOK /\ RevokedForGood /\ IdentitiesKept /\ GuessesBounded
===============================================================================
