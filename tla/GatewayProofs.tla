---------------------------- MODULE GatewayProofs ----------------------------
(* What is true of eight components around the media path for every value of   *)
(* their constants: the logins and sessions of users, the sessions and tickets *)
(* of administrators, the sources of conversions, images without a login, the  *)
(* control plane, the data and the denials of playback, the live record of a   *)
(* copy, and the policies and routes of requests.                              *)
(*                                                                             *)
(* They share no state.  Where two of them use the same name (requests, the    *)
(* clock) it stands for the one the theorem is about.  Each part has an        *)
(* inductive invariant, made of what holds of one session, one request or one  *)
(* transfer; lemmas that say what a change of one leaves of the others; one    *)
(* lemma per action; and its theorem.                                          *)
EXTENDS Integers, Sequences, FiniteSetTheorems, SequenceTheorems, NaturalsInduction,
        WellFoundedInduction, TLAPS

CONSTANTS
  Users, Passwords, Identities, Clients, Limit, Block, TTL, MaxSteps,
  Superusers, MaxSessions, AbsoluteTTL, IdleTTL, ReauthTTL, RateLimit, Window, MaxIds,
  Runs, Copies, Bases, First, Versions, MaxOpens,
  Keys, Validators, Slots, MaxAge, MaxRuns,
  Admins, Urls, Servers, Primary, Home, EmbyOf, MaxEndpoints,
  Items, Reports, Writes, Runtime, MinPct, MaxPct, MinDuration, MaxOps,
  Short, Long,
  Ids, PolicyForms, RuleForms, Defaults, Paths, Words, Longer, Length, Rank,
  Requests, MaxTime, MaxTurns, Nothing

VARIABLES
  account, sessions, failures, login, step,
  session, ticket, windows, valid, confirmed,
  upstream, active, version, reference, etag, run, writer, opens,
  stored, up, snapshot, locked, validator, slots, runs, proved, latest,
  source, endpoints, rules, saves, op, refresh, nextId, logins, live, sent, lost, stranded, unheard,
  row, library, guard, generation, ops,
  clock, producer, consumer, lifecycle, blocker, phase, poolWait, total, longest, terminal,
  waited, slack,
  policies, seen, blind,
  request, now, turns

Login == INSTANCE Access
Console == INSTANCE AdminAuth
Audio == INSTANCE SourceAccess
Images == INSTANCE AnonymousImages
Control == INSTANCE ControlPlane
Play == INSTANCE Playback
Observer == INSTANCE BufferObserver
Rules == INSTANCE Policies

-----------------------------------------------------------------------------
\* A set of numbers has a least one.
LEMMA LeastNumber ==
  ASSUME NEW S \in SUBSET Nat, S # {}
  PROVE  \E x \in S : \A y \in S : x <= y
<1>1. \E x \in S : \A y \in S : ~ (<<y, x>> \in OpToRel(<, Nat))
  BY NatLessThanWellFounded, WFMin
<1>2. PICK x \in S : \A y \in S : ~ (<<y, x>> \in OpToRel(<, Nat))
  BY <1>1
<1>3. ASSUME NEW y \in S PROVE x <= y
  <2>1. x \in Nat /\ y \in Nat
    OBVIOUS
  <2>2. ASSUME y < x PROVE <<y, x>> \in OpToRel(<, Nat)
    BY <2>1, <2>2 DEF OpToRel
  <2>3. ~ (y < x)
    BY <1>2, <2>2, Zenon
  <2> QED BY <2>1, <2>3
<1> QED BY <1>3

-----------------------------------------------------------------------------
(* Logins: users, the sessions they have, and the failures that are counted  *)

OpenedRecord ==
  [user : Users, id : Identities, revoked : BOOLEAN, expires : Nat, known : 0..MaxSteps,
   saved : 0..MaxSteps]
FailureRecord == [count : Nat \ {0}, till : Nat \cup {Nothing}]
LoginRecord ==
  [pc : {"idle", "check", "known", "refused", "save"}, user : Users \cup {Nothing},
   password : Passwords \cup {Nothing}, id : Identities \cup {Nothing}, at : 0..MaxSteps]

\* The users a at step n.
AccountsSound(a, n) ==
  /\ a \in [Users -> Login!AccountRecord \cup {Nothing}]
  /\ \A u \in Users : a[u] # Nothing => a[u].cut <= n
  /\ \A u, v \in Users : a[u] # Nothing /\ a[v] # Nothing /\ a[u].id = a[v].id => u = v

\* A session, or a login that knows its user: of one there is, by the identity that
\* the user has.
Belongs(u, id, a) == u \in Users /\ a[u] # Nothing /\ a[u].id = id

OpenedSound(s, a) ==
  /\ Belongs(s.user, s.id, a)
  /\ ~s.revoked => s.saved >= a[s.user].cut /\ (~a[s.user].enabled => s.known < a[s.user].cut)

LoginSound(l, a, n) ==
  /\ l \in LoginRecord /\ l.at <= n
  /\ l.pc # "idle" => l.user \in Users
  /\ l.pc \in {"known", "save"} =>
       Belongs(l.user, l.id, a) /\ (~a[l.user].enabled => l.at < a[l.user].cut)

Trying(lg, u) == {c \in Clients : lg[c].pc # "idle" /\ lg[c].user = u}

\* A user's failures f and the logins under way, each of which may fail once.
FailureSound(f, lg, u) ==
  f # Nothing =>
    /\ f \in FailureRecord /\ (f.count >= Limit => f.till # Nothing)
    /\ f.count + Cardinality(Trying(lg, u)) < Limit + Cardinality(Clients)

LoginInv ==
  /\ now \in Nat /\ step \in 0..MaxSteps
  /\ AccountsSound(account, step)
  /\ sessions \in Seq(OpenedRecord)
  /\ \A t \in 1..Len(sessions) : OpenedSound(sessions[t], account)
  /\ login \in [Clients -> LoginRecord]
  /\ \A c \in Clients : LoginSound(login[c], account, step)
  /\ failures \in [Users -> FailureRecord \cup {Nothing}]
  /\ \A u \in Users : FailureSound(failures[u], login, u)

\* What becomes of the users between steps n and n2: their identities stay, and one
\* that is disabled, or whose sessions are ended, is so from a later step on.
Keeps(a, a2, n, n2) ==
  /\ AccountsSound(a2, n2) /\ n <= n2
  /\ \A u \in Users : a[u] # Nothing =>
       /\ a2[u] # Nothing /\ a2[u].id = a[u].id
       /\ \/ a2[u].cut > n
          \/ a2[u].cut = a[u].cut /\ (~a2[u].enabled => ~a[u].enabled)

-----------------------------------------------------------------------------
\* As time goes by without a change of the users, they keep what they have.
LEMMA KeepsAll ==
  ASSUME LoginInv, NEW n2 \in Nat, step <= n2, Login!Assumption
  PROVE  Keeps(account, account, step, n2)
<1>1. \A u \in Users : account[u] # Nothing => account[u].cut \in 0..MaxSteps
  BY DEF LoginInv, AccountsSound, Login!AccountRecord
<1>2. \A u \in Users : account[u] # Nothing => account[u].cut <= n2
  BY <1>1 DEF LoginInv, AccountsSound, Login!Assumption
<1> QED BY <1>2 DEF Keeps, AccountsSound, LoginInv

\* A login stays sound, whatever the administrator does to the users meanwhile.
LEMMA LoginLasts ==
  ASSUME Login!Assumption, NEW l, NEW a, NEW a2, NEW n \in 0..MaxSteps, NEW n2 \in 0..MaxSteps,
         LoginSound(l, a, n), Keeps(a, a2, n, n2)
  PROVE  LoginSound(l, a2, n2)
<1>1. /\ l \in LoginRecord /\ l.at <= n /\ n <= n2
      /\ l.pc # "idle" => l.user \in Users
  BY DEF LoginSound, Keeps
<1>2. l.at \in Nat /\ l.at <= n2
  BY <1>1 DEF LoginRecord, Login!Assumption
<1>3. ASSUME l.pc \in {"known", "save"}
      PROVE  Belongs(l.user, l.id, a2) /\ (~a2[l.user].enabled => l.at < a2[l.user].cut)
  <2> DEFINE u == l.user
  <2>1. /\ Belongs(u, l.id, a) /\ (~a[u].enabled => l.at < a[u].cut)
    BY <1>3 DEF LoginSound
  <2>2. u \in Users /\ a[u] # Nothing /\ a[u].id = l.id
    BY <2>1 DEF Belongs
  <2>3. /\ a2[u] # Nothing /\ a2[u].id = a[u].id
        /\ \/ a2[u].cut > n
           \/ a2[u].cut = a[u].cut /\ (~a2[u].enabled => ~a[u].enabled)
    BY <2>2 DEF Keeps
  <2>4. a2[u].cut \in Nat
    <3>1. a2[u] \in Login!AccountRecord
      BY <2>2, <2>3 DEF Keeps, AccountsSound
    <3> QED BY <3>1 DEF Login!AccountRecord, Login!Assumption
  <2> HIDE DEF u
  <2>5. ~a2[u].enabled => l.at < a2[u].cut
    BY <1>1, <1>2, <2>1, <2>3, <2>4
  <2>6. Belongs(u, l.id, a2)
    BY <2>2, <2>3 DEF Belongs
  <2> QED BY <2>5, <2>6 DEF u
<1> QED BY <1>1, <1>2, <1>3 DEF LoginSound

\* A session stays sound if its user keeps what it has, and if it was ended.
LEMMA OpenedLasts ==
  ASSUME NEW s \in OpenedRecord, NEW a, NEW a2, NEW n, NEW n2, NEW s2,
         OpenedSound(s, a), Keeps(a, a2, n, n2),
         \/ s2 = [s EXCEPT !.revoked = TRUE]
         \/ /\ s2 = s
            /\ a2[s.user].cut = a[s.user].cut /\ (~a2[s.user].enabled => ~a[s.user].enabled)
  PROVE  OpenedSound(s2, a2) /\ s2 \in OpenedRecord
<1>1. /\ s.user \in Users /\ a[s.user] # Nothing /\ a[s.user].id = s.id
      /\ ~s.revoked => s.saved >= a[s.user].cut /\ (~a[s.user].enabled => s.known < a[s.user].cut)
  BY DEF OpenedSound, Belongs
<1>2. a2[s.user] # Nothing /\ a2[s.user].id = a[s.user].id
  BY <1>1 DEF Keeps
<1>3. CASE s2 = [s EXCEPT !.revoked = TRUE]
  <2>1. s2 \in OpenedRecord /\ s2.user = s.user /\ s2.id = s.id /\ s2.revoked
    BY <1>3 DEF OpenedRecord
  <2> QED BY <1>1, <1>2, <2>1 DEF OpenedSound, Belongs
<1>4. CASE /\ s2 = s
           /\ a2[s.user].cut = a[s.user].cut /\ (~a2[s.user].enabled => ~a[s.user].enabled)
  BY <1>1, <1>2, <1>4 DEF OpenedSound, Belongs
<1> QED BY <1>3, <1>4

\* So do all of them: a change of a user either ends its sessions or leaves them a reason
\* to go on.
LEMMA SessionsLast ==
  ASSUME LoginInv, NEW a2, NEW n2, NEW s2, Keeps(account, a2, step, n2),
         s2 = [t \in 1..Len(sessions) |-> s2[t]],
         \A t \in 1..Len(sessions) :
           \/ s2[t] = [sessions[t] EXCEPT !.revoked = TRUE]
           \/ /\ s2[t] = sessions[t]
              /\ a2[sessions[t].user].cut = account[sessions[t].user].cut
              /\ ~a2[sessions[t].user].enabled => ~account[sessions[t].user].enabled
  PROVE  s2 \in Seq(OpenedRecord) /\ \A t \in 1..Len(s2) : OpenedSound(s2[t], a2)
<1>1. /\ sessions \in Seq(OpenedRecord) /\ Len(sessions) \in Nat
      /\ \A t \in 1..Len(sessions) : sessions[t] \in OpenedRecord
                                     /\ OpenedSound(sessions[t], account)
  BY DEF LoginInv
<1>2. ASSUME NEW t \in 1..Len(sessions) PROVE OpenedSound(s2[t], a2) /\ s2[t] \in OpenedRecord
  <2>1. CASE s2[t] = [sessions[t] EXCEPT !.revoked = TRUE]
    BY <1>1, <2>1, OpenedLasts
  <2>2. CASE /\ s2[t] = sessions[t]
             /\ a2[sessions[t].user].cut = account[sessions[t].user].cut
             /\ ~a2[sessions[t].user].enabled => ~account[sessions[t].user].enabled
    BY <1>1, <2>2, OpenedLasts
  <2> QED BY <2>1, <2>2
<1>3. s2 \in Seq(OpenedRecord) /\ Len(s2) = Len(sessions)
  BY <1>1, <1>2
<1> QED BY <1>2, <1>3

\* A step of the control plane, which changes the users and perhaps the sessions.
LEMMA AccountChange ==
  ASSUME Login!Assumption, LoginInv, Keeps(account, account', step, step'), step' \in 0..MaxSteps,
         sessions' \in Seq(OpenedRecord),
         \A t \in 1..Len(sessions') : OpenedSound(sessions'[t], account'),
         UNCHANGED <<login, failures>>, now' \in Nat
  PROVE  LoginInv'
<1>1. AccountsSound(account', step')
  BY DEF Keeps
<1>2. ASSUME NEW c \in Clients PROVE LoginSound(login'[c], account', step')
  <2>1. LoginSound(login[c], account, step) /\ step \in 0..MaxSteps /\ login'[c] = login[c]
    BY DEF LoginInv
  <2> QED BY <2>1, LoginLasts
<1>3. \A u \in Users : FailureSound(failures'[u], login', u)
  BY DEF LoginInv, FailureSound, Trying
<1> QED BY <1>1, <1>2, <1>3 DEF LoginInv

\* A step of the login of client c, which becomes l.
LEMMA LoginChange ==
  ASSUME Login!Assumption, LoginInv, NEW c \in Clients, NEW l, login' = [login EXCEPT ![c] = l],
         step' \in 0..MaxSteps, step <= step', LoginSound(l, account, step'),
         UNCHANGED <<account, now>>,
         sessions' \in Seq(OpenedRecord),
         \A t \in 1..Len(sessions') : OpenedSound(sessions'[t], account),
         failures' \in [Users -> FailureRecord \cup {Nothing}],
         \A u \in Users : FailureSound(failures'[u], login', u)
  PROVE  LoginInv'
<1>0. /\ login \in [Clients -> LoginRecord] /\ l \in LoginRecord
      /\ step \in 0..MaxSteps /\ step' \in Nat
  BY DEF LoginInv, LoginSound, Login!Assumption
<1>1. Keeps(account, account, step, step')
  BY <1>0, KeepsAll
<1>2. ASSUME NEW d \in Clients PROVE LoginSound(login'[d], account, step')
  <2>1. CASE d = c
    BY <1>0, <2>1
  <2>2. CASE d # c
    <3>1. LoginSound(login[d], account, step) /\ login'[d] = login[d]
      BY <1>0, <2>2 DEF LoginInv
    <3> QED BY <1>0, <1>1, <3>1, LoginLasts
  <2> QED BY <2>1, <2>2
<1>3. login' \in [Clients -> LoginRecord]
  BY <1>0
<1> QED BY <1>1, <1>2, <1>3 DEF LoginInv, Keeps

-----------------------------------------------------------------------------
\* The logins under way for a user are no more than the clients.
LEMMA TryingCounts ==
  ASSUME Login!Assumption, NEW lg, NEW u
  PROVE  /\ IsFiniteSet(Trying(lg, u)) /\ Trying(lg, u) \subseteq Clients
         /\ Cardinality(Trying(lg, u)) \in Nat /\ Cardinality(Clients) \in Nat
         /\ Cardinality(Trying(lg, u)) <= Cardinality(Clients)
<1>1. IsFiniteSet(Clients) /\ Trying(lg, u) \subseteq Clients
  BY DEF Login!Assumption, Login!IsFiniteSet, IsFiniteSet, Trying
<1>2. IsFiniteSet(Trying(lg, u)) /\ Cardinality(Trying(lg, u)) <= Cardinality(Clients)
  BY <1>1, FS_Subset
<1> QED BY <1>1, <1>2, FS_CardinalityType

\* A user's failures stay bounded as logins end.
LEMMA FailureLasts ==
  ASSUME Login!Assumption, NEW f, NEW lg, NEW lg2, NEW u, FailureSound(f, lg, u),
         Trying(lg2, u) \subseteq Trying(lg, u)
  PROVE  FailureSound(f, lg2, u)
<1>1. Cardinality(Trying(lg2, u)) <= Cardinality(Trying(lg, u))
  BY TryingCounts, FS_Subset
<1>2. /\ Cardinality(Trying(lg2, u)) \in Nat /\ Cardinality(Trying(lg, u)) \in Nat
      /\ Cardinality(Clients) \in Nat
  BY TryingCounts
<1>3. CASE f = Nothing
  BY <1>3 DEF FailureSound
<1>4. CASE f # Nothing
  <2>1. /\ f \in FailureRecord /\ (f.count >= Limit => f.till # Nothing)
        /\ f.count + Cardinality(Trying(lg, u)) < Limit + Cardinality(Clients)
    BY <1>4 DEF FailureSound
  <2>2. f.count \in Nat
    BY <2>1 DEF FailureRecord
  <2>3. f.count + Cardinality(Trying(lg2, u)) < Limit + Cardinality(Clients)
    BY <1>1, <1>2, <2>1, <2>2 DEF Login!Assumption
  <2> QED BY <2>1, <2>3 DEF FailureSound
<1> QED BY <1>3, <1>4

\* Failures below the limit leave room for every client at once.
LEMMA FewFailures ==
  ASSUME Login!Assumption, NEW f \in FailureRecord, f.count < Limit, NEW lg, NEW u
  PROVE  FailureSound(f, lg, u)
<1>1. /\ Cardinality(Trying(lg, u)) \in Nat /\ Cardinality(Clients) \in Nat
      /\ Cardinality(Trying(lg, u)) <= Cardinality(Clients)
  BY TryingCounts
<1>2. f.count \in Nat /\ Limit \in Nat
  BY DEF FailureRecord, Login!Assumption
<1> QED BY <1>1, <1>2 DEF FailureSound

\* A login that goes on for the same user, or ends, adds nobody who tries.
LEMMA TryingLasts ==
  ASSUME NEW lg \in [Clients -> LoginRecord], NEW c \in Clients, NEW l,
         l.pc # "idle" => lg[c].pc # "idle" /\ l.user = lg[c].user, NEW u
  PROVE  Trying([lg EXCEPT ![c] = l], u) \subseteq Trying(lg, u)
BY DEF Trying

\* Such a login, with the failures as they are or forgotten, keeps them bounded.
LEMMA FailuresLast ==
  ASSUME Login!Assumption, LoginInv, NEW c \in Clients, NEW l, login' = [login EXCEPT ![c] = l],
         l.pc # "idle" => login[c].pc # "idle" /\ l.user = login[c].user,
         failures' \in [Users -> FailureRecord \cup {Nothing}],
         \A u \in Users : failures'[u] = failures[u] \/ failures'[u] = Nothing
  PROVE  \A u \in Users : FailureSound(failures'[u], login', u)
<1> TAKE u \in Users
<1>1. Trying(login', u) \subseteq Trying(login, u) /\ FailureSound(failures[u], login, u)
  BY TryingLasts DEF LoginInv
<1>2. FailureSound(failures[u], login', u)
  BY <1>1, FailureLasts
<1>3. FailureSound(Nothing, login', u)
  BY DEF FailureSound
<1> QED BY <1>2, <1>3

\* A client without a login is sound.
LEMMA NoLoginSound ==
  ASSUME Login!Assumption, NEW a, NEW n \in Nat
  PROVE  LoginSound(Login!NoLogin, a, n) /\ Login!NoLogin.pc = "idle"
BY DEF LoginSound, Login!NoLogin, LoginRecord, Login!Assumption

\* What the invariant says of the sessions.
LEMMA SessionsStay ==
  ASSUME LoginInv
  PROVE  /\ sessions \in Seq(OpenedRecord)
         /\ \A t \in 1..Len(sessions) : OpenedSound(sessions[t], account)
BY DEF LoginInv

-----------------------------------------------------------------------------
\* The types that follow from the invariant.
LEMMA LoginFacts ==
  ASSUME LoginInv, Login!Assumption
  PROVE  /\ login \in [Clients -> LoginRecord]
         /\ failures \in [Users -> FailureRecord \cup {Nothing}]
         /\ account \in [Users -> Login!AccountRecord \cup {Nothing}] /\ now \in Nat
         /\ step \in Nat /\ step \in 0..MaxSteps /\ Len(sessions) \in Nat
         /\ DOMAIN sessions = 1..Len(sessions) /\ AccountsSound(account, step)
         /\ sessions = [t \in 1..Len(sessions) |-> sessions[t]]
<1>1. step \in Nat
  BY DEF LoginInv, Login!Assumption
<1>2. sessions \in Seq(OpenedRecord)
  BY DEF LoginInv
<1>3. /\ Len(sessions) \in Nat /\ DOMAIN sessions = 1..Len(sessions)
      /\ sessions = [t \in 1..Len(sessions) |-> sessions[t]]
  BY <1>2
<1> QED BY <1>1, <1>3 DEF LoginInv, AccountsSound

\* A request advances the step, within its bound.
LEMMA TurnBound ==
  ASSUME LoginInv, Login!Assumption, Login!Turn
  PROVE  step' \in 0..MaxSteps /\ step <= step' /\ step < step' /\ step' \in Nat
BY DEF LoginInv, Login!Assumption, Login!Turn

\* A login begins: handleAuthenticate asks the limiter, which may drop an entry.
LEMMA StepLogin ==
  ASSUME Login!Assumption, LoginInv, NEW c \in Clients, NEW u \in Users,
         NEW p \in Passwords \cup {Nothing}, Login!Login(c, u, p)
  PROVE  LoginInv'
<1> DEFINE l == [Login!NoLogin EXCEPT !.pc = "check", !.user = u, !.password = p]
           f == IF Login!Expired(failures[u]) THEN Nothing ELSE failures[u]
           fs == [failures EXCEPT ![u] = f]
<1>0. /\ login[c].pc = "idle" /\ Login!Turn /\ failures' = fs
      /\ Login!Blocked(failures[u]) \/ p = Nothing \/ login' = [login EXCEPT ![c] = l]
      /\ (Login!Blocked(failures[u]) \/ p = Nothing) => login' = login
      /\ UNCHANGED <<account, sessions, now>>
  BY DEF Login!Login
<1>1. /\ step' \in 0..MaxSteps /\ step <= step' /\ step' \in Nat
  BY <1>0, TurnBound
<1>2. failures' \in [Users -> FailureRecord \cup {Nothing}]
  BY <1>0, LoginFacts
<1>3. \A v \in Users : failures'[v] = failures[v] \/ failures'[v] = Nothing
  BY <1>0, LoginFacts
<1>4. CASE Login!Blocked(failures[u]) \/ p = Nothing
  <2>1. login' = login
    BY <1>0, <1>4
  <2>2. login' = [login EXCEPT ![c] = login[c]]
    BY <2>1, LoginFacts
  <2>3. LoginSound(login[c], account, step')
    <3>1. LoginSound(login[c], account, step)
      BY DEF LoginInv
    <3> QED BY <1>1, <3>1, LoginFacts, KeepsAll, LoginLasts
  <2>4. \A v \in Users : FailureSound(failures'[v], login', v)
    BY <1>2, <1>3, <2>2, FailuresLast
  <2> QED BY <1>0, <1>1, <1>2, <2>2, <2>3, <2>4, LoginChange, SessionsStay
<1>5. CASE ~(Login!Blocked(failures[u]) \/ p = Nothing)
  <2>1. login' = [login EXCEPT ![c] = l]
    BY <1>0, <1>5
  <2>2. LoginSound(l, account, step')
    <3>1. Login!NoLogin \in LoginRecord /\ Login!NoLogin.at = 0
      BY DEF Login!NoLogin, LoginRecord, Login!Assumption
    <3>2. l \in LoginRecord /\ l.pc = "check" /\ l.user = u /\ l.at = 0
      BY <3>1 DEF LoginRecord
    <3> HIDE DEF l
    <3> QED BY <1>1, <3>2 DEF LoginSound
  <2>3. ASSUME NEW v \in Users, v # u PROVE FailureSound(failures'[v], login', v)
    <3>1. Trying(login', v) \subseteq Trying(login, v)
      <4>1. Login!NoLogin \in LoginRecord
        BY DEF Login!NoLogin, LoginRecord, Login!Assumption
      <4>2. l.user = u
        BY <4>1 DEF LoginRecord
      <4> HIDE DEF l
      <4> QED BY <2>1, <2>3, <4>2, LoginFacts DEF Trying
    <3>2. failures'[v] = failures[v] /\ FailureSound(failures[v], login, v)
      BY <1>0, <2>3, LoginFacts DEF LoginInv
    <3> QED BY <3>1, <3>2, FailureLasts
  <2>4. FailureSound(failures'[u], login', u)
    <3>1. failures'[u] = f
      BY <1>0, LoginFacts
    <3>2. CASE f = Nothing
      BY <3>1, <3>2 DEF FailureSound
    <3>3. CASE f # Nothing
      <4>1. failures[u] = f /\ ~Login!Expired(f) /\ ~Login!Blocked(f)
        BY <1>5, <3>3
      <4>2. f \in FailureRecord /\ (f.count >= Limit => f.till # Nothing)
        <5>1. FailureSound(failures[u], login, u)
          BY DEF LoginInv
        <5> QED BY <3>3, <4>1, <5>1 DEF FailureSound
      <4>3. f.till = Nothing
        <5>1. f.till \in Nat \cup {Nothing} /\ now \in Nat
          BY <4>2, LoginFacts DEF FailureRecord
        <5> HIDE DEF f
        <5> QED BY <3>3, <4>1, <5>1 DEF Login!Expired, Login!Blocked
      <4>4. f.count < Limit
        <5>1. f.count \in Nat
          BY <4>2 DEF FailureRecord
        <5> HIDE DEF f
        <5> QED BY <4>2, <4>3, <5>1 DEF Login!Assumption
      <4> HIDE DEF f
      <4>5. FailureSound(f, login', u)
        BY <4>2, <4>4, FewFailures
      <4> QED BY <3>1, <4>5
    <3> QED BY <3>2, <3>3
  <2>5. \A v \in Users : FailureSound(failures'[v], login', v)
    BY <2>3, <2>4
  <2> HIDE DEF l
  <2> QED BY <1>0, <1>1, <1>2, <2>1, <2>2, <2>5, LoginChange, SessionsStay
<1> QED BY <1>4, <1>5

\* AuthenticateGatewayUser: the password, and whether the user is enabled.
LEMMA StepAuthenticate ==
  ASSUME Login!Assumption, LoginInv, NEW c \in Clients, Login!AuthenticateGatewayUser(c)
  PROVE  LoginInv'
<1> DEFINE o == login[c]
           ok == Login!Authenticates(o.user, o.password)
           l == [o EXCEPT !.pc = IF ok THEN "known" ELSE "refused",
                          !.id = IF ok THEN account[o.user].id ELSE Nothing, !.at = step]
<1>0. /\ o.pc = "check" /\ login' = [login EXCEPT ![c] = l]
      /\ UNCHANGED <<account, sessions, failures, now, step>>
  <2>1. /\ o.pc = "check" /\ UNCHANGED <<account, sessions, failures, now, step>>
        /\ login' = [login EXCEPT ![c].pc = IF ok THEN "known" ELSE "refused",
                                  ![c].id = IF ok THEN account[o.user].id ELSE Nothing,
                                  ![c].at = step]
    BY DEF Login!AuthenticateGatewayUser
  <2> HIDE DEF ok
  <2> QED BY <2>1, LoginFacts
<1>1. LoginSound(o, account, step)
  BY DEF LoginInv
<1>2. o \in LoginRecord /\ o.user \in Users
  BY <1>0, <1>1 DEF LoginSound
<1>3. ok => /\ account[o.user] # Nothing /\ account[o.user].enabled
            /\ account[o.user].id \in Identities
  <2>1. ok => account[o.user] # Nothing /\ account[o.user].enabled
    BY DEF Login!Authenticates, Login!Exists
  <2>2. account[o.user] # Nothing => account[o.user] \in Login!AccountRecord
    BY <1>2, LoginFacts
  <2> HIDE DEF ok, o
  <2> QED BY <2>1, <2>2 DEF Login!AccountRecord
<1>4. /\ l \in LoginRecord /\ l.user = o.user /\ l.at = step
      /\ ok => l.pc = "known" /\ l.id = account[o.user].id
      /\ ~ok => l.pc = "refused"
  <2> HIDE DEF ok, o
  <2> QED BY <1>2, <1>3, LoginFacts DEF LoginRecord
<1> HIDE DEF l, ok
<1>5. l.pc \in {"known", "refused"}
  BY <1>4
<1>6. LoginSound(l, account, step)
  BY <1>2, <1>3, <1>4, <1>5, LoginFacts DEF LoginSound, Belongs
<1>7. \A v \in Users : FailureSound(failures'[v], login', v)
  BY <1>0, <1>4, LoginFacts, FailuresLast
<1> HIDE DEF o
<1>8. step' \in 0..MaxSteps /\ step <= step' /\ step' = step
  BY <1>0, LoginFacts
<1> QED BY <1>0, <1>6, <1>7, <1>8, LoginChange, SessionsStay, LoginFacts

\* The limiter forgets a user who knew the password.
LEMMA StepClear ==
  ASSUME Login!Assumption, LoginInv, NEW c \in Clients, Login!ClearFailures(c)
  PROVE  LoginInv'
<1> DEFINE o == login[c]
           l == [o EXCEPT !.pc = "save"]
<1>0. /\ o.pc = "known" /\ login' = [login EXCEPT ![c] = l]
      /\ failures' = [failures EXCEPT ![o.user] = Nothing]
      /\ UNCHANGED <<account, sessions, now, step>>
  BY LoginFacts DEF Login!ClearFailures
<1>1. LoginSound(o, account, step)
  BY DEF LoginInv
<1>2. o \in LoginRecord /\ o.user \in Users
  BY <1>0, <1>1 DEF LoginSound
<1>3. /\ l \in LoginRecord /\ l.user = o.user /\ l.at = o.at /\ l.id = o.id /\ l.pc = "save"
  BY <1>2 DEF LoginRecord
<1> HIDE DEF l
<1>4. LoginSound(l, account, step)
  BY <1>0, <1>1, <1>3 DEF LoginSound
<1>5. /\ failures' \in [Users -> FailureRecord \cup {Nothing}]
      /\ \A u \in Users : failures'[u] = failures[u] \/ failures'[u] = Nothing
  BY <1>0, <1>2, LoginFacts
<1>6. \A v \in Users : FailureSound(failures'[v], login', v)
  BY <1>0, <1>3, <1>5, FailuresLast
<1> HIDE DEF o
<1>8. step' \in 0..MaxSteps /\ step <= step' /\ step' = step
  BY <1>0, LoginFacts
<1> QED BY <1>0, <1>4, <1>5, <1>6, <1>8, LoginChange, SessionsStay

\* The store fails to save the session: the login ends.
LEMMA StepSaveFails ==
  ASSUME Login!Assumption, LoginInv, NEW c \in Clients, Login!SaveFails(c)
  PROVE  LoginInv'
<1>0. /\ login' = [login EXCEPT ![c] = Login!NoLogin]
      /\ UNCHANGED <<account, sessions, failures, now, step>>
  BY DEF Login!SaveFails
<1>1. step' \in 0..MaxSteps /\ step <= step' /\ step' = step /\ step \in Nat
  BY <1>0, LoginFacts
<1>2. LoginSound(Login!NoLogin, account, step') /\ Login!NoLogin.pc = "idle"
  BY <1>1, NoLoginSound
<1>3. \A v \in Users : FailureSound(failures'[v], login', v)
  BY <1>0, <1>2, LoginFacts, FailuresLast
<1> QED BY <1>0, <1>1, <1>2, <1>3, LoginChange, SessionsStay, LoginFacts

\* SaveSession: the login opens a session of the user it knew, who may since have been
\* disabled; the session is then one of a login that overlapped.
LEMMA StepSaveSession ==
  ASSUME Login!Assumption, LoginInv, NEW c \in Clients, Login!SaveSession(c)
  PROVE  LoginInv'
<1> DEFINE o == login[c]
           s == [user |-> o.user, id |-> o.id, revoked |-> FALSE, expires |-> now + TTL,
                 known |-> o.at, saved |-> step]
<1>0. /\ o.pc = "save" /\ login' = [login EXCEPT ![c] = Login!NoLogin]
      /\ sessions' = Append(sessions, s)
      /\ UNCHANGED <<account, failures, now, step>>
  BY DEF Login!SaveSession, Login!NewSession
<1>1. step' \in 0..MaxSteps /\ step <= step' /\ step' = step /\ step \in Nat
  BY <1>0, LoginFacts
<1>2. LoginSound(Login!NoLogin, account, step') /\ Login!NoLogin.pc = "idle"
  BY <1>1, NoLoginSound
<1>3. \A v \in Users : FailureSound(failures'[v], login', v)
  BY <1>0, <1>2, LoginFacts, FailuresLast
<1>4. LoginSound(o, account, step)
  BY DEF LoginInv
<1>5. /\ o \in LoginRecord /\ o.user \in Users /\ account[o.user] # Nothing
      /\ account[o.user].id = o.id
      /\ ~account[o.user].enabled => o.at < account[o.user].cut
  BY <1>0, <1>4 DEF LoginSound, Belongs
<1>6. /\ account[o.user] \in Login!AccountRecord /\ account[o.user].cut <= step
  BY <1>5, LoginFacts DEF AccountsSound
<1>7. account[o.user].id \in Identities /\ account[o.user].cut \in Nat /\ o.at \in 0..MaxSteps
  BY <1>5, <1>6 DEF Login!AccountRecord, LoginRecord, Login!Assumption
<1>8. s \in OpenedRecord
  BY <1>5, <1>7, LoginFacts DEF OpenedRecord, Login!Assumption
<1>9. OpenedSound(s, account)
  BY <1>1, <1>5, <1>6, <1>7 DEF OpenedSound, Belongs
<1> HIDE DEF s
<1>10. /\ sessions \in Seq(OpenedRecord) /\ Len(sessions) \in Nat
       /\ \A t \in 1..Len(sessions) : OpenedSound(sessions[t], account)
  BY LoginFacts, SessionsStay
<1>11. /\ sessions' \in Seq(OpenedRecord) /\ Len(sessions') = Len(sessions) + 1
       /\ sessions'[Len(sessions) + 1] = s
       /\ \A t \in 1..Len(sessions) : sessions'[t] = sessions[t]
  BY <1>0, <1>8, <1>10
<1>12. ASSUME NEW t \in 1..Len(sessions') PROVE OpenedSound(sessions'[t], account)
  <2>1. CASE t = Len(sessions) + 1
    BY <1>9, <1>11, <2>1
  <2>2. CASE t # Len(sessions) + 1
    <3>1. t \in 1..Len(sessions)
      BY <1>10, <1>11, <2>2
    <3> QED BY <1>10, <1>11, <3>1
  <2> QED BY <2>1, <2>2
<1> HIDE DEF o
<1> QED BY <1>0, <1>1, <1>2, <1>3, <1>11, <1>12, LoginChange, LoginFacts

\* A refused login counts as a failure: the one that was trying has ended, so the sum of
\* failures and logins under way does not grow.
LEMMA StepRecordFailure ==
  ASSUME Login!Assumption, LoginInv, NEW c \in Clients, Login!RecordFailure(c)
  PROVE  LoginInv'
<1> DEFINE u == login[c].user
           f == failures[u]
           g == Login!RecordedFailure(f)
<1>0. /\ login[c].pc = "refused" /\ login' = [login EXCEPT ![c] = Login!NoLogin]
      /\ failures' = [failures EXCEPT ![u] = g]
      /\ UNCHANGED <<account, sessions, now, step>>
  BY DEF Login!RecordFailure
<1>1. step' \in 0..MaxSteps /\ step <= step' /\ step' = step /\ step \in Nat
  BY <1>0, LoginFacts
<1>2. LoginSound(Login!NoLogin, account, step') /\ Login!NoLogin.pc = "idle"
  BY <1>1, NoLoginSound
<1>3. u \in Users
  <2>1. LoginSound(login[c], account, step)
    BY DEF LoginInv
  <2> QED BY <1>0, <2>1 DEF LoginSound
<1>4. FailureSound(f, login, u) /\ f \in FailureRecord \cup {Nothing}
  BY <1>3, LoginFacts DEF LoginInv
<1>5. /\ g.count = IF f = Nothing THEN 1 ELSE f.count + 1
      /\ g.count >= Limit => g.till = now + Block
      /\ g \in FailureRecord
  <2>0. now + Block \in Nat /\ Limit \in Nat
    BY LoginFacts DEF Login!Assumption
  <2>1. CASE f = Nothing
    BY <2>0, <2>1 DEF Login!RecordedFailure, FailureRecord
  <2>2. CASE f # Nothing
    <3>1. f.count \in Nat \ {0} /\ f.till \in Nat \cup {Nothing}
      BY <1>4, <2>2 DEF FailureRecord
    <3> HIDE DEF f
    <3> QED BY <2>0, <2>2, <3>1 DEF Login!RecordedFailure, FailureRecord
  <2> QED BY <2>1, <2>2
<1>6. g.count >= Limit => g.till # Nothing
  <2>1. now + Block \in Nat
    BY LoginFacts DEF Login!Assumption
  <2> QED BY <1>5, <2>1 DEF Login!Assumption
<1> HIDE DEF g
<1>7. Trying(login', u) = Trying(login, u) \ {c} /\ c \in Trying(login, u)
  BY <1>0, <1>2, LoginFacts DEF Trying
<1>8. Cardinality(Trying(login', u)) = Cardinality(Trying(login, u)) - 1
  BY <1>7, TryingCounts, FS_RemoveElement
<1>9. FailureSound(g, login', u)
  <2>1. /\ Cardinality(Trying(login, u)) \in Nat /\ Cardinality(Clients) \in Nat
        /\ Cardinality(Trying(login, u)) <= Cardinality(Clients)
    BY TryingCounts
  <2>2. CASE f = Nothing
    BY <1>5, <1>6, <1>8, <2>1, <2>2 DEF FailureSound, Login!Assumption
  <2>3. CASE f # Nothing
    <3>1. /\ f \in FailureRecord
          /\ f.count + Cardinality(Trying(login, u)) < Limit + Cardinality(Clients)
      BY <1>4, <2>3 DEF FailureSound
    <3>2. f.count \in Nat
      BY <3>1 DEF FailureRecord
    <3>3. g.count = f.count + 1
      BY <1>5, <2>3
    <3> HIDE DEF f
    <3> QED BY <1>5, <1>6, <1>8, <2>1, <3>1, <3>2, <3>3 DEF FailureSound, Login!Assumption
  <2> QED BY <2>2, <2>3
<1>10. ASSUME NEW v \in Users PROVE FailureSound(failures'[v], login', v)
  <2>1. CASE v = u
    BY <1>0, <1>3, <1>9, <2>1, LoginFacts
  <2>2. CASE v # u
    <3>1. failures'[v] = failures[v] /\ FailureSound(failures[v], login, v)
      BY <1>0, <1>3, <2>2, LoginFacts DEF LoginInv
    <3>2. Trying(login', v) \subseteq Trying(login, v)
      BY <1>0, <1>2, LoginFacts DEF Trying
    <3> QED BY <3>1, <3>2, FailureLasts
  <2> QED BY <2>1, <2>2
<1>11. failures' \in [Users -> FailureRecord \cup {Nothing}]
  BY <1>0, <1>5, LoginFacts
<1> HIDE DEF u, f
<1> QED BY <1>0, <1>1, <1>2, <1>10, <1>11, LoginChange, SessionsStay

-----------------------------------------------------------------------------
\* A user that stays, with its identity, and becomes b.
LEMMA UserKeeps ==
  ASSUME Login!Assumption, LoginInv, NEW u \in Users, account[u] # Nothing,
         NEW b \in Login!AccountRecord,
         account' = [account EXCEPT ![u] = b], step' \in 0..MaxSteps, step < step',
         b.id = account[u].id, b.cut <= step',
         \/ b.cut > step
         \/ b.cut = account[u].cut /\ (~b.enabled => ~account[u].enabled)
  PROVE  Keeps(account, account', step, step')
<1>0. b # Nothing /\ step' \in Nat /\ step <= step'
  BY LoginFacts DEF Login!Assumption
<1>1. account' \in [Users -> Login!AccountRecord \cup {Nothing}] /\ account'[u] = b
  BY LoginFacts
<1>2. \A v \in Users : v # u => account'[v] = account[v]
  BY LoginFacts
<1>3. Keeps(account, account, step, step')
  BY <1>0, KeepsAll
<1>4. /\ \A v \in Users : account[v] # Nothing => account[v].cut <= step'
      /\ \A v, w \in Users : account[v] # Nothing /\ account[w] # Nothing
                               /\ account[v].id = account[w].id => v = w
  BY <1>3 DEF Keeps, AccountsSound
<1>5. \A v \in Users : account'[v] # Nothing =>
        account[v] # Nothing /\ account'[v].cut <= step' /\ account'[v].id = account[v].id
  BY <1>1, <1>2, <1>4
<1>6. AccountsSound(account', step')
  BY <1>1, <1>4, <1>5 DEF AccountsSound
<1>7. ASSUME NEW v \in Users, account[v] # Nothing
      PROVE  /\ account'[v] # Nothing /\ account'[v].id = account[v].id
             /\ \/ account'[v].cut > step
                \/ /\ account'[v].cut = account[v].cut
                   /\ ~account'[v].enabled => ~account[v].enabled
  <2>1. CASE v = u
    BY <1>0, <1>1, <2>1
  <2>2. CASE v # u
    BY <1>2, <1>7, <2>2
  <2> QED BY <2>1, <2>2
<1> QED BY <1>0, <1>6, <1>7 DEF Keeps

\* The user changes and its sessions are ended with it.
LEMMA UserEnded ==
  ASSUME Login!Assumption, LoginInv, NEW u \in Users, NEW b,
         account' = [account EXCEPT ![u] = b], Keeps(account, account', step, step'),
         step' \in 0..MaxSteps, sessions' = Login!WithoutSessions(u),
         UNCHANGED <<login, failures, now>>
  PROVE  LoginInv'
<1> DEFINE s2 == Login!WithoutSessions(u)
<1>1. /\ s2 = [t \in 1..Len(sessions) |-> s2[t]]
      /\ \A t \in 1..Len(sessions) :
           \/ s2[t] = [sessions[t] EXCEPT !.revoked = TRUE]
           \/ s2[t] = sessions[t] /\ sessions[t].user # u
  BY LoginFacts DEF Login!WithoutSessions
<1>2. \A t \in 1..Len(sessions) : sessions[t].user \in Users
  <2>1. \A t \in 1..Len(sessions) : sessions[t] \in OpenedRecord
    BY SessionsStay
  <2> QED BY <2>1 DEF OpenedRecord
<1>3. \A v \in Users : v # u => account'[v] = account[v]
  BY LoginFacts
<1> HIDE DEF s2
<1>4. \A t \in 1..Len(sessions) :
        \/ s2[t] = [sessions[t] EXCEPT !.revoked = TRUE]
        \/ /\ s2[t] = sessions[t]
           /\ account'[sessions[t].user].cut = account[sessions[t].user].cut
           /\ ~account'[sessions[t].user].enabled => ~account[sessions[t].user].enabled
  BY <1>1, <1>2, <1>3
<1>5. s2 \in Seq(OpenedRecord) /\ \A t \in 1..Len(s2) : OpenedSound(s2[t], account')
  BY <1>1, <1>4, SessionsLast
<1>6. sessions' = s2 /\ now' \in Nat
  BY LoginFacts DEF s2
<1> QED BY <1>5, <1>6, AccountChange

\* The user changes and its sessions go on.
LEMMA UserGoesOn ==
  ASSUME Login!Assumption, LoginInv, Keeps(account, account', step, step'),
         \A v \in Users : account[v] # Nothing =>
           /\ account'[v].cut = account[v].cut
           /\ ~account'[v].enabled => ~account[v].enabled,
         step' \in 0..MaxSteps, UNCHANGED <<sessions, login, failures, now>>
  PROVE  LoginInv'
<1>1. \A t \in 1..Len(sessions) : sessions[t].user \in Users /\ account[sessions[t].user] # Nothing
  BY SessionsStay DEF OpenedSound, Belongs
<1>2. sessions = [t \in 1..Len(sessions) |-> sessions[t]]
  BY LoginFacts
<1>3. \A t \in 1..Len(sessions) :
        \/ sessions[t] = [sessions[t] EXCEPT !.revoked = TRUE]
        \/ /\ sessions[t] = sessions[t]
           /\ account'[sessions[t].user].cut = account[sessions[t].user].cut
           /\ ~account'[sessions[t].user].enabled => ~account[sessions[t].user].enabled
  BY <1>1
<1>4. /\ sessions \in Seq(OpenedRecord)
      /\ \A t \in 1..Len(sessions) : OpenedSound(sessions[t], account')
  BY <1>2, <1>3, SessionsLast
<1>5. now' \in Nat /\ sessions' = sessions
  BY LoginFacts
<1> QED BY <1>4, <1>5, AccountChange

\* What the invariant says of a user that exists.
LEMMA AccountFacts ==
  ASSUME LoginInv, Login!Assumption, NEW u \in Users, Login!Exists(u)
  PROVE  /\ account[u] # Nothing /\ account[u] \in Login!AccountRecord /\ account[u].cut <= step
         /\ account[u].cut \in 0..MaxSteps
<1>1. account[u] # Nothing /\ account[u] \in Login!AccountRecord /\ account[u].cut <= step
  BY LoginFacts DEF Login!Exists, AccountsSound
<1> QED BY <1>1 DEF Login!AccountRecord

\* CreateUser: an identity nobody has.
LEMMA StepCreateUser ==
  ASSUME Login!Assumption, LoginInv, NEW u \in Users, NEW p \in Passwords, NEW id \in Identities,
         Login!CreateUser(u, p, id)
  PROVE  LoginInv'
<1> DEFINE b == [password |-> p, id |-> id, enabled |-> TRUE, cut |-> 0]
<1>0. /\ Login!Turn /\ account[u] = Nothing
      /\ \A v \in Users : account[v] # Nothing => account[v].id # id
      /\ account' = [account EXCEPT ![u] = b]
      /\ UNCHANGED <<sessions, failures, login, now>>
  BY DEF Login!CreateUser, Login!Exists, Login!Creatable, Login!Created
<1>1. step' \in 0..MaxSteps /\ step <= step' /\ step < step' /\ step' \in Nat
  BY <1>0, TurnBound
<1>2. b \in Login!AccountRecord /\ b.id = id /\ b.cut = 0
  BY DEF Login!AccountRecord, Login!Assumption
<1> HIDE DEF b
<1>3. account' \in [Users -> Login!AccountRecord \cup {Nothing}] /\ account'[u] = b
  BY <1>0, <1>2, LoginFacts
<1>4. \A v \in Users : v # u => account'[v] = account[v]
  BY <1>0, LoginFacts
<1>5. Keeps(account, account, step, step')
  BY <1>1, KeepsAll
<1>6. /\ \A v \in Users : account[v] # Nothing => account[v].cut <= step'
      /\ \A v, w \in Users : account[v] # Nothing /\ account[w] # Nothing
                               /\ account[v].id = account[w].id => v = w
  BY <1>5 DEF Keeps, AccountsSound
<1>7. \A v \in Users : account'[v] # Nothing => account'[v].cut <= step'
  BY <1>1, <1>2, <1>3, <1>4, <1>6
<1>8. \A v, w \in Users : account'[v] # Nothing /\ account'[w] # Nothing
                            /\ account'[v].id = account'[w].id => v = w
  <2> SUFFICES ASSUME NEW v \in Users, NEW w \in Users, account'[v] # Nothing,
                      account'[w] # Nothing, account'[v].id = account'[w].id
               PROVE  v = w
    OBVIOUS
  <2>1. CASE v = u /\ w # u
    BY <1>0, <1>2, <1>3, <1>4, <2>1
  <2>2. CASE v # u /\ w = u
    BY <1>0, <1>2, <1>3, <1>4, <2>2
  <2>3. CASE v # u /\ w # u
    BY <1>4, <1>6, <2>3
  <2> QED BY <2>1, <2>2, <2>3
<1>9. AccountsSound(account', step')
  BY <1>3, <1>7, <1>8 DEF AccountsSound
<1>10. \A v \in Users : account[v] # Nothing => account'[v] = account[v]
  BY <1>0, <1>4
<1>11. Keeps(account, account', step, step')
  BY <1>1, <1>9, <1>10 DEF Keeps
<1> QED BY <1>0, <1>1, <1>10, <1>11, UserGoesOn

\* UpsertUser: the identity stays, and so do the sessions.
LEMMA StepUpsertUser ==
  ASSUME Login!Assumption, LoginInv, NEW u \in Users, NEW p \in Passwords, NEW id \in Identities,
         Login!UpsertUser(u, p, id)
  PROVE  LoginInv'
<1> DEFINE a == account[u]
           b == IF a.id = id THEN [a EXCEPT !.password = p] ELSE a
<1>0. /\ Login!Turn /\ Login!Exists(u) /\ account' = [account EXCEPT ![u] = b]
      /\ UNCHANGED <<sessions, failures, login, now>>
  BY DEF Login!UpsertUser, Login!Upserted
<1>1. step' \in 0..MaxSteps /\ step <= step' /\ step < step' /\ step' \in Nat
  BY <1>0, TurnBound
<1>2. a # Nothing /\ a \in Login!AccountRecord /\ a.cut <= step /\ a.cut \in 0..MaxSteps
  BY <1>0, AccountFacts
<1>3. b \in Login!AccountRecord /\ b.id = a.id /\ b.cut = a.cut /\ b.enabled = a.enabled
  <2> HIDE DEF a
  <2> QED BY <1>2 DEF Login!AccountRecord
<1> HIDE DEF b
<1>4. b.cut <= step'
  BY <1>1, <1>2, <1>3, LoginFacts DEF Login!Assumption
<1>5. Keeps(account, account', step, step')
  BY <1>0, <1>1, <1>2, <1>3, <1>4, UserKeeps
<1>6. \A v \in Users : account[v] # Nothing => /\ account'[v].cut = account[v].cut
                                               /\ ~account'[v].enabled => ~account[v].enabled
  BY <1>0, <1>3, LoginFacts
<1> QED BY <1>0, <1>1, <1>5, <1>6, UserGoesOn

\* SetUserEnabled: disabling a user ends the sessions.
LEMMA StepSetUserEnabled ==
  ASSUME Login!Assumption, LoginInv, NEW u \in Users, NEW e \in BOOLEAN, Login!SetUserEnabled(u, e)
  PROVE  LoginInv'
<1> DEFINE a == account[u]
           b == [a EXCEPT !.enabled = e, !.cut = IF e THEN a.cut ELSE step']
<1>0. /\ Login!Turn /\ Login!Exists(u) /\ account' = [account EXCEPT ![u] = b]
      /\ sessions' = IF e THEN sessions ELSE Login!WithoutSessions(u)
      /\ UNCHANGED <<failures, login, now>>
  BY LoginFacts DEF Login!SetUserEnabled
<1>1. step' \in 0..MaxSteps /\ step <= step' /\ step < step' /\ step' \in Nat
  BY <1>0, TurnBound
<1>2. a # Nothing /\ a \in Login!AccountRecord /\ a.cut <= step /\ a.cut \in 0..MaxSteps
  BY <1>0, AccountFacts
<1>3. /\ b \in Login!AccountRecord /\ b.id = a.id /\ b.enabled = e
      /\ b.cut = IF e THEN a.cut ELSE step'
  <2> HIDE DEF a
  <2> QED BY <1>1, <1>2 DEF Login!AccountRecord
<1> HIDE DEF b
<1>4. b.cut <= step' /\ (b.cut > step \/ (b.cut = a.cut /\ (~b.enabled => ~a.enabled)))
  BY <1>1, <1>2, <1>3, LoginFacts DEF Login!Assumption
<1>5. Keeps(account, account', step, step')
  BY <1>0, <1>1, <1>2, <1>3, <1>4, UserKeeps
<1>6. CASE e
  <2>1. \A v \in Users : account[v] # Nothing => /\ account'[v].cut = account[v].cut
                                                 /\ ~account'[v].enabled => ~account[v].enabled
    BY <1>0, <1>3, <1>6, LoginFacts
  <2>2. UNCHANGED <<sessions, login, failures, now>>
    BY <1>0, <1>6
  <2> QED BY <1>1, <1>5, <2>1, <2>2, UserGoesOn
<1>7. CASE ~e
  <2>1. sessions' = Login!WithoutSessions(u) /\ UNCHANGED <<login, failures, now>>
    BY <1>0, <1>7
  <2> QED BY <1>0, <1>1, <1>5, <2>1, UserEnded
<1> QED BY <1>6, <1>7

\* ResetUserPassword: a new password ends the sessions.
LEMMA StepResetUserPassword ==
  ASSUME Login!Assumption, LoginInv, NEW u \in Users, NEW p \in Passwords,
         Login!ResetUserPassword(u, p)
  PROVE  LoginInv'
<1> DEFINE a == account[u]
           b == [a EXCEPT !.password = p, !.cut = step']
<1>0. /\ Login!Turn /\ Login!Exists(u) /\ account' = [account EXCEPT ![u] = b]
      /\ sessions' = Login!WithoutSessions(u)
      /\ UNCHANGED <<failures, login, now>>
  BY LoginFacts DEF Login!ResetUserPassword
<1>1. step' \in 0..MaxSteps /\ step <= step' /\ step < step' /\ step' \in Nat
  BY <1>0, TurnBound
<1>2. a # Nothing /\ a \in Login!AccountRecord
  BY <1>0, AccountFacts
<1>3. b \in Login!AccountRecord /\ b.id = a.id /\ b.cut = step'
  <2> HIDE DEF a
  <2> QED BY <1>1, <1>2 DEF Login!AccountRecord
<1> HIDE DEF b
<1>4. b.cut <= step' /\ b.cut > step
  BY <1>1, <1>3, LoginFacts
<1>5. Keeps(account, account', step, step')
  BY <1>0, <1>1, <1>2, <1>3, <1>4, UserKeeps
<1> QED BY <1>0, <1>1, <1>5, UserEnded

\* RevokeUserSessions ends the sessions and leaves the rest.
LEMMA StepRevokeUserSessions ==
  ASSUME Login!Assumption, LoginInv, NEW u \in Users, Login!RevokeUserSessions(u)
  PROVE  LoginInv'
<1> DEFINE a == account[u]
           b == [a EXCEPT !.cut = step']
<1>0. /\ Login!Turn /\ Login!Exists(u) /\ account' = [account EXCEPT ![u] = b]
      /\ sessions' = Login!WithoutSessions(u)
      /\ UNCHANGED <<failures, login, now>>
  BY LoginFacts DEF Login!RevokeUserSessions
<1>1. step' \in 0..MaxSteps /\ step <= step' /\ step < step' /\ step' \in Nat
  BY <1>0, TurnBound
<1>2. a # Nothing /\ a \in Login!AccountRecord
  BY <1>0, AccountFacts
<1>3. b \in Login!AccountRecord /\ b.id = a.id /\ b.cut = step'
  <2> HIDE DEF a
  <2> QED BY <1>1, <1>2 DEF Login!AccountRecord
<1> HIDE DEF b
<1>4. b.cut <= step' /\ b.cut > step
  BY <1>1, <1>3, LoginFacts
<1>5. Keeps(account, account', step, step')
  BY <1>0, <1>1, <1>2, <1>3, <1>4, UserKeeps
<1> QED BY <1>0, <1>1, <1>5, UserEnded

\* One session is ended, by a logout or from the console.
LEMMA StepEnd ==
  ASSUME Login!Assumption, LoginInv, NEW t \in 1..Len(sessions),
         Login!Logout(t) \/ Login!RevokeSessionByID(t)
  PROVE  LoginInv'
<1> DEFINE s2 == [sessions EXCEPT ![t] = [sessions[t] EXCEPT !.revoked = TRUE]]
<1>0. /\ Login!Turn /\ UNCHANGED <<account, failures, login, now>>
      /\ sessions' = s2
  BY DEF Login!Logout, Login!RevokeSessionByID, Login!Revoked
<1>1. step' \in 0..MaxSteps /\ step <= step' /\ step < step' /\ step' \in Nat
  BY <1>0, TurnBound
<1>2. Keeps(account, account', step, step')
  BY <1>0, <1>1, KeepsAll
<1>3. /\ s2 = [i \in 1..Len(sessions) |-> s2[i]]
      /\ \A i \in 1..Len(sessions) : \/ s2[i] = [sessions[i] EXCEPT !.revoked = TRUE]
                                     \/ s2[i] = sessions[i]
  BY LoginFacts
<1> HIDE DEF s2
<1>4. \A i \in 1..Len(sessions) :
        \/ s2[i] = [sessions[i] EXCEPT !.revoked = TRUE]
        \/ /\ s2[i] = sessions[i]
           /\ account'[sessions[i].user].cut = account[sessions[i].user].cut
           /\ ~account'[sessions[i].user].enabled => ~account[sessions[i].user].enabled
  BY <1>0, <1>3
<1>5. s2 \in Seq(OpenedRecord) /\ \A i \in 1..Len(s2) : OpenedSound(s2[i], account')
  BY <1>2, <1>3, <1>4, SessionsLast
<1>6. now' \in Nat /\ UNCHANGED <<login, failures>>
  BY <1>0, LoginFacts
<1> QED BY <1>0, <1>1, <1>2, <1>5, <1>6, AccountChange

\* The clock: sessions and blocks may run out, which no part of the invariant minds.
LEMMA StepLoginTick ==
  ASSUME Login!Assumption, LoginInv, Login!Tick
  PROVE  LoginInv'
<1>1. /\ now' = now + 1 /\ UNCHANGED <<account, sessions, failures, login, step>>
  BY DEF Login!Tick
<1>2. now' \in Nat
  BY <1>1, LoginFacts
<1> QED BY <1>1, <1>2 DEF LoginInv, AccountsSound, OpenedSound, LoginSound, FailureSound,
           Belongs, Trying

\* A gateway without users.
LEMMA LoginInit ==
  ASSUME Login!Assumption, Login!Init
  PROVE  LoginInv
<1>1. /\ account = [u \in Users |-> Nothing] /\ sessions = <<>>
      /\ failures = [u \in Users |-> Nothing] /\ login = [c \in Clients |-> Login!NoLogin]
      /\ now = 0 /\ step = 0
  BY DEF Login!Init
<1>2. AccountsSound(account, step)
  BY <1>1 DEF AccountsSound
<1>3. /\ sessions \in Seq(OpenedRecord)
      /\ \A t \in 1..Len(sessions) : OpenedSound(sessions[t], account)
  BY <1>1
<1>4. \A c \in Clients : LoginSound(login[c], account, step)
  BY <1>1, NoLoginSound
<1>5. login \in [Clients -> LoginRecord]
  <2>1. \A c \in Clients : login[c] \in LoginRecord
    BY <1>4 DEF LoginSound
  <2> QED BY <1>1, <2>1
<1>6. failures \in [Users -> FailureRecord \cup {Nothing}]
  BY <1>1
<1>7. \A u \in Users : FailureSound(failures[u], login, u)
  BY <1>1 DEF FailureSound
<1>8. now \in Nat /\ step \in 0..MaxSteps
  BY <1>1 DEF Login!Assumption
<1> QED BY <1>2, <1>3, <1>4, <1>5, <1>6, <1>7, <1>8 DEF LoginInv

\* Every step of the logins and of the control plane, and every stutter.
LEMMA LoginNext ==
  ASSUME Login!Assumption, LoginInv, [Login!Next]_Login!vars
  PROVE  LoginInv'
<1>1. CASE UNCHANGED Login!vars
  <2>1. UNCHANGED <<account, sessions, failures, login, now, step>>
    BY <1>1 DEF Login!vars
  <2> QED BY <2>1 DEF LoginInv, AccountsSound, OpenedSound, LoginSound, FailureSound,
           Belongs, Trying
<1>2. CASE \E c \in Clients, u \in Users, p \in Passwords \cup {Nothing} : Login!Login(c, u, p)
  BY <1>2, StepLogin
<1>3. CASE \E c \in Clients : Login!LoginStep(c)
  BY <1>3, StepAuthenticate, StepRecordFailure, StepClear, StepSaveSession, StepSaveFails
     DEF Login!LoginStep
<1>4. CASE \E t \in DOMAIN sessions : Login!Logout(t) \/ Login!RevokeSessionByID(t)
  BY <1>4, StepEnd, LoginFacts
<1>5. CASE \E u \in Users, p \in Passwords, id \in Identities :
             Login!CreateUser(u, p, id) \/ Login!UpsertUser(u, p, id)
  BY <1>5, StepCreateUser, StepUpsertUser
<1>6. CASE \E u \in Users, b \in BOOLEAN : Login!SetUserEnabled(u, b)
  BY <1>6, StepSetUserEnabled
<1>7. CASE \E u \in Users, p \in Passwords : Login!ResetUserPassword(u, p)
  BY <1>7, StepResetUserPassword
<1>8. CASE \E u \in Users : Login!RevokeUserSessions(u)
  BY <1>8, StepRevokeUserSessions
<1>9. CASE Login!Tick
  BY <1>9, StepLoginTick
<1> QED BY <1>1, <1>2, <1>3, <1>4, <1>5, <1>6, <1>7, <1>8, <1>9 DEF Login!Next

\* The invariant implies what the run checks.
LEMMA LoginInvSound ==
  ASSUME Login!Assumption, LoginInv
  PROVE  Login!AccessSound
<1>0. /\ account \in [Users -> Login!AccountRecord \cup {Nothing}] /\ AccountsSound(account, step)
      /\ DOMAIN sessions = 1..Len(sessions)
      /\ login \in [Clients -> LoginRecord]
  BY LoginFacts
<1>1. \A u \in Users : account[u] = Nothing
        \/ /\ account[u].password \in Passwords /\ account[u].id \in Identities
           /\ account[u].enabled \in BOOLEAN /\ account[u].cut \in 0..MaxSteps
  BY <1>0 DEF Login!AccountRecord
<1>2. \A t \in DOMAIN sessions :
        /\ sessions[t] \in OpenedRecord /\ OpenedSound(sessions[t], account)
        /\ sessions[t].user \in Users /\ sessions[t].revoked \in BOOLEAN
        /\ sessions[t].id \in Identities
  <2>1. \A t \in 1..Len(sessions) : sessions[t] \in OpenedRecord
                                    /\ OpenedSound(sessions[t], account)
    BY SessionsStay
  <2> QED BY <1>0, <2>1 DEF OpenedRecord
<1>3. Login!TypeOK
  <2>1. \A u \in Users : failures[u] = Nothing \/ failures[u].count > 0
    BY LoginFacts DEF FailureRecord
  <2> QED BY <1>0, <1>1, <1>2, <2>1 DEF Login!TypeOK, LoginRecord
<1>4. Login!RevokedForGood
  BY <1>2 DEF Login!RevokedForGood, Login!Active, OpenedSound
<1>5. Login!IdentitiesKept
  <2> SUFFICES ASSUME NEW t \in DOMAIN sessions
               PROVE  /\ sessions[t].id = account[sessions[t].user].id
                      /\ \A u \in Users \ {sessions[t].user} : Login!Exists(u) =>
                           Login!CurrentUser(t, account[u].id) # account[u].id
    BY DEF Login!IdentitiesKept
  <2>1. /\ sessions[t].id = account[sessions[t].user].id /\ account[sessions[t].user] # Nothing
        /\ sessions[t].user \in Users
    BY <1>2 DEF OpenedSound, Belongs
  <2>2. ASSUME NEW u \in Users, u # sessions[t].user, Login!Exists(u)
        PROVE  Login!CurrentUser(t, account[u].id) # account[u].id
    <3>1. account[u] # Nothing
      BY <2>2 DEF Login!Exists
    <3>2. account[u].id # sessions[t].id
      BY <1>0, <2>1, <2>2, <3>1 DEF AccountsSound
    <3>3. account[u].id \in Identities
      BY <1>1, <3>1
    <3>4. account[u].id # "unauthorized" /\ account[u].id # "forbidden"
      BY <3>3 DEF Login!Assumption
    <3> QED BY <3>2, <3>4 DEF Login!CurrentUser
  <2> QED BY <2>1, <2>2
<1>6. Login!GuessesBounded
  <2> SUFFICES ASSUME NEW u \in Users, failures[u] # Nothing
               PROVE  failures[u].count < Limit + Login!Cardinality(Clients)
    BY DEF Login!GuessesBounded
  <2>1. /\ failures[u] \in FailureRecord
        /\ failures[u].count + Cardinality(Trying(login, u)) < Limit + Cardinality(Clients)
    BY DEF LoginInv, FailureSound
  <2>2. failures[u].count \in Nat
    BY <2>1 DEF FailureRecord
  <2>3. Cardinality(Trying(login, u)) \in Nat /\ Cardinality(Clients) \in Nat
    BY TryingCounts
  <2>4. failures[u].count < Limit + Cardinality(Clients)
    BY <2>1, <2>2, <2>3 DEF Login!Assumption
  <2>5. Login!Cardinality(Clients) = Cardinality(Clients)
    BY DEF Login!Cardinality, Cardinality
  <2> QED BY <2>4, <2>5
<1> QED BY <1>3, <1>4, <1>5, <1>6 DEF Login!AccessSound

\* For every number of users, clients and steps and every limit: no active session was saved
\* before its user was last disabled, given a new password or revoked, and one of a disabled
\* user is of a login that knew the password before and was saved after; the identity in a
\* session stays its user's and nobody else's; and a user's failures stay below the limit and
\* one for each client (handleAuthenticate, loginFailureLimiter, saveSession, SetUserEnabled,
\* ResetUserPassword, RevokeUserSessions).
THEOREM LoginsStaySound ==
  ASSUME Login!Assumption
  PROVE  Login!Spec => []Login!AccessSound
<1>1. Login!Init => LoginInv
  BY LoginInit
<1>2. LoginInv /\ [Login!Next]_Login!vars => LoginInv'
  BY LoginNext
<1>3. LoginInv => Login!AccessSound
  BY LoginInvSound
<1> QED BY <1>1, <1>2, <1>3, PTL DEF Login!Spec

-----------------------------------------------------------------------------
(* The console: sessions, tickets and limiters of administrators             *)

SessionRecord ==
  [of : Superusers, created : Nat, seen : Nat, state : {"live", "expired", "ended"}]
TicketRecord == [session : 1..MaxIds, expires : Nat, kept : BOOLEAN]
WindowRecord == [count : 1..RateLimit, start : Nat]
RequestRecord ==
  [pc : {"idle", "loaded", "touched", "reauth", "create", "issue", "ticket", "reconfigure"},
   kind : {"", "read", "reauth", "reconfigure"}, id : 0..MaxIds, csrf : 0..MaxIds, ticket : Nat,
   of : Superusers \cup {Nothing}]
ConfirmedRecord == [ticket : Nat, session : 1..MaxIds, ended : BOOLEAN]

LiveOf(s) == {i \in 1..Len(s) : s[i].state = "live"}

\* The store of sessions s and tickets k at time n.
StoreSound(s, k, n) ==
  /\ s \in Seq(SessionRecord) /\ Len(s) <= MaxIds
  /\ \A i \in 1..Len(s) : s[i].created <= s[i].seen /\ s[i].seen <= n
  /\ k \in Seq(TicketRecord)
  /\ \A t \in 1..Len(k) : k[t].session \in 1..Len(s)
  /\ Cardinality(LiveOf(s)) <= MaxSessions

\* A request q: the ticket it was sent with was there when its session was, so if
\* that session has ended since, so has the ticket.
RequestSound(q, s, k) ==
  /\ q \in RequestRecord
  /\ q.pc = "idle" \/ q.id \in 1..Len(s)
  /\ q.pc = "idle" => q.id = 0
  /\ q.ticket \in 0..Len(k)
  /\ q.pc = "touched" => q.kind \in {"reauth", "reconfigure"}
  /\ q.pc = "loaded" => q.kind # ""
  /\ q.pc = "create" => q.of \in Superusers
  /\ q.pc \in {"loaded", "touched", "reconfigure"} /\ q.ticket # 0
       => (k[q.ticket].kept /\ k[q.ticket].session = q.id => s[q.id].state # "ended")

ConfirmedSound(c, k) ==
  /\ c \in Seq(ConfirmedRecord)
  /\ \A n \in 1..Len(c) :
       /\ c[n].ticket \in 1..Len(k) /\ ~k[c[n].ticket].kept
       /\ k[c[n].ticket].session = c[n].session /\ ~c[n].ended
       /\ \A m \in 1..Len(c) : c[m].ticket = c[n].ticket => m = n

ConsoleInv ==
  /\ now \in Nat /\ valid \subseteq Superusers
  /\ StoreSound(session, ticket, now)
  /\ windows \in [0..MaxIds -> WindowRecord \cup {Nothing}]
  /\ request \in [Requests -> RequestRecord]
  /\ \A r \in Requests : RequestSound(request[r], session, ticket)
  /\ ConfirmedSound(confirmed, ticket)

\* What becomes of the sessions s and tickets k: a ticket stays with its session and
\* does not come back, and one of a session that ends is gone.
Follows(s, k, s2, k2) ==
  /\ Len(s) <= Len(s2) /\ Len(k) <= Len(k2)
  /\ \A t \in 1..Len(k) : k2[t].session = k[t].session /\ (k2[t].kept => k[t].kept)
  /\ \A i \in 1..Len(s) : s2[i].state = "ended" /\ s[i].state # "ended" =>
       \A t \in 1..Len(k) : k[t].session = i => ~k2[t].kept

-----------------------------------------------------------------------------
\* A store with fewer live sessions is within its capacity too.
LEMMA FewerLive ==
  ASSUME NEW s \in Seq(SessionRecord), NEW s2, LiveOf(s2) \subseteq LiveOf(s),
         Cardinality(LiveOf(s)) <= MaxSessions, MaxSessions \in Nat
  PROVE  Cardinality(LiveOf(s2)) <= MaxSessions
<1>1. Len(s) \in Nat
  OBVIOUS
<1>0. IsFiniteSet(1..Len(s)) /\ LiveOf(s) \subseteq 1..Len(s)
  BY <1>1, FS_Interval DEF LiveOf
<1>2. IsFiniteSet(LiveOf(s))
  BY <1>0, FS_Subset
<1>3. Cardinality(LiveOf(s2)) <= Cardinality(LiveOf(s)) /\ IsFiniteSet(LiveOf(s2))
  BY <1>2, FS_Subset
<1>4. Cardinality(LiveOf(s2)) \in Nat /\ Cardinality(LiveOf(s)) \in Nat
  BY <1>2, <1>3, FS_CardinalityType
<1> QED BY <1>3, <1>4

\* Sessions of which some are over, tickets of which some are gone: a session ends only
\* with its tickets.
LEMMA StoreShrinks ==
  ASSUME Console!Assumption, ConsoleInv, NEW s2, NEW k2,
         DOMAIN s2 = 1..Len(session), DOMAIN k2 = 1..Len(ticket),
         s2 = [i \in 1..Len(session) |-> s2[i]], k2 = [t \in 1..Len(ticket) |-> k2[t]],
         \A i \in 1..Len(session) : \/ s2[i] = session[i]
                                    \/ s2[i] = [session[i] EXCEPT !.state = "expired"]
                                    \/ /\ s2[i] = [session[i] EXCEPT !.state = "ended"]
                                       /\ \A t \in 1..Len(ticket) :
                                            ticket[t].session = i => ~k2[t].kept,
         \A t \in 1..Len(ticket) : \/ k2[t] = ticket[t]
                                   \/ k2[t] = [ticket[t] EXCEPT !.kept = FALSE]
  PROVE  /\ StoreSound(s2, k2, now) /\ Follows(session, ticket, s2, k2)
         /\ Len(s2) = Len(session) /\ Len(k2) = Len(ticket)
         /\ LiveOf(s2) \subseteq LiveOf(session)
<1>0. /\ session \in Seq(SessionRecord) /\ ticket \in Seq(TicketRecord)
      /\ Len(session) \in Nat /\ Len(ticket) \in Nat /\ Len(session) <= MaxIds
      /\ \A i \in 1..Len(session) : /\ session[i] \in SessionRecord
                                    /\ session[i].created <= session[i].seen
                                    /\ session[i].seen <= now
      /\ \A t \in 1..Len(ticket) : /\ ticket[t] \in TicketRecord
                                   /\ ticket[t].session \in 1..Len(session)
  BY DEF ConsoleInv, StoreSound
<1>1. \A i \in 1..Len(session) :
        /\ s2[i] \in SessionRecord /\ s2[i].created = session[i].created
        /\ s2[i].seen = session[i].seen
        /\ s2[i].state = "live" => session[i].state = "live"
        /\ s2[i].state = "ended" /\ session[i].state # "ended" =>
             \A t \in 1..Len(ticket) : ticket[t].session = i => ~k2[t].kept
  <2> SUFFICES ASSUME NEW i \in 1..Len(session)
               PROVE  /\ s2[i] \in SessionRecord /\ s2[i].created = session[i].created
                      /\ s2[i].seen = session[i].seen
                      /\ s2[i].state = "live" => session[i].state = "live"
                      /\ s2[i].state = "ended" /\ session[i].state # "ended" =>
                           \A t \in 1..Len(ticket) : ticket[t].session = i => ~k2[t].kept
    OBVIOUS
  <2>0. session[i] \in SessionRecord
    BY <1>0
  <2>1. CASE s2[i] = session[i]
    BY <2>0, <2>1
  <2>2. CASE s2[i] = [session[i] EXCEPT !.state = "expired"]
    BY <2>0, <2>2 DEF SessionRecord
  <2>3. CASE /\ s2[i] = [session[i] EXCEPT !.state = "ended"]
             /\ \A t \in 1..Len(ticket) : ticket[t].session = i => ~k2[t].kept
    BY <2>0, <2>3 DEF SessionRecord
  <2> QED BY <2>1, <2>2, <2>3
<1>2. \A t \in 1..Len(ticket) :
        /\ k2[t] \in TicketRecord /\ k2[t].session = ticket[t].session
        /\ k2[t].kept => ticket[t].kept
  <2> TAKE t \in 1..Len(ticket)
  <2>0. ticket[t] \in TicketRecord
    BY <1>0
  <2>1. CASE k2[t] = ticket[t]
    BY <2>0, <2>1
  <2>2. CASE k2[t] = [ticket[t] EXCEPT !.kept = FALSE]
    BY <2>0, <2>2 DEF TicketRecord
  <2> QED BY <2>1, <2>2
<1>3. s2 \in Seq(SessionRecord) /\ Len(s2) = Len(session)
  BY <1>0, <1>1
<1>4. k2 \in Seq(TicketRecord) /\ Len(k2) = Len(ticket)
  BY <1>0, <1>2
<1>5. LiveOf(s2) \subseteq LiveOf(session)
  BY <1>1, <1>3 DEF LiveOf
<1>6. Cardinality(LiveOf(s2)) <= MaxSessions
  BY <1>0, <1>5, FewerLive DEF ConsoleInv, StoreSound, Console!Assumption
<1>7. StoreSound(s2, k2, now)
  BY <1>0, <1>1, <1>2, <1>3, <1>4, <1>6 DEF StoreSound
<1>8. Follows(session, ticket, s2, k2)
  BY <1>0, <1>1, <1>2, <1>3, <1>4 DEF Follows
<1> QED BY <1>3, <1>4, <1>5, <1>7, <1>8

\* expireLocked leaves the store sound.
LEMMA SweptSound ==
  ASSUME Console!Assumption, ConsoleInv
  PROVE  /\ StoreSound(Console!Swept, Console!SweptTickets, now)
         /\ Follows(session, ticket, Console!Swept, Console!SweptTickets)
         /\ Len(Console!Swept) = Len(session) /\ Len(Console!SweptTickets) = Len(ticket)
         /\ LiveOf(Console!Swept) \subseteq LiveOf(session)
<1>0. DOMAIN session = 1..Len(session) /\ DOMAIN ticket = 1..Len(ticket)
  BY DEF ConsoleInv, StoreSound
<1> DEFINE s2 == Console!Swept
           k2 == Console!SweptTickets
<1>1. /\ DOMAIN s2 = 1..Len(session) /\ DOMAIN k2 = 1..Len(ticket)
      /\ s2 = [i \in 1..Len(session) |-> s2[i]] /\ k2 = [t \in 1..Len(ticket) |-> k2[t]]
  BY <1>0 DEF Console!Swept, Console!SweptTickets
<1>2. \A i \in 1..Len(session) : \/ s2[i] = session[i]
                                 \/ s2[i] = [session[i] EXCEPT !.state = "expired"]
  BY <1>0 DEF Console!Swept
<1>3. \A t \in 1..Len(ticket) : k2[t] = ticket[t] \/ k2[t] = [ticket[t] EXCEPT !.kept = FALSE]
  BY <1>0 DEF Console!SweptTickets
<1> HIDE DEF s2, k2
<1>4. /\ StoreSound(s2, k2, now) /\ Follows(session, ticket, s2, k2)
      /\ Len(s2) = Len(session) /\ Len(k2) = Len(ticket)
      /\ LiveOf(s2) \subseteq LiveOf(session)
  BY <1>1, <1>2, <1>3, StoreShrinks
<1> QED BY <1>4 DEF s2, k2

\* Delete takes the session's tickets with it.
LEMMA DeletedSound ==
  ASSUME Console!Assumption, ConsoleInv, NEW i \in 1..Len(session)
  PROVE  /\ StoreSound(Console!Deleted(session, i), Console!DeletedTickets(i), now)
         /\ Follows(session, ticket, Console!Deleted(session, i), Console!DeletedTickets(i))
<1>0. /\ DOMAIN session = 1..Len(session) /\ DOMAIN ticket = 1..Len(ticket)
      /\ session = [j \in 1..Len(session) |-> session[j]]
  BY DEF ConsoleInv, StoreSound
<1> DEFINE s2 == Console!Deleted(session, i)
           k2 == Console!DeletedTickets(i)
<1>1. DOMAIN s2 = 1..Len(session) /\ s2 = [j \in 1..Len(session) |-> s2[j]]
  BY <1>0 DEF Console!Deleted
<1>2. DOMAIN k2 = 1..Len(ticket) /\ k2 = [t \in 1..Len(ticket) |-> k2[t]]
  BY <1>0 DEF Console!DeletedTickets
<1>3. \A t \in 1..Len(ticket) : /\ k2[t] = ticket[t] \/ k2[t] = [ticket[t] EXCEPT !.kept = FALSE]
                                /\ ticket[t].session = i =>
                                     k2[t] = [ticket[t] EXCEPT !.kept = FALSE]
  BY <1>0 DEF Console!DeletedTickets
<1>4. \A t \in 1..Len(ticket) : ticket[t].session = i => ~k2[t].kept
  <2>1. \A t \in 1..Len(ticket) : ticket[t] \in TicketRecord
    BY DEF ConsoleInv, StoreSound
  <2> HIDE DEF k2
  <2> QED BY <1>3, <2>1 DEF TicketRecord
<1>5. \A j \in 1..Len(session) :
        \/ s2[j] = session[j]
        \/ j = i /\ s2[j] = [session[j] EXCEPT !.state = "ended"]
  BY <1>0 DEF Console!Deleted
<1> HIDE DEF s2, k2
<1>6. StoreSound(s2, k2, now) /\ Follows(session, ticket, s2, k2)
  BY <1>1, <1>2, <1>3, <1>4, <1>5, StoreShrinks
<1> QED BY <1>6 DEF s2, k2

\* Get finds a session or sweeps.
LEMMA GetSound ==
  ASSUME Console!Assumption, ConsoleInv, NEW i, Console!Get(i)
  PROVE  StoreSound(session', ticket', now) /\ Follows(session, ticket, session', ticket')
<1>1. CASE UNCHANGED <<session, ticket>>
  BY <1>1 DEF ConsoleInv, Follows, StoreSound
<1>2. CASE session' = Console!Swept /\ ticket' = Console!SweptTickets
  BY <1>2, SweptSound
<1> QED BY <1>1, <1>2 DEF Console!Get

\* A new session, when the sweep leaves room.
LEMMA NewSessionSound ==
  ASSUME Console!Assumption, ConsoleInv, NEW u \in Superusers, Console!HasRoom(Console!Swept)
  PROVE  /\ StoreSound(Append(Console!Swept, Console!NewSession(u)), Console!SweptTickets, now)
         /\ Follows(session, ticket, Append(Console!Swept, Console!NewSession(u)),
                    Console!SweptTickets)
         /\ Len(session) + 1 <= MaxIds
         /\ Len(Append(Console!Swept, Console!NewSession(u))) = Len(session) + 1
<1> DEFINE s2 == Console!Swept
           k2 == Console!SweptTickets
           w == Console!NewSession(u)
           a == Append(s2, w)
<1>1. /\ StoreSound(s2, k2, now) /\ Follows(session, ticket, s2, k2)
      /\ Len(s2) = Len(session)
  BY SweptSound
<1>2. w \in SessionRecord /\ w.created = now /\ w.seen = now /\ w.state = "live"
  BY DEF Console!NewSession, SessionRecord, ConsoleInv
<1>3. Len(s2) < MaxIds /\ Cardinality({i \in DOMAIN s2 : s2[i].state = "live"}) < MaxSessions
  BY DEF Console!HasRoom, Console!Cardinality, Cardinality
<1> HIDE DEF s2, k2, w
<1>4. s2 \in Seq(SessionRecord) /\ Len(s2) \in Nat /\ DOMAIN s2 = 1..Len(s2)
  BY <1>1 DEF StoreSound
<1>5. /\ a \in Seq(SessionRecord) /\ Len(a) = Len(s2) + 1 /\ a[Len(s2) + 1] = w
      /\ \A i \in 1..Len(s2) : a[i] = s2[i]
  BY <1>2, <1>4
<1>6. Cardinality(LiveOf(a)) <= MaxSessions
  <2>1. LiveOf(a) = LiveOf(s2) \cup {Len(s2) + 1} /\ Len(s2) + 1 \notin LiveOf(s2)
    BY <1>2, <1>4, <1>5 DEF LiveOf
  <2>2. IsFiniteSet(1..Len(s2)) /\ LiveOf(s2) \subseteq 1..Len(s2)
    BY <1>4, FS_Interval DEF LiveOf
  <2>3. IsFiniteSet(LiveOf(s2))
    BY <2>2, FS_Subset
  <2>4. Cardinality(LiveOf(a)) = Cardinality(LiveOf(s2)) + 1
    BY <2>1, <2>3, FS_AddElement
  <2>5. Cardinality(LiveOf(s2)) \in Nat
    BY <2>3, FS_CardinalityType
  <2>6. Cardinality(LiveOf(s2)) < MaxSessions
    BY <1>3, <1>4 DEF LiveOf
  <2> QED BY <2>4, <2>5, <2>6 DEF Console!Assumption
<1>7. StoreSound(a, k2, now)
  <2>1. \A i \in 1..Len(a) : a[i].created <= a[i].seen /\ a[i].seen <= now
    BY <1>1, <1>2, <1>4, <1>5 DEF StoreSound, ConsoleInv
  <2>2. \A t \in 1..Len(k2) : k2[t].session \in 1..Len(a)
    BY <1>1, <1>4, <1>5 DEF StoreSound
  <2> QED BY <1>1, <1>3, <1>4, <1>5, <1>6, <2>1, <2>2 DEF StoreSound, Console!Assumption
<1>8. Follows(session, ticket, a, k2)
  BY <1>1, <1>4, <1>5 DEF Follows, ConsoleInv, StoreSound
<1>9. Len(session) + 1 <= MaxIds /\ Len(a) = Len(session) + 1
  BY <1>1, <1>3, <1>4, <1>5 DEF Console!Assumption
<1> QED BY <1>7, <1>8, <1>9 DEF s2, k2, w

-----------------------------------------------------------------------------
\* A request stays sound whatever the others do to the store.
LEMMA RequestLasts ==
  ASSUME NEW q, NEW s, NEW k, NEW s2, NEW k2, NEW n, NEW n2, StoreSound(s, k, n),
         StoreSound(s2, k2, n2), Follows(s, k, s2, k2), RequestSound(q, s, k)
  PROVE  RequestSound(q, s2, k2)
<1>1. /\ Len(s) \in Nat /\ Len(s2) \in Nat /\ Len(k) \in Nat /\ Len(k2) \in Nat
      /\ Len(s) <= Len(s2) /\ Len(k) <= Len(k2)
  BY DEF StoreSound, Follows
<1>2. /\ q \in RequestRecord /\ q.ticket \in Nat /\ (q.pc = "idle" \/ q.id \in 1..Len(s2))
      /\ q.ticket \in 0..Len(k2) /\ (q.pc = "touched" => q.kind \in {"reauth", "reconfigure"})
      /\ (q.pc = "loaded" => q.kind # "") /\ (q.pc = "create" => q.of \in Superusers)
      /\ (q.pc = "idle" => q.id = 0)
  <2>1. /\ q \in RequestRecord /\ (q.pc = "idle" \/ q.id \in 1..Len(s))
        /\ q.ticket \in 0..Len(k) /\ (q.pc = "touched" => q.kind \in {"reauth", "reconfigure"})
        /\ (q.pc = "loaded" => q.kind # "") /\ (q.pc = "create" => q.of \in Superusers)
        /\ (q.pc = "idle" => q.id = 0)
    BY DEF RequestSound
  <2>2. 1..Len(s) \subseteq 1..Len(s2) /\ 0..Len(k) \subseteq 0..Len(k2) /\ 0..Len(k) \subseteq Nat
    BY <1>1
  <2> QED BY <2>1, <2>2
<1>3. ASSUME q.pc \in {"loaded", "touched", "reconfigure"}, q.ticket # 0,
             k2[q.ticket].kept, k2[q.ticket].session = q.id, s2[q.id].state = "ended"
      PROVE  FALSE
  <2>0. q.ticket \in 0..Len(k) /\ q.pc # "idle" /\ (q.pc = "idle" \/ q.id \in 1..Len(s))
    BY <1>3 DEF RequestSound
  <2>1. q.ticket \in 1..Len(k) /\ q.id \in 1..Len(s)
    BY <1>1, <1>3, <2>0
  <2>2. k[q.ticket].kept /\ k[q.ticket].session = q.id
    BY <1>3, <2>1 DEF Follows
  <2>3. s[q.id].state # "ended"
    BY <1>3, <2>2 DEF RequestSound
  <2> QED BY <1>3, <2>1, <2>2, <2>3 DEF Follows
<1> QED BY <1>2, <1>3 DEF RequestSound

\* A ticket that was used stays used.
LEMMA ConfirmedLasts ==
  ASSUME NEW c, NEW s, NEW k, NEW s2, NEW k2, NEW n, NEW n2, StoreSound(s, k, n),
         StoreSound(s2, k2, n2), Follows(s, k, s2, k2), ConfirmedSound(c, k)
  PROVE  ConfirmedSound(c, k2)
<1>1. Len(k) \in Nat /\ Len(k2) \in Nat /\ Len(k) <= Len(k2)
  BY DEF StoreSound, Follows
<1>2. ASSUME NEW m \in 1..Len(c)
      PROVE  /\ c[m].ticket \in 1..Len(k2) /\ ~k2[c[m].ticket].kept
             /\ k2[c[m].ticket].session = c[m].session
  <2>1. /\ c[m].ticket \in 1..Len(k) /\ ~k[c[m].ticket].kept
        /\ k[c[m].ticket].session = c[m].session
    BY DEF ConfirmedSound
  <2>2. c[m].ticket \in 1..Len(k2)
    BY <1>1, <2>1
  <2> QED BY <2>1, <2>2 DEF Follows
<1> QED BY <1>2 DEF ConfirmedSound

\* A step of the store and of the request r, which becomes q.
LEMMA RequestChange ==
  ASSUME Console!Assumption, ConsoleInv, NEW r \in Requests, NEW q,
         request' = [request EXCEPT ![r] = q],
         RequestSound(q, session', ticket'),
         StoreSound(session', ticket', now), Follows(session, ticket, session', ticket'),
         windows' \in [0..MaxIds -> WindowRecord \cup {Nothing}],
         ConfirmedSound(confirmed', ticket'),
         UNCHANGED <<valid, now>>
  PROVE  ConsoleInv'
<1>0. q \in RequestRecord /\ request \in [Requests -> RequestRecord]
  BY DEF ConsoleInv, RequestSound
<1>1. request' \in [Requests -> RequestRecord]
  BY <1>0
<1>2. ASSUME NEW o \in Requests PROVE RequestSound(request'[o], session', ticket')
  <2>1. CASE o = r
    BY <2>1, <1>0
  <2>2. CASE o # r
    <3>1. request'[o] = request[o]
      BY <2>2, <1>0
    <3>2. RequestSound(request[o], session, ticket) /\ StoreSound(session, ticket, now)
      BY DEF ConsoleInv
    <3>3. RequestSound(request[o], session', ticket')
      BY <3>2, RequestLasts
    <3> QED BY <3>1, <3>3
  <2> QED BY <2>1, <2>2
<1> QED BY <1>1, <1>2 DEF ConsoleInv

\* A step of the store alone.
LEMMA StoreChange ==
  ASSUME Console!Assumption, ConsoleInv, UNCHANGED <<request, confirmed>>,
         now' \in Nat, valid' \subseteq Superusers,
         StoreSound(session', ticket', now'), Follows(session, ticket, session', ticket'),
         windows' \in [0..MaxIds -> WindowRecord \cup {Nothing}]
  PROVE  ConsoleInv'
<1>1. StoreSound(session, ticket, now) /\ ConfirmedSound(confirmed, ticket)
  BY DEF ConsoleInv
<1>2. ConfirmedSound(confirmed, ticket')
  BY <1>1, ConfirmedLasts
<1>3. ASSUME NEW o \in Requests PROVE RequestSound(request'[o], session', ticket')
  <2>1. RequestSound(request[o], session, ticket)
    BY DEF ConsoleInv
  <2> QED BY <1>1, <2>1, RequestLasts
<1> QED BY <1>2, <1>3 DEF ConsoleInv

\* A limiter that allows a try counts it and stays within its rate.
LEMMA CountedSound ==
  ASSUME Console!Assumption, ConsoleInv, NEW k \in 0..MaxIds, Console!Allows(k)
  PROVE  Console!Counted(k) \in [0..MaxIds -> WindowRecord \cup {Nothing}]
<1>1. windows \in [0..MaxIds -> WindowRecord \cup {Nothing}] /\ now \in Nat
  BY DEF ConsoleInv
<1>2. CASE ~Console!WindowOpen(k)
  BY <1>1, <1>2 DEF WindowRecord, Console!Assumption, Console!Counted
<1>3. CASE Console!WindowOpen(k)
  <2>1. windows[k] \in WindowRecord /\ windows[k].count < RateLimit
    BY <1>1, <1>3 DEF Console!WindowOpen, Console!Allows
  <2>2. [count |-> windows[k].count + 1, start |-> windows[k].start] \in WindowRecord
    BY <2>1 DEF WindowRecord, Console!Assumption
  <2>3. Console!Counted(k)
          = [windows EXCEPT ![k] = [count |-> windows[k].count + 1, start |-> windows[k].start]]
    BY <1>1, <1>3 DEF Console!Counted
  <2> QED BY <1>1, <2>2, <2>3
<1> QED BY <1>2, <1>3

\* A slot without a request is sound.
LEMMA NoRequestSound ==
  ASSUME Console!Assumption, NEW s, NEW k, NEW n, StoreSound(s, k, n)
  PROVE  RequestSound(Console!NoRequest, s, k)
<1>1. Len(k) \in Nat
  BY DEF StoreSound
<1>2. Console!NoRequest \in RequestRecord
  BY DEF Console!NoRequest, RequestRecord, Console!Assumption
<1>3. /\ Console!NoRequest.pc = "idle" /\ Console!NoRequest.ticket = 0
      /\ Console!NoRequest.id = 0
  BY DEF Console!NoRequest
<1> HIDE DEF Console!NoRequest
<1>4. 0 \in 0..Len(k)
  BY <1>1
<1> QED BY <1>2, <1>3, <1>4 DEF RequestSound

\* A request that goes on to p.
LEMMA GotoSound ==
  ASSUME NEW q, NEW s, NEW k, RequestSound(q, s, k), q.pc # "idle",
         NEW p \in {"touched", "reauth", "create", "issue", "ticket", "reconfigure"},
         p = "touched" => q.pc = "loaded" /\ q.kind # "read",
         p = "reconfigure" => q.pc = "touched",
         p = "create" => q.of \in Superusers
  PROVE  RequestSound([q EXCEPT !.pc = p], s, k)
<1> DEFINE w == [q EXCEPT !.pc = p]
<1>1. q \in RequestRecord
  BY DEF RequestSound
<1>2. /\ w \in RequestRecord /\ w.pc = p /\ w.id = q.id /\ w.ticket = q.ticket /\ w.of = q.of
      /\ w.kind = q.kind /\ q.kind \in {"", "read", "reauth", "reconfigure"}
  BY <1>1 DEF RequestRecord
<1> HIDE DEF w
<1>3. RequestSound(w, s, k)
  BY <1>2 DEF RequestSound
<1> QED BY <1>3 DEF w

\* Time passes.
LEMMA TimePasses ==
  ASSUME NEW s, NEW k, NEW n \in Nat, StoreSound(s, k, n)
  PROVE  StoreSound(s, k, n + 1)
<1>0. \A i \in 1..Len(s) : s[i] \in SessionRecord
  BY DEF StoreSound
<1>1. \A i \in 1..Len(s) : s[i].seen \in Nat
  BY <1>0 DEF SessionRecord
<1>2. \A i \in 1..Len(s) : s[i].created <= s[i].seen /\ s[i].seen <= n + 1
  BY <1>1 DEF StoreSound
<1> QED BY <1>2 DEF StoreSound

\* The store is left as it is.
LEMMA StoreStays ==
  ASSUME ConsoleInv
  PROVE  StoreSound(session, ticket, now) /\ Follows(session, ticket, session, ticket)
BY DEF ConsoleInv, Follows, StoreSound

\* Touch: the session was seen now.
LEMMA SeenSound ==
  ASSUME Console!Assumption, ConsoleInv, NEW i \in 1..Len(session)
  PROVE  /\ StoreSound([session EXCEPT ![i].seen = now], ticket, now)
         /\ Follows(session, ticket, [session EXCEPT ![i].seen = now], ticket)
<1> DEFINE s2 == [session EXCEPT ![i].seen = now]
<1>0. /\ session \in Seq(SessionRecord) /\ Len(session) \in Nat /\ Len(session) <= MaxIds
      /\ \A j \in 1..Len(session) : /\ session[j] \in SessionRecord
                                    /\ session[j].created <= session[j].seen
                                    /\ session[j].seen <= now
      /\ ticket \in Seq(TicketRecord) /\ Len(ticket) \in Nat /\ now \in Nat
      /\ \A t \in 1..Len(ticket) : ticket[t].session \in 1..Len(session)
  BY DEF ConsoleInv, StoreSound
<1>9. [session[i] EXCEPT !.seen = now] \in SessionRecord
  BY <1>0 DEF SessionRecord
<1>1. s2 \in Seq(SessionRecord) /\ Len(s2) = Len(session)
  BY <1>0, <1>9
<1>2. \A j \in 1..Len(session) : /\ s2[j].state = session[j].state
                                 /\ s2[j].created <= s2[j].seen /\ s2[j].seen <= now
  <2> TAKE j \in 1..Len(session)
  <2>1. CASE j = i
    BY <1>0, <2>1 DEF SessionRecord
  <2>2. CASE j # i
    BY <1>0, <2>2
  <2> QED BY <2>1, <2>2
<1> HIDE DEF s2
<1>3. LiveOf(s2) = LiveOf(session)
  BY <1>1, <1>2 DEF LiveOf
<1>4. StoreSound(s2, ticket, now)
  BY <1>0, <1>1, <1>2, <1>3 DEF StoreSound, ConsoleInv
<1>5. Follows(session, ticket, s2, ticket)
  BY <1>0, <1>1, <1>2 DEF Follows
<1> QED BY <1>4, <1>5 DEF s2

\* IssueReauth: one more ticket, of a session that was there.
LEMMA IssuedSound ==
  ASSUME Console!Assumption, ConsoleInv, NEW w \in TicketRecord, w.session \in 1..Len(session)
  PROVE  /\ StoreSound(session, Append(ticket, w), now)
         /\ Follows(session, ticket, session, Append(ticket, w))
<1> DEFINE k2 == Append(ticket, w)
<1>0. ticket \in Seq(TicketRecord) /\ Len(ticket) \in Nat /\ Len(session) \in Nat
  BY DEF ConsoleInv, StoreSound
<1>1. /\ k2 \in Seq(TicketRecord) /\ Len(k2) = Len(ticket) + 1 /\ k2[Len(ticket) + 1] = w
      /\ \A t \in 1..Len(ticket) : k2[t] = ticket[t]
  BY <1>0
<1> HIDE DEF k2
<1>2. \A t \in 1..Len(k2) : k2[t].session \in 1..Len(session)
  BY <1>0, <1>1 DEF ConsoleInv, StoreSound
<1>3. StoreSound(session, k2, now)
  BY <1>1, <1>2 DEF ConsoleInv, StoreSound
<1>4. Follows(session, ticket, session, k2)
  BY <1>0, <1>1 DEF Follows
<1> QED BY <1>3, <1>4 DEF k2

\* A sweep of the sessions, and tickets k2 of which some are gone.
LEMMA SweptWith ==
  ASSUME Console!Assumption, ConsoleInv, NEW k2,
         DOMAIN k2 = 1..Len(ticket), k2 = [t \in 1..Len(ticket) |-> k2[t]],
         \A t \in 1..Len(ticket) : \/ k2[t] = ticket[t]
                                   \/ k2[t] = [ticket[t] EXCEPT !.kept = FALSE]
  PROVE  /\ StoreSound(Console!Swept, k2, now) /\ Follows(session, ticket, Console!Swept, k2)
         /\ Len(k2) = Len(ticket)
<1>0. DOMAIN session = 1..Len(session)
  BY DEF ConsoleInv, StoreSound
<1> DEFINE s2 == Console!Swept
<1>1. DOMAIN s2 = 1..Len(session) /\ s2 = [i \in 1..Len(session) |-> s2[i]]
  BY <1>0 DEF Console!Swept
<1>2. \A i \in 1..Len(session) : \/ s2[i] = session[i]
                                 \/ s2[i] = [session[i] EXCEPT !.state = "expired"]
  BY <1>0 DEF Console!Swept
<1> HIDE DEF s2
<1>3. /\ StoreSound(s2, k2, now) /\ Follows(session, ticket, s2, k2)
      /\ Len(s2) = Len(session) /\ Len(k2) = Len(ticket)
      /\ LiveOf(s2) \subseteq LiveOf(session)
  BY <1>1, <1>2, StoreShrinks
<1> QED BY <1>3 DEF s2

\* ConsumeReauth deletes the ticket.
LEMMA ConsumedSound ==
  ASSUME Console!Assumption, ConsoleInv, NEW x \in 1..Len(ticket)
  PROVE  /\ StoreSound(Console!Swept, Console!Consumed(x), now)
         /\ Follows(session, ticket, Console!Swept, Console!Consumed(x))
         /\ Len(Console!Consumed(x)) = Len(ticket)
         /\ ~Console!Consumed(x)[x].kept
<1>0. /\ DOMAIN session = 1..Len(session) /\ DOMAIN ticket = 1..Len(ticket)
      /\ \A j \in 1..Len(ticket) : ticket[j] \in TicketRecord
  BY DEF ConsoleInv, StoreSound
<1> DEFINE s2 == Console!Swept
           kk == Console!SweptTickets
           k2 == Console!Consumed(x)
<1>3. /\ DOMAIN kk = 1..Len(ticket)
      /\ \A j \in 1..Len(ticket) : kk[j] = ticket[j] \/ kk[j] = [ticket[j] EXCEPT !.kept = FALSE]
  BY <1>0 DEF Console!SweptTickets
<1>4. k2 = [kk EXCEPT ![x].kept = FALSE]
  BY DEF Console!Consumed
<1> HIDE DEF s2, k2, kk
<1>5. DOMAIN k2 = 1..Len(ticket) /\ k2 = [j \in 1..Len(ticket) |-> k2[j]]
  BY <1>3, <1>4
<1>6. k2[x] = [ticket[x] EXCEPT !.kept = FALSE]
  <2>1. ticket[x] \in TicketRecord /\ k2[x] = [kk[x] EXCEPT !.kept = FALSE]
    BY <1>0, <1>3, <1>4
  <2>2. CASE kk[x] = ticket[x]
    BY <2>1, <2>2
  <2>3. CASE kk[x] = [ticket[x] EXCEPT !.kept = FALSE]
    BY <2>1, <2>3 DEF TicketRecord
  <2> QED BY <1>3, <2>2, <2>3
<1>7. \A j \in 1..Len(ticket) : k2[j] = ticket[j] \/ k2[j] = [ticket[j] EXCEPT !.kept = FALSE]
  BY <1>3, <1>4, <1>6
<1>8. ~k2[x].kept
  BY <1>0, <1>6 DEF TicketRecord
<1>9. StoreSound(s2, k2, now) /\ Follows(session, ticket, s2, k2) /\ Len(k2) = Len(ticket)
  BY <1>5, <1>7, SweptWith DEF s2
<1> QED BY <1>8, <1>9 DEF s2, k2

-----------------------------------------------------------------------------
\* A login of the console: Create.
LEMMA StepCreate ==
  ASSUME Console!Assumption, ConsoleInv, NEW u \in Superusers, Console!SessionCreate(u)
  PROVE  ConsoleInv'
<1>1. /\ session' = Append(Console!Swept, Console!NewSession(u))
      /\ ticket' = Console!SweptTickets /\ windows' = Console!Counted(0)
      /\ UNCHANGED <<valid, request, confirmed, now>>
      /\ Console!HasRoom(Console!Swept) /\ Console!Allows(0)
  BY DEF Console!SessionCreate
<1>2. StoreSound(session', ticket', now) /\ Follows(session, ticket, session', ticket')
  BY <1>1, NewSessionSound
<1>3. 0 \in 0..MaxIds
  BY DEF Console!Assumption
<1>4. windows' \in [0..MaxIds -> WindowRecord \cup {Nothing}]
  BY <1>1, <1>3, CountedSound
<1>5. now' \in Nat /\ valid' \subseteq Superusers /\ now' = now
  BY <1>1 DEF ConsoleInv
<1>6. StoreSound(session', ticket', now')
  BY <1>2, <1>5
<1> QED BY <1>1, <1>2, <1>4, <1>5, <1>6, StoreChange

\* A login that PocketBase refuses, or for which there is no room.
LEMMA StepRefused ==
  ASSUME Console!Assumption, ConsoleInv, NEW u \in Superusers, Console!SessionRefused(u)
  PROVE  ConsoleInv'
<1>1. /\ windows' = Console!Counted(0)
      /\ UNCHANGED <<valid, request, confirmed, now>>
      /\ Console!Allows(0)
      /\ \/ session' = Console!Swept /\ ticket' = Console!SweptTickets
         \/ session' = session /\ ticket' = ticket
  BY DEF Console!SessionRefused
<1>2. StoreSound(session', ticket', now) /\ Follows(session, ticket, session', ticket')
  BY <1>1, SweptSound, StoreStays
<1>3. 0 \in 0..MaxIds
  BY DEF Console!Assumption
<1>4. windows' \in [0..MaxIds -> WindowRecord \cup {Nothing}]
  BY <1>1, <1>3, CountedSound
<1>5. now' \in Nat /\ valid' \subseteq Superusers /\ now' = now
  BY <1>1 DEF ConsoleInv
<1>6. StoreSound(session', ticket', now')
  BY <1>2, <1>5
<1> QED BY <1>1, <1>2, <1>4, <1>5, <1>6, StoreChange

\* A logout.
LEMMA StepLogout ==
  ASSUME Console!Assumption, ConsoleInv, NEW i \in 1..Len(session), Console!SessionLogout(i)
  PROVE  ConsoleInv'
<1>1. /\ session' = Console!Deleted(session, i) /\ ticket' = Console!DeletedTickets(i)
      /\ UNCHANGED <<windows, valid, request, confirmed, now>>
  BY DEF Console!SessionLogout
<1>2. StoreSound(session', ticket', now) /\ Follows(session, ticket, session', ticket')
  BY <1>1, DeletedSound
<1>5. /\ now' \in Nat /\ valid' \subseteq Superusers /\ now' = now
      /\ windows' \in [0..MaxIds -> WindowRecord \cup {Nothing}]
  BY <1>1 DEF ConsoleInv
<1>6. StoreSound(session', ticket', now')
  BY <1>2, <1>5
<1> QED BY <1>1, <1>2, <1>5, <1>6, StoreChange

\* PocketBase stops accepting the token of a superuser.
LEMMA StepTokenRefused ==
  ASSUME Console!Assumption, ConsoleInv, NEW u \in Superusers, Console!TokenRefused(u)
  PROVE  ConsoleInv'
<1>1. /\ valid' = valid \ {u}
      /\ UNCHANGED <<session, ticket, windows, request, confirmed, now>>
  BY DEF Console!TokenRefused
<1>2. StoreSound(session', ticket', now') /\ Follows(session, ticket, session', ticket')
  BY <1>1, StoreStays
<1>5. /\ now' \in Nat /\ valid' \subseteq Superusers
      /\ windows' \in [0..MaxIds -> WindowRecord \cup {Nothing}]
  BY <1>1 DEF ConsoleInv
<1> QED BY <1>1, <1>2, <1>5, StoreChange

\* The clock.
LEMMA StepTick ==
  ASSUME Console!Assumption, ConsoleInv, Console!Tick
  PROVE  ConsoleInv'
<1>1. /\ now' = now + 1
      /\ UNCHANGED <<session, ticket, windows, valid, request, confirmed>>
  BY DEF Console!Tick
<1>2. StoreSound(session, ticket, now) /\ Follows(session, ticket, session, ticket)
  BY StoreStays
<1>5. /\ now \in Nat /\ now' \in Nat /\ valid' \subseteq Superusers
      /\ windows' \in [0..MaxIds -> WindowRecord \cup {Nothing}]
  BY <1>1 DEF ConsoleInv
<1>6. StoreSound(session', ticket', now') /\ Follows(session, ticket, session', ticket')
  BY <1>1, <1>2, <1>5, TimePasses
<1> QED BY <1>1, <1>5, <1>6, StoreChange

\* What a request's step leaves, when it goes on to pc p or is answered.
LEMMA RequestMoves ==
  ASSUME Console!Assumption, ConsoleInv, NEW r \in Requests, request[r].pc # "idle",
         StoreSound(session', ticket', now), Follows(session, ticket, session', ticket'),
         windows' \in [0..MaxIds -> WindowRecord \cup {Nothing}],
         UNCHANGED <<valid, confirmed, now>>,
         \/ Console!Answered(r)
         \/ \E p \in {"touched", "reauth", "create", "issue", "ticket", "reconfigure"} :
              /\ Console!Goto(r, p)
              /\ p = "touched" => (request[r].pc = "loaded" /\ request[r].kind # "read")
              /\ p = "reconfigure" => request[r].pc = "touched"
              /\ p = "create" => request[r].of \in Superusers
  PROVE  ConsoleInv'
<1>1. /\ StoreSound(session, ticket, now) /\ ConfirmedSound(confirmed, ticket)
      /\ RequestSound(request[r], session, ticket)
      /\ request \in [Requests -> RequestRecord]
  BY DEF ConsoleInv
<1>2. ConfirmedSound(confirmed', ticket')
  BY <1>1, ConfirmedLasts
<1>3. RequestSound(request[r], session', ticket')
  BY <1>1, RequestLasts
<1>4. CASE Console!Answered(r)
  <2>1. RequestSound(Console!NoRequest, session', ticket')
    BY NoRequestSound
  <2>2. request' = [request EXCEPT ![r] = Console!NoRequest]
    BY <1>4 DEF Console!Answered
  <2> QED BY <1>2, <2>1, <2>2, RequestChange
<1>5. CASE \E p \in {"touched", "reauth", "create", "issue", "ticket", "reconfigure"} :
             /\ Console!Goto(r, p)
             /\ p = "touched" => (request[r].pc = "loaded" /\ request[r].kind # "read")
             /\ p = "reconfigure" => request[r].pc = "touched"
             /\ p = "create" => request[r].of \in Superusers
  <2> PICK p \in {"touched", "reauth", "create", "issue", "ticket", "reconfigure"} :
             /\ Console!Goto(r, p)
             /\ p = "touched" => (request[r].pc = "loaded" /\ request[r].kind # "read")
             /\ p = "reconfigure" => request[r].pc = "touched"
             /\ p = "create" => request[r].of \in Superusers
    BY <1>5
  <2> DEFINE q == [request[r] EXCEPT !.pc = p]
  <2>1. RequestSound(q, session', ticket')
    BY <1>3, GotoSound
  <2>2. request' = [request EXCEPT ![r] = q]
    BY <1>1 DEF Console!Goto
  <2> HIDE DEF q
  <2> QED BY <1>2, <2>1, <2>2, RequestChange
<1> QED BY <1>4, <1>5

\* withAuth: a request is counted and touches its session.
LEMMA StepTouch ==
  ASSUME Console!Assumption, ConsoleInv, NEW r \in Requests, Console!Touch(r)
  PROVE  ConsoleInv'
<1> DEFINE i == request[r].id
<1>1. /\ request[r].pc = "loaded" /\ UNCHANGED <<valid, confirmed, now>>
      /\ windows' = IF Console!Allows(i) THEN Console!Counted(i) ELSE windows
      /\ RequestSound(request[r], session, ticket)
      /\ windows \in [0..MaxIds -> WindowRecord \cup {Nothing}]
      /\ Len(session) \in Nat /\ Len(session) <= MaxIds
  BY DEF Console!Touch, ConsoleInv, StoreSound
<1>2. i \in 1..Len(session)
  BY <1>1 DEF RequestSound
<1>3. i \in 0..MaxIds
  BY <1>1, <1>2 DEF Console!Assumption
<1>4. windows' \in [0..MaxIds -> WindowRecord \cup {Nothing}]
  BY <1>1, <1>3, CountedSound
<1>5. CASE Console!Allows(i) /\ Console!Got(i)
  <2>1. session' = [session EXCEPT ![i].seen = now] /\ ticket' = ticket
    BY <1>5 DEF Console!Touch
  <2>2. StoreSound(session', ticket', now) /\ Follows(session, ticket, session', ticket')
    BY <1>2, <2>1, SeenSound
  <2>3. \/ Console!Answered(r)
        \/ Console!Goto(r, "touched") /\ request[r].kind # "read"
    BY <1>5 DEF Console!Touch
  <2> HIDE DEF i
  <2> QED BY <1>1, <1>4, <2>2, <2>3, RequestMoves
<1>6. CASE ~(Console!Allows(i) /\ Console!Got(i))
  <2>1. Console!Answered(r) /\ (Console!Get(i) \/ (session' = session /\ ticket' = ticket))
    BY <1>6 DEF Console!Touch
  <2>2. StoreSound(session', ticket', now) /\ Follows(session, ticket, session', ticket')
    BY <2>1, GetSound, StoreStays
  <2> HIDE DEF i
  <2> QED BY <1>1, <1>4, <2>1, <2>2, RequestMoves
<1> QED BY <1>5, <1>6

\* withAuthWrite: a request has its CSRF token compared.
LEMMA StepValidateCSRF ==
  ASSUME Console!Assumption, ConsoleInv, NEW r \in Requests, Console!ValidateCSRF(r)
  PROVE  ConsoleInv'
<1>1. /\ request[r].pc = "touched" /\ UNCHANGED <<windows, valid, confirmed, now>>
      /\ Console!Get(request[r].id)
      /\ Console!Goto(r, request[r].kind) \/ Console!Answered(r)
  BY DEF Console!ValidateCSRF
<1>2. StoreSound(session', ticket', now) /\ Follows(session, ticket, session', ticket')
  BY <1>1, GetSound
<1>3. RequestSound(request[r], session, ticket)
      /\ windows' \in [0..MaxIds -> WindowRecord \cup {Nothing}]
  BY <1>1 DEF ConsoleInv
<1>4. request[r].kind \in {"reauth", "reconfigure"}
  BY <1>1, <1>3 DEF RequestSound
<1> QED BY <1>1, <1>2, <1>3, <1>4, RequestMoves

\* A reauthentication of the same superuser deletes the session it replaces.
LEMMA StepReauthDelete ==
  ASSUME Console!Assumption, ConsoleInv, NEW r \in Requests, Console!ReauthDelete(r)
  PROVE  ConsoleInv'
<1> DEFINE i == request[r].id
<1>1. /\ request[r].pc = "reauth" /\ UNCHANGED <<windows, valid, confirmed, now>>
      /\ \/ /\ request[r].of \in valid
            /\ session' = Console!Deleted(session, i) /\ ticket' = Console!DeletedTickets(i)
            /\ Console!Goto(r, "create")
         \/ session' = session /\ ticket' = ticket /\ Console!Answered(r)
  BY DEF Console!ReauthDelete
<1>2. /\ RequestSound(request[r], session, ticket) /\ valid \subseteq Superusers
      /\ windows' \in [0..MaxIds -> WindowRecord \cup {Nothing}]
  BY <1>1 DEF ConsoleInv
<1>3. i \in 1..Len(session)
  BY <1>1, <1>2 DEF RequestSound
<1> HIDE DEF i
<1>4. StoreSound(session', ticket', now) /\ Follows(session, ticket, session', ticket')
  BY <1>1, <1>3, DeletedSound, StoreStays
<1>5. Console!Answered(r) \/ (Console!Goto(r, "create") /\ request[r].of \in Superusers)
  BY <1>1, <1>2
<1> QED BY <1>1, <1>2, <1>4, <1>5, RequestMoves

\* The checks before a ticket is issued.
LEMMA StepIssueChecks ==
  ASSUME Console!Assumption, ConsoleInv, NEW r \in Requests, Console!IssueChecks(r)
  PROVE  ConsoleInv'
<1>1. /\ request[r].pc = "issue" /\ UNCHANGED <<windows, valid, confirmed, now>>
      /\ Console!Get(request[r].id)
      /\ Console!Goto(r, "ticket") \/ Console!Answered(r)
  BY DEF Console!IssueChecks
<1>2. StoreSound(session', ticket', now) /\ Follows(session, ticket, session', ticket')
  BY <1>1, GetSound
<1>3. windows' \in [0..MaxIds -> WindowRecord \cup {Nothing}]
  BY <1>1 DEF ConsoleInv
<1> QED BY <1>1, <1>2, <1>3, RequestMoves

\* The ticket is issued: to a session that may have been logged out since.
LEMMA StepIssueReauth ==
  ASSUME Console!Assumption, ConsoleInv, NEW r \in Requests, Console!IssueReauth(r)
  PROVE  ConsoleInv'
<1> DEFINE w == [session |-> request[r].id, expires |-> now + ReauthTTL, kept |-> TRUE]
<1>1. /\ request[r].pc = "ticket" /\ UNCHANGED <<session, windows, valid, confirmed, now>>
      /\ ticket' = Append(ticket, w) /\ Console!Answered(r)
  BY DEF Console!IssueReauth
<1>2. /\ RequestSound(request[r], session, ticket)
      /\ windows' \in [0..MaxIds -> WindowRecord \cup {Nothing}]
      /\ Len(session) \in Nat /\ Len(session) <= MaxIds /\ now \in Nat
  BY <1>1 DEF ConsoleInv, StoreSound
<1>3. request[r].id \in 1..Len(session)
  BY <1>1, <1>2 DEF RequestSound
<1>4. w \in TicketRecord /\ w.session \in 1..Len(session)
  BY <1>2, <1>3 DEF TicketRecord, Console!Assumption
<1> HIDE DEF w
<1>5. StoreSound(session', ticket', now) /\ Follows(session, ticket, session', ticket')
  BY <1>1, <1>4, IssuedSound
<1> QED BY <1>1, <1>2, <1>5, RequestMoves

\* A reauthentication puts a new session in the place of the old.
LEMMA StepReauthCreate ==
  ASSUME Console!Assumption, ConsoleInv, NEW r \in Requests, Console!ReauthCreate(r)
  PROVE  ConsoleInv'
<1>1. /\ request[r].pc = "create" /\ UNCHANGED <<windows, valid, confirmed, now>>
      /\ ticket' = Console!SweptTickets
  BY DEF Console!ReauthCreate
<1>2. /\ RequestSound(request[r], session, ticket)
      /\ windows' \in [0..MaxIds -> WindowRecord \cup {Nothing}]
      /\ request \in [Requests -> RequestRecord]
      /\ StoreSound(session, ticket, now) /\ ConfirmedSound(confirmed, ticket)
      /\ Len(session) \in Nat
  BY <1>1 DEF ConsoleInv, StoreSound
<1>3. CASE ~Console!HasRoom(Console!Swept)
  <2>1. session' = Console!Swept /\ Console!Answered(r)
    BY <1>3 DEF Console!ReauthCreate
  <2>2. StoreSound(session', ticket', now) /\ Follows(session, ticket, session', ticket')
    BY <1>1, <2>1, SweptSound
  <2> QED BY <1>1, <1>2, <2>1, <2>2, RequestMoves
<1>4. CASE Console!HasRoom(Console!Swept)
  <2> DEFINE u == request[r].of
             q == [request[r] EXCEPT !.pc = "issue", !.id = Len(session) + 1]
  <2>1. /\ session' = Append(Console!Swept, Console!NewSession(u))
        /\ request' = [request EXCEPT ![r].pc = "issue", ![r].id = Len(session) + 1]
    BY <1>4 DEF Console!ReauthCreate
  <2>2. u \in Superusers
    BY <1>1, <1>2 DEF RequestSound
  <2> HIDE DEF u
  <2>3. /\ StoreSound(session', ticket', now) /\ Follows(session, ticket, session', ticket')
        /\ Len(session) + 1 <= MaxIds /\ Len(session') = Len(session) + 1
    BY <1>1, <1>4, <2>1, <2>2, NewSessionSound
  <2>4. ConfirmedSound(confirmed', ticket')
    BY <1>1, <1>2, <2>3, ConfirmedLasts
  <2>5. request' = [request EXCEPT ![r] = q]
    BY <1>2, <2>1
  <2>6. RequestSound(request[r], session', ticket')
    BY <1>2, <2>3, RequestLasts
  <2>7. request[r] \in RequestRecord /\ request[r].ticket \in 0..Len(ticket')
    BY <2>6 DEF RequestSound
  <2>11. Len(session) + 1 \in 0..MaxIds
    BY <1>2, <2>3 DEF Console!Assumption
  <2>8. /\ q \in RequestRecord /\ q.pc = "issue" /\ q.id = Len(session) + 1
        /\ q.ticket = request[r].ticket
    BY <2>7, <2>11 DEF RequestRecord
  <2> HIDE DEF q
  <2>9. q.id \in 1..Len(session')
    BY <1>2, <2>3, <2>8
  <2>10. RequestSound(q, session', ticket')
    BY <2>7, <2>8, <2>9 DEF RequestSound
  <2> QED BY <1>1, <1>2, <2>3, <2>4, <2>5, <2>10, RequestChange
<1> QED BY <1>3, <1>4

\* loadSession: a request arrives, perhaps with a ticket of its session or of another.
LEMMA StepLoad ==
  ASSUME Console!Assumption, ConsoleInv, NEW r \in Requests,
         NEW kind \in {"read", "reauth", "reconfigure"}, NEW i \in 1..Len(session),
         NEW csrf \in {0, i}, NEW t \in 0..Len(ticket), NEW u \in Superusers \cup {Nothing},
         Console!LoadSession(r, kind, i, csrf, t, u)
  PROVE  ConsoleInv'
<1> DEFINE q == [pc |-> "loaded", kind |-> kind, id |-> i, csrf |-> csrf, ticket |-> t, of |-> u]
           there == Console!Got(i) /\ session[i].of \in valid
<1>0. /\ StoreSound(session, ticket, now) /\ ConfirmedSound(confirmed, ticket)
      /\ Len(session) \in Nat /\ Len(ticket) \in Nat /\ Len(session) <= MaxIds
      /\ request \in [Requests -> RequestRecord]
  BY DEF ConsoleInv, StoreSound
<1>1. /\ UNCHANGED <<windows, valid, confirmed, now>>
      /\ request' = IF there THEN [request EXCEPT ![r] = q] ELSE request
      /\ \/ session' = Console!Deleted(session, i) /\ ticket' = Console!DeletedTickets(i)
         \/ Console!Get(i)
      /\ there => Console!Get(i)
  BY DEF Console!LoadSession
<1>2. StoreSound(session', ticket', now) /\ Follows(session, ticket, session', ticket')
  BY <1>1, DeletedSound, GetSound
<1>3. /\ windows' \in [0..MaxIds -> WindowRecord \cup {Nothing}]
      /\ now' = now /\ now' \in Nat /\ valid' \subseteq Superusers
  BY <1>1 DEF ConsoleInv
<1>4. CASE ~there
  <2>1. UNCHANGED <<request, confirmed>>
    BY <1>1, <1>4
  <2>2. StoreSound(session', ticket', now')
    BY <1>2, <1>3
  <2> QED BY <1>2, <1>3, <2>1, <2>2, StoreChange
<1>5. CASE there
  <2>1. session' = session /\ ticket' = ticket
    BY <1>1, <1>5 DEF Console!Get
  <2>2. session[i].state = "live"
    BY <1>5 DEF Console!Got, Console!Live
  <2>3. i \in 0..MaxIds /\ csrf \in 0..MaxIds /\ t \in Nat
    BY <1>0 DEF Console!Assumption
  <2>4. q \in RequestRecord
    BY <2>3 DEF RequestRecord
  <2>5. /\ q.pc = "loaded" /\ q.kind # "" /\ q.id = i /\ q.ticket = t
    OBVIOUS
  <2>6. request' = [request EXCEPT ![r] = q]
    BY <1>1, <1>5
  <2> HIDE DEF q, there
  <2>7. RequestSound(q, session', ticket')
    BY <2>1, <2>2, <2>4, <2>5 DEF RequestSound
  <2>8. ConfirmedSound(confirmed', ticket')
    BY <1>0, <1>1, <2>1
  <2> QED BY <1>1, <1>2, <1>3, <2>6, <2>7, <2>8, RequestChange
<1> QED BY <1>4, <1>5

\* A ticket confirms: it is kept, so its session had not ended, and it is gone after.
LEMMA StepConsume ==
  ASSUME Console!Assumption, ConsoleInv, NEW r \in Requests, Console!ConsumeReauth(r)
  PROVE  ConsoleInv'
<1> DEFINE i == request[r].id
           t == request[r].ticket
           w == [ticket |-> t, session |-> i, ended |-> session[i].state = "ended"]
<1>0. /\ StoreSound(session, ticket, now) /\ ConfirmedSound(confirmed, ticket)
      /\ RequestSound(request[r], session, ticket) /\ Len(session) \in Nat
      /\ Len(ticket) \in Nat
      /\ windows \in [0..MaxIds -> WindowRecord \cup {Nothing}]
      /\ \A j \in 1..Len(session) : session[j] \in SessionRecord
  BY DEF ConsoleInv, StoreSound
<1>1. /\ request[r].pc = "reconfigure" /\ UNCHANGED <<windows, valid, now>>
      /\ IF t = 0 THEN session' = session /\ ticket' = ticket
         ELSE session' = Console!Swept /\ ticket' = Console!Consumed(t)
      /\ confirmed' = IF t # 0 /\ Console!Consumes(i, t) THEN Append(confirmed, w) ELSE confirmed
      /\ request' = [request EXCEPT ![r] = Console!NoRequest]
  BY DEF Console!ConsumeReauth, Console!Answered
<1>2. /\ t \in 0..Len(ticket) /\ i \in 1..Len(session)
      /\ t # 0 => (ticket[t].kept /\ ticket[t].session = i => session[i].state # "ended")
  BY <1>0, <1>1 DEF RequestSound
<1>3. Console!Consumes(i, t) => (ticket[t].kept /\ ticket[t].session = i)
  BY DEF Console!Consumes
<1>4. /\ t \in Nat /\ w.ticket = t /\ w.session = i
      /\ session[i].state # "ended" => ~w.ended /\ w \in ConfirmedRecord
  <2>1. t \in Nat /\ i \in 1..MaxIds
    BY <1>0, <1>2 DEF StoreSound, Console!Assumption
  <2> HIDE DEF i, t
  <2> QED BY <2>1 DEF ConfirmedRecord
<1> HIDE DEF i, t, w
<1>5. StoreSound(session', ticket', now) /\ Follows(session, ticket, session', ticket')
  <2>1. CASE t = 0
    BY <1>1, <2>1, StoreStays
  <2>2. CASE t # 0
    <3>1. t \in 1..Len(ticket)
      BY <1>0, <1>2, <2>2
    <3> QED BY <1>1, <2>2, <3>1, ConsumedSound
  <2> QED BY <2>1, <2>2
<1>6. ConfirmedSound(confirmed, ticket')
  BY <1>0, <1>5, ConfirmedLasts
<1>7. ConfirmedSound(confirmed', ticket')
  <2>1. CASE ~(t # 0 /\ Console!Consumes(i, t))
    BY <1>1, <1>6, <2>1
  <2>2. CASE t # 0 /\ Console!Consumes(i, t)
    <3>1. t \in 1..Len(ticket) /\ ticket[t].kept /\ ticket[t].session = i
      BY <1>0, <1>2, <1>3, <2>2
    <3>2. /\ ~ticket'[t].kept /\ Len(ticket') = Len(ticket)
          /\ ticket'[t].session = i
      <4>1. ticket' = Console!Consumed(t)
        BY <1>1, <2>2
      <4>2. ~ticket'[t].kept /\ Len(ticket') = Len(ticket)
        BY <3>1, <4>1, ConsumedSound
      <4> QED BY <3>1, <4>2, <1>5 DEF Follows
    <3>3. ~w.ended /\ w \in ConfirmedRecord
      BY <1>2, <1>4, <2>2, <3>1
    <3>4. confirmed \in Seq(ConfirmedRecord) /\ Len(confirmed) \in Nat
      BY <1>6 DEF ConfirmedSound
    <3>5. /\ confirmed' \in Seq(ConfirmedRecord) /\ Len(confirmed') = Len(confirmed) + 1
          /\ confirmed'[Len(confirmed) + 1] = w
          /\ \A n \in 1..Len(confirmed) : confirmed'[n] = confirmed[n]
      BY <1>1, <2>2, <3>3, <3>4
    <3>6. \A n \in 1..Len(confirmed) : confirmed[n].ticket # t
      <4>1. \A n \in 1..Len(confirmed) : ~ticket[confirmed[n].ticket].kept
        BY <1>0 DEF ConfirmedSound
      <4> QED BY <3>1, <4>1
    <3>7. ASSUME NEW n \in 1..Len(confirmed')
          PROVE  /\ confirmed'[n].ticket \in 1..Len(ticket')
                 /\ ~ticket'[confirmed'[n].ticket].kept
                 /\ ticket'[confirmed'[n].ticket].session = confirmed'[n].session
                 /\ ~confirmed'[n].ended
                 /\ \A m \in 1..Len(confirmed') :
                      confirmed'[m].ticket = confirmed'[n].ticket => m = n
      <4>1. CASE n = Len(confirmed) + 1
        <5>1. confirmed'[n] = w
          BY <3>5, <4>1
        <5>2. \A m \in 1..Len(confirmed') : confirmed'[m].ticket = t => m = n
          BY <3>4, <3>5, <3>6, <4>1
        <5> QED BY <1>4, <3>1, <3>2, <3>3, <5>1, <5>2
      <4>2. CASE n # Len(confirmed) + 1
        <5>1. n \in 1..Len(confirmed) /\ confirmed'[n] = confirmed[n]
          BY <3>4, <3>5, <4>2
        <5>2. /\ confirmed[n].ticket \in 1..Len(ticket')
              /\ ~ticket'[confirmed[n].ticket].kept
              /\ ticket'[confirmed[n].ticket].session = confirmed[n].session
              /\ ~confirmed[n].ended
              /\ \A m \in 1..Len(confirmed) : confirmed[m].ticket = confirmed[n].ticket => m = n
          BY <1>6, <5>1 DEF ConfirmedSound
        <5>3. confirmed[n].ticket # t
          BY <3>6, <5>1
        <5>4. \A m \in 1..Len(confirmed') : confirmed'[m].ticket = confirmed[n].ticket => m = n
          <6> TAKE m \in 1..Len(confirmed')
          <6>1. CASE m = Len(confirmed) + 1
            BY <1>4, <3>5, <5>3, <6>1
          <6>2. CASE m # Len(confirmed) + 1
            <7>1. m \in 1..Len(confirmed) /\ confirmed'[m] = confirmed[m]
              BY <3>4, <3>5, <6>2
            <7> QED BY <5>2, <7>1
          <6> QED BY <6>1, <6>2
        <5> QED BY <5>1, <5>2, <5>4
      <4> QED BY <4>1, <4>2
    <3> QED BY <3>5, <3>7 DEF ConfirmedSound
  <2> QED BY <2>1, <2>2
<1>8. RequestSound(Console!NoRequest, session', ticket')
  BY <1>5, NoRequestSound
<1>9. windows' \in [0..MaxIds -> WindowRecord \cup {Nothing}]
  BY <1>0, <1>1
<1> QED BY <1>1, <1>5, <1>7, <1>8, <1>9, RequestChange

-----------------------------------------------------------------------------
\* An empty store.
LEMMA ConsoleInit ==
  ASSUME Console!Assumption, Console!Init
  PROVE  ConsoleInv
<1>1. /\ session = <<>> /\ ticket = <<>> /\ windows = [k \in 0..MaxIds |-> Nothing]
      /\ valid = Superusers /\ request = [r \in Requests |-> Console!NoRequest]
      /\ confirmed = <<>> /\ now = 0
  BY DEF Console!Init
<1>2. LiveOf(session) = {}
  BY <1>1 DEF LiveOf
<1>3. Cardinality(LiveOf(session)) = 0
  BY <1>2, FS_EmptySet
<1>4. StoreSound(session, ticket, now)
  BY <1>1, <1>3 DEF StoreSound, Console!Assumption
<1>5. RequestSound(Console!NoRequest, session, ticket)
  BY <1>4, NoRequestSound
<1>6. \A r \in Requests : RequestSound(request[r], session, ticket) /\ request[r] \in RequestRecord
  BY <1>1, <1>5 DEF RequestSound
<1>7. request \in [Requests -> RequestRecord]
  BY <1>1, <1>6
<1>8. ConfirmedSound(confirmed, ticket)
  BY <1>1 DEF ConfirmedSound
<1> QED BY <1>1, <1>4, <1>6, <1>7, <1>8 DEF ConsoleInv

\* Every step of the requests, of the store and of the clock, and every stutter.
LEMMA ConsoleNext ==
  ASSUME Console!Assumption, ConsoleInv, [Console!Next]_Console!vars
  PROVE  ConsoleInv'
<1>0. /\ DOMAIN session = 1..Len(session) /\ DOMAIN ticket = 1..Len(ticket)
      /\ Len(ticket) \in Nat
  BY DEF ConsoleInv, StoreSound
<1>1. CASE UNCHANGED Console!vars
  <2>1. UNCHANGED <<session, ticket, windows, valid, request, confirmed, now>>
    BY <1>1 DEF Console!vars
  <2> QED BY <2>1 DEF ConsoleInv, StoreSound, RequestSound, ConfirmedSound
<1>2. CASE \E u \in Superusers : \/ Console!SessionCreate(u) \/ Console!SessionRefused(u)
                                \/ Console!TokenRefused(u)
  BY <1>2, StepCreate, StepRefused, StepTokenRefused
<1>3. CASE \E r \in Requests, i \in DOMAIN session :
             \/ Console!LoadSession(r, "read", i, 0, 0, Nothing)
             \/ \E u \in Superusers, csrf \in {0, i} :
                  Console!LoadSession(r, "reauth", i, csrf, 0, u)
             \/ \E t \in {0} \cup DOMAIN ticket :
                  Console!LoadSession(r, "reconfigure", i, i, t, Nothing)
  <2> PICK r \in Requests, i \in 1..Len(session) :
             \/ Console!LoadSession(r, "read", i, 0, 0, Nothing)
             \/ \E u \in Superusers, csrf \in {0, i} :
                  Console!LoadSession(r, "reauth", i, csrf, 0, u)
             \/ \E t \in {0} \cup DOMAIN ticket :
                  Console!LoadSession(r, "reconfigure", i, i, t, Nothing)
    BY <1>0, <1>3
  <2>0. 0 \in 0..Len(ticket) /\ {0} \cup DOMAIN ticket \subseteq 0..Len(ticket)
    BY <1>0
  <2>1. CASE Console!LoadSession(r, "read", i, 0, 0, Nothing)
    BY <2>0, <2>1, StepLoad
  <2>2. CASE \E u \in Superusers, csrf \in {0, i} :
               Console!LoadSession(r, "reauth", i, csrf, 0, u)
    BY <2>0, <2>2, StepLoad
  <2>3. CASE \E t \in {0} \cup DOMAIN ticket :
               Console!LoadSession(r, "reconfigure", i, i, t, Nothing)
    BY <2>0, <2>3, StepLoad
  <2> QED BY <2>1, <2>2, <2>3
<1>4. CASE \E r \in Requests : Console!RequestStep(r)
  BY <1>4, StepTouch, StepValidateCSRF, StepReauthDelete, StepReauthCreate, StepIssueChecks,
     StepIssueReauth, StepConsume DEF Console!RequestStep
<1>5. CASE \E i \in DOMAIN session : Console!SessionLogout(i)
  BY <1>0, <1>5, StepLogout
<1>6. CASE Console!Tick
  BY <1>6, StepTick
<1> QED BY <1>1, <1>2, <1>3, <1>4, <1>5, <1>6 DEF Console!Next

\* The invariant implies what the run checks.
LEMMA ConsoleInvSound ==
  ASSUME Console!Assumption, ConsoleInv
  PROVE  Console!AdminSound
<1>0. /\ DOMAIN session = 1..Len(session) /\ DOMAIN ticket = 1..Len(ticket)
      /\ DOMAIN confirmed = 1..Len(confirmed) /\ Len(session) \in Nat
      /\ \A i \in 1..Len(session) : /\ session[i] \in SessionRecord
                                    /\ session[i].created <= session[i].seen
                                    /\ session[i].seen <= now
      /\ \A t \in 1..Len(ticket) : ticket[t].session \in 1..Len(session)
      /\ Cardinality(LiveOf(session)) <= MaxSessions
      /\ ConfirmedSound(confirmed, ticket)
  <2>1. StoreSound(session, ticket, now) /\ ConfirmedSound(confirmed, ticket)
    BY DEF ConsoleInv
  <2>2. session \in Seq(SessionRecord) /\ ticket \in Seq(TicketRecord)
    BY <2>1 DEF StoreSound
  <2>3. confirmed \in Seq(ConfirmedRecord)
    BY <2>1 DEF ConfirmedSound
  <2>4. /\ \A i \in 1..Len(session) : session[i].created <= session[i].seen
                                     /\ session[i].seen <= now
        /\ \A t \in 1..Len(ticket) : ticket[t].session \in 1..Len(session)
        /\ Cardinality(LiveOf(session)) <= MaxSessions
    BY <2>1 DEF StoreSound
  <2>5. \A i \in 1..Len(session) : session[i] \in SessionRecord
    BY <2>2
  <2> QED BY <2>1, <2>2, <2>3, <2>4, <2>5
<1>1. ASSUME NEW i \in DOMAIN session
      PROVE  /\ session[i].of \in Superusers /\ session[i].state \in {"live", "expired", "ended"}
             /\ session[i].created <= session[i].seen /\ session[i].seen <= now
  BY <1>0 DEF SessionRecord
<1>2. ASSUME NEW r \in Requests PROVE request[r].id \in {0} \cup DOMAIN session
  <2>1. RequestSound(request[r], session, ticket)
    BY DEF ConsoleInv
  <2> QED BY <1>0, <2>1 DEF RequestSound
<1>3. Console!TypeOK
  BY <1>0, <1>1, <1>2 DEF Console!TypeOK
<1>4. Console!Cardinality(Console!Live) <= MaxSessions
  <2>1. Console!Live = LiveOf(session)
    BY <1>0 DEF Console!Live, LiveOf
  <2> QED BY <1>0, <2>1 DEF Console!Cardinality, Cardinality
<1>5. ASSUME NEW k \in 0..MaxIds, windows[k] # Nothing PROVE windows[k].count <= RateLimit
  <2>1. windows[k] \in WindowRecord
    BY <1>5 DEF ConsoleInv
  <2>2. windows[k].count \in 1..RateLimit
    BY <2>1 DEF WindowRecord
  <2> QED BY <2>2 DEF Console!Assumption
<1>6. Console!WithinBounds
  BY <1>4, <1>5 DEF Console!WithinBounds
<1>7. Console!ConfirmedOnce
  BY <1>0 DEF Console!ConfirmedOnce, ConfirmedSound
<1> QED BY <1>3, <1>6, <1>7 DEF Console!AdminSound

\* For every number of superusers and requests, every capacity, rate and duration: the store
\* keeps its capacity and the limiters their rate however logins and reauthentications
\* overlap, and a ticket confirms once, for its own session, and never after that session
\* was logged out (adminauth: Create, Get, Delete, IssueReauth, ConsumeReauth).
THEOREM ConsoleStaysSound ==
  ASSUME Console!Assumption
  PROVE  Console!Spec => []Console!AdminSound
<1>1. Console!Init => ConsoleInv
  BY ConsoleInit
<1>2. ConsoleInv /\ [Console!Next]_Console!vars => ConsoleInv'
  BY ConsoleNext
<1>3. ConsoleInv => Console!AdminSound
  BY ConsoleInvSound
<1> QED BY <1>1, <1>2, <1>3, PTL DEF Console!Spec

-----------------------------------------------------------------------------
(* The sources of conversions, and the gate they share with reconfigurations *)

Configs == [user : Users, base : Bases \cup {Nothing}, configured : Nat]
Transfers ==
  [pc : {"idle", "gate", "snapshot", "attempt", "sent", "refresh", "open"}, holds : {0, 1},
   of : Configs \cup {Nothing}, renewed : BOOLEAN, attempt : {0, 1}, revision : Nat,
   refused : Nat \cup {Nothing}, etag : Versions \cup {Nothing}]

\* A transfer t: it holds the gate from its entry to its end, a copy takes no part in
\* the attempts, and a second attempt follows a refusal with an older reference.
TransferSound(r, t, ref) ==
  /\ t.holds = IF t.pc \in {"idle", "gate"} THEN 0 ELSE 1
  /\ t.pc \in {"snapshot", "attempt", "sent", "refresh"} => r \in Runs
  /\ t.revision <= ref
  /\ t.pc \in {"idle", "gate", "snapshot", "refresh"} => t.attempt = 0
  /\ t.pc \in {"attempt", "sent"} /\ t.attempt = 1 => t.refused \in Nat /\ t.refused < ref
  /\ t.pc = "sent" /\ t.attempt = 1 => t.refused < t.revision

\* What a run has sent or reads is of the configuration in use, as the access found it
\* or as a 401 renewed it, unless it joined an earlier login; and of the one version seen.
TransferBound(r, t, used, found) ==
  r \in Runs =>
    /\ t.pc \in {"attempt", "sent", "refresh", "open"} =>
         /\ t.of # Nothing => t.of \in Configs /\ t.of.configured = used.configured
         /\ ~t.renewed => t.of.user = First.user /\ t.of.base = First.base
    /\ t.pc = "open" /\ t.etag # 0 => t.etag = found

GateSound ==
  /\ writer \in {"none", "waiting", "held"}
  /\ writer = "held" => \A r \in Audio!Readers : run[r].pc \in {"idle", "gate"}

SoundTransfer(r) ==
  TransferSound(r, run[r], reference) /\ TransferBound(r, run[r], upstream, etag)

SourceInv ==
  /\ upstream \in Configs /\ version \in Versions /\ etag \in Versions /\ reference \in Nat
  /\ run \in [Audio!Readers -> Transfers]
  /\ GateSound
  /\ \A r \in Audio!Readers : SoundTransfer(r)

\* An access that has read nothing yet.
LEMMA SourceInit ==
  ASSUME Audio!Assumption, Audio!Init
  PROVE  SourceInv
BY DEF Audio!Assumption, Audio!Init, Audio!Idle, SourceInv, GateSound, SoundTransfer, TransferSound,
       TransferBound, Transfers, Configs, Audio!Readers

\* A transfer r that becomes t disturbs no other.
LEMMA TransferChange ==
  ASSUME SourceInv, NEW r \in Audio!Readers, NEW t \in Transfers,
         run' = [run EXCEPT ![r] = t],
         reference' \in Nat, reference <= reference',
         etag' \in Versions, etag # 0 => etag' = etag,
         upstream' \in Configs, upstream'.configured = upstream.configured,
         version' = version, writer' = writer,
         TransferSound(r, t, reference'), TransferBound(r, t, upstream, etag'),
         writer = "held" => t.pc \in {"idle", "gate"}
  PROVE  SourceInv'
<1>1. run' \in [Audio!Readers -> Transfers]
  BY DEF SourceInv
<1>2. GateSound'
  BY DEF SourceInv, GateSound, Audio!Readers
<1>3. ASSUME NEW o \in Audio!Readers PROVE SoundTransfer(o)'
  <2>1. CASE o = r
    <3>1. TransferBound(r, t, upstream', etag')
      BY DEF TransferBound
    <3> QED BY <2>1, <3>1 DEF SourceInv, SoundTransfer
  <2>2. CASE o # r
    <3>1. run'[o] = run[o] /\ run[o] \in Transfers
      BY <2>2 DEF SourceInv
    <3>2. TransferSound(o, run[o], reference) /\ TransferBound(o, run[o], upstream, etag)
      BY DEF SourceInv, SoundTransfer
    <3>3. TransferSound(o, run[o], reference')
      BY <3>1, <3>2 DEF TransferSound, Transfers, SourceInv
    <3>4. TransferBound(o, run[o], upstream', etag')
      BY <3>1, <3>2 DEF TransferBound, Transfers, SourceInv
    <3> QED BY <3>1, <3>3, <3>4 DEF SoundTransfer
  <2> QED BY <2>1, <2>2
<1> QED BY <1>1, <1>2, <1>3 DEF SourceInv, Audio!Readers

\* Most steps of a transfer leave the reference and the version alone.
LEMMA TransferOnly ==
  ASSUME SourceInv, NEW r \in Audio!Readers, NEW t \in Transfers,
         run' = [run EXCEPT ![r] = t],
         UNCHANGED <<upstream, version, reference, etag, writer>>,
         TransferSound(r, t, reference), TransferBound(r, t, upstream, etag),
         writer = "held" => t.pc \in {"idle", "gate"}
  PROVE  SourceInv'
<1>1. reference \in Nat /\ etag \in Versions /\ upstream \in Configs
  BY DEF SourceInv
<1>2. reference' \in Nat /\ reference <= reference' /\ etag' \in Versions /\ etag' = etag
  BY <1>1
<1>3. TransferSound(r, t, reference') /\ TransferBound(r, t, upstream, etag')
  OBVIOUS
<1>4. /\ upstream' \in Configs /\ upstream'.configured = upstream.configured
      /\ version' = version /\ writer' = writer
  BY <1>1
<1> QED BY <1>2, <1>3, <1>4, TransferChange

\* Every step of a transfer r keeps the invariant.
LEMMA TransferSteps ==
  ASSUME Audio!Assumption, SourceInv, NEW r \in Audio!Readers, Audio!Transfer(r)
  PROVE  SourceInv'
<1> DEFINE m == run[r]
<1>0. /\ m \in Transfers /\ TransferSound(r, m, reference) /\ reference \in Nat
      /\ TransferBound(r, m, upstream, etag) /\ upstream \in Configs
      /\ etag \in Versions /\ version \in Versions
      /\ writer = "held" => m.pc \in {"idle", "gate"}
  BY DEF SourceInv, SoundTransfer, GateSound
<1>i. Audio!Idle \in Transfers /\ Audio!Idle.pc = "idle"
  BY DEF Audio!Idle, Transfers
<1>j. ASSUME NEW ref \in Nat
      PROVE  TransferSound(r, Audio!Idle, ref) /\ \A e : TransferBound(r, Audio!Idle, upstream, e)
  BY DEF Audio!Idle, TransferSound, TransferBound
<1> HIDE DEF m
<1>1. CASE Audio!Begin(r)
  <2> DEFINE t == [m EXCEPT !.pc = "gate"]
  <2>1. run' = [run EXCEPT ![r] = t] /\ m.pc = "idle"
    BY <1>1, <1>0 DEF Audio!Begin, Audio!Step, SourceInv, m
  <2>2. UNCHANGED <<upstream, version, reference, etag, writer>>
    BY <1>1 DEF Audio!Begin
  <2>3. /\ t \in Transfers
        /\ TransferSound(r, t, reference)
        /\ TransferBound(r, t, upstream, etag)
    <3>1. t \in Transfers
      BY <1>0 DEF Transfers
    <3>2. TransferSound(r, t, reference)
      BY <2>1, <1>0 DEF Transfers, TransferSound
    <3>3. TransferBound(r, t, upstream, etag)
      BY <2>1, <1>0 DEF Transfers, TransferBound
    <3> QED BY <3>1, <3>2, <3>3
  <2>4. t.pc \in {"idle", "gate"}
    BY <1>0 DEF Transfers
  <2> HIDE DEF t
  <2> QED BY <2>1, <2>2, <2>3, <2>4, TransferOnly
<1>2. CASE Audio!Enter(r)
  <2> DEFINE t == [m EXCEPT !.pc = IF r \in Copies THEN "open" ELSE "snapshot",
                            !.holds = 1]
  <2>0. m.pc = "gate" /\ m.holds = 0
    BY <1>2, <1>0 DEF Audio!Enter, TransferSound, m
  <2>1. run' = [run EXCEPT ![r] = t] /\ m.pc = "gate" /\ writer = "none"
    <3>1. run' = [run EXCEPT ![r].pc = IF r \in Copies THEN "open" ELSE "snapshot",
                             ![r].holds = run[r].holds + 1]
      BY <1>2 DEF Audio!Enter
    <3>2. run[r].holds + 1 = 1
      BY <2>0 DEF m
    <3>3. run' = [run EXCEPT ![r].pc = IF r \in Copies THEN "open" ELSE "snapshot",
                             ![r].holds = 1]
      BY <3>1, <3>2
    <3> QED BY <1>2, <2>0, <3>3 DEF Audio!Enter, Audio!ReadersMayEnter, SourceInv, m
  <2>2. UNCHANGED <<upstream, version, reference, etag, writer>>
    BY <1>2 DEF Audio!Enter, Audio!Others
  <2>3. t \in Transfers
    BY <1>0 DEF Transfers
  <2>4. TransferSound(r, t, reference)
    BY <2>0, <2>1, <1>0 DEF Transfers, TransferSound, Audio!Readers
  <2>5. TransferBound(r, t, upstream, etag)
    BY <2>1, <1>0 DEF Transfers, TransferBound, Audio!Readers, Audio!Assumption
  <2> HIDE DEF t
  <2> QED BY <2>1, <2>2, <2>3, <2>4, <2>5, TransferOnly
<1>3. CASE \/ Audio!Close(r) \/ Audio!NoToken(r) \/ Audio!Denied(r) \/ Audio!Fails(r)
  <2>1. run' = [run EXCEPT ![r] = Audio!Idle]
    BY <1>3 DEF Audio!Close, Audio!NoToken, Audio!Denied, Audio!Fails, Audio!Released
  <2>2. UNCHANGED <<upstream, version, reference, etag, writer>>
    BY <1>3 DEF Audio!Close, Audio!NoToken, Audio!Denied, Audio!Fails, Audio!Others
  <2> QED BY <2>1, <2>2, <1>0, <1>i, <1>j, TransferOnly
<1>4. CASE Audio!Snapshot(r)
  <2> DEFINE t == IF Audio!Bound(upstream) THEN [m EXCEPT !.pc = "attempt", !.of = upstream]
                  ELSE Audio!Idle
  <2>1. run' = [run EXCEPT ![r] = t] /\ m.pc = "snapshot"
    BY <1>4, <1>0 DEF Audio!Snapshot, Audio!Released, SourceInv, m
  <2>2. UNCHANGED <<upstream, version, reference, etag, writer>>
    BY <1>4 DEF Audio!Snapshot, Audio!Others
  <2>3. /\ t \in Transfers
        /\ TransferSound(r, t, reference)
        /\ TransferBound(r, t, upstream, etag)
    <3>1. CASE Audio!Bound(upstream)
      <4>1. t = [m EXCEPT !.pc = "attempt", !.of = upstream]
        BY <3>1
      <4> HIDE DEF t
      <4>2. t \in Transfers
        BY <4>1, <1>0 DEF Transfers
      <4>3. TransferSound(r, t, reference)
        BY <4>1, <2>1, <1>0 DEF Transfers, TransferSound
      <4>4. TransferBound(r, t, upstream, etag)
        BY <4>1, <3>1, <2>1, <1>0 DEF Transfers, TransferBound, Audio!Bound
      <4> QED BY <4>2, <4>3, <4>4
    <3>2. CASE ~Audio!Bound(upstream)
      BY <3>2, <1>0, <1>i, <1>j
    <3> QED BY <3>1, <3>2
  <2>4. writer # "held"
    BY <2>1, <1>0
  <2> HIDE DEF t
  <2> QED BY <2>1, <2>2, <2>3, <2>4, TransferOnly
<1>5. CASE Audio!Attempt(r)
  <2> DEFINE t == [m EXCEPT !.pc = "sent", !.revision = reference]
  <2>1. run' = [run EXCEPT ![r] = t] /\ m.pc = "attempt"
    BY <1>5, <1>0 DEF Audio!Attempt, SourceInv, m
  <2>2. UNCHANGED <<upstream, version, reference, etag, writer>>
    BY <1>5 DEF Audio!Attempt, Audio!Others
  <2>3. /\ t \in Transfers
        /\ TransferSound(r, t, reference)
        /\ TransferBound(r, t, upstream, etag)
    <3>1. t \in Transfers
      BY <1>0 DEF Transfers
    <3>2. TransferSound(r, t, reference)
      BY <2>1, <1>0 DEF Transfers, TransferSound
    <3>3. TransferBound(r, t, upstream, etag)
      BY <2>1, <1>0 DEF Transfers, TransferBound
    <3> QED BY <3>1, <3>2, <3>3
  <2>4. writer # "held"
    BY <2>1, <1>0
  <2> HIDE DEF t
  <2> QED BY <2>1, <2>2, <2>3, <2>4, TransferOnly
<1>6. CASE Audio!Refused(r)
  <2> DEFINE t == [m EXCEPT !.pc = "refresh"]
  <2>1. run' = [run EXCEPT ![r] = t] /\ m.pc = "sent" /\ m.attempt = 0
    BY <1>6, <1>0 DEF Audio!Refused, Audio!Step, SourceInv, m
  <2>2. UNCHANGED <<upstream, version, reference, etag, writer>>
    BY <1>6 DEF Audio!Refused, Audio!Others
  <2>3. /\ t \in Transfers
        /\ TransferSound(r, t, reference)
        /\ TransferBound(r, t, upstream, etag)
    <3>1. t \in Transfers
      BY <1>0 DEF Transfers
    <3>2. TransferSound(r, t, reference)
      BY <2>1, <1>0 DEF Transfers, TransferSound
    <3>3. TransferBound(r, t, upstream, etag)
      BY <2>1, <1>0 DEF Transfers, TransferBound
    <3> QED BY <3>1, <3>2, <3>3
  <2>4. writer # "held"
    BY <2>1, <1>0
  <2> HIDE DEF t
  <2> QED BY <2>1, <2>2, <2>3, <2>4, TransferOnly
<1>7. CASE Audio!Refresh(r)
  <2> DEFINE t == [m EXCEPT !.pc = "attempt", !.attempt = 1, !.refused = m.revision]
  <2>1. run' = [run EXCEPT ![r] = t] /\ m.pc = "refresh"
    BY <1>7, <1>0 DEF Audio!Refresh, Audio!NextAttempt, SourceInv, m
  <2>2. UNCHANGED <<upstream, version, etag, writer>>
    BY <1>7 DEF Audio!Refresh, Audio!Others
  <2>3. m.revision \in Nat /\ m.revision <= reference
    BY <1>0 DEF Transfers, TransferSound
  <2>4. reference' \in Nat /\ reference <= reference' /\ m.revision < reference'
    BY <1>7, <1>0, <2>3 DEF Audio!Refresh, Audio!Refreshed, m
  <2>5. /\ t \in Transfers
        /\ TransferSound(r, t, reference')
        /\ TransferBound(r, t, upstream, etag')
    <3>1. t \in Transfers
      BY <1>0, <2>3 DEF Transfers
    <3>2. TransferSound(r, t, reference')
      BY <2>1, <2>3, <2>4, <1>0 DEF Transfers, TransferSound
    <3>3. TransferBound(r, t, upstream, etag)
      BY <2>1, <1>0 DEF Transfers, TransferBound
    <3> QED BY <2>2, <3>1, <3>2, <3>3
  <2>6. writer # "held"
    BY <2>1, <1>0
  <2>7. /\ etag' \in Versions /\ etag' = etag /\ upstream' \in Configs
        /\ upstream'.configured = upstream.configured /\ version' = version /\ writer' = writer
    BY <2>2, <1>0
  <2> HIDE DEF t
  <2> QED BY <2>1, <2>4, <2>5, <2>6, <2>7, TransferChange
<1>8. CASE Audio!Responds(r)
  <2>0. m.pc = "sent" /\ UNCHANGED <<upstream, version, reference, writer>>
    BY <1>8 DEF Audio!Responds, Audio!Others, m
  <2>1. CASE etag # 0 /\ version # 0 /\ etag # version
    BY <2>0, <2>1, <1>0, <1>i, <1>j, <1>8, TransferOnly DEF Audio!Responds, Audio!Released
  <2>2. CASE ~(etag # 0 /\ version # 0 /\ etag # version)
    <3> DEFINE t == [m EXCEPT !.pc = "open", !.etag = version]
    <3>1. run' = [run EXCEPT ![r] = t] /\ etag' = IF etag = 0 THEN version ELSE etag
      BY <2>2, <1>8 DEF Audio!Responds, Audio!Seen, SourceInv, m
    <3>2. t \in Transfers /\ TransferSound(r, t, reference) /\ TransferBound(r, t, upstream, etag')
      BY <2>0, <2>2, <3>1, <1>0 DEF Transfers, TransferSound, TransferBound
    <3>3. etag' \in Versions /\ (etag # 0 => etag' = etag)
      BY <3>1, <1>0
    <3>4. writer # "held"
      BY <2>0, <1>0
    <3> HIDE DEF t
    <3>5. reference' \in Nat /\ reference <= reference' /\ TransferSound(r, t, reference')
      BY <2>0, <3>2, <1>0
    <3>6. /\ upstream' \in Configs /\ upstream'.configured = upstream.configured
          /\ version' = version /\ writer' = writer
      BY <2>0, <1>0
    <3> QED BY <3>1, <3>2, <3>3, <3>4, <3>5, <3>6, TransferChange
  <2> QED BY <2>1, <2>2
<1>9. CASE \E u \in Users : Audio!Unauthorized(r, u)
  <2>0. PICK u \in Users : Audio!Unauthorized(r, u)
    BY <1>9
  <2> DEFINE c == [upstream EXCEPT !.user = u]
             t == [m EXCEPT !.pc = "refresh", !.of = c, !.renewed = TRUE]
  <2>1. /\ run' = [run EXCEPT ![r] = t] /\ m.pc = "sent" /\ m.attempt = 0
        /\ upstream' = c /\ UNCHANGED <<version, reference, etag, writer>>
    BY <2>0, <1>0 DEF Audio!Unauthorized, Audio!Renewed, SourceInv, m
  <2>2. c \in Configs /\ c.configured = upstream.configured
    BY <1>0 DEF Configs
  <2> HIDE DEF c
  <2>3. t \in Transfers /\ TransferSound(r, t, reference) /\ TransferBound(r, t, upstream, etag)
    BY <2>1, <2>2, <1>0 DEF Transfers, TransferSound, TransferBound
  <2>4. t.pc = "refresh"
    BY <1>0 DEF Transfers
  <2> HIDE DEF t
  <2>5. /\ reference' \in Nat /\ reference <= reference' /\ etag' \in Versions /\ etag' = etag
        /\ upstream' \in Configs /\ upstream'.configured = upstream.configured
        /\ version' = version /\ writer' = writer /\ writer # "held"
    BY <2>1, <2>2, <1>0
  <2>6. TransferSound(r, t, reference') /\ TransferBound(r, t, upstream, etag')
    BY <2>1, <2>3
  <2> QED BY <2>1, <2>3, <2>5, <2>6, TransferChange
<1>10. CASE Audio!UnauthorizedJoins(r)
  <2> DEFINE t == [m EXCEPT !.pc = "refresh", !.of = Nothing, !.renewed = TRUE]
  <2>1. run' = [run EXCEPT ![r] = t] /\ m.pc = "sent" /\ m.attempt = 0
    BY <1>10, <1>0 DEF Audio!UnauthorizedJoins, SourceInv, m
  <2>2. UNCHANGED <<upstream, version, reference, etag, writer>>
    BY <1>10 DEF Audio!UnauthorizedJoins, Audio!Others
  <2>3. t \in Transfers /\ TransferSound(r, t, reference) /\ TransferBound(r, t, upstream, etag)
    BY <2>1, <1>0 DEF Transfers, TransferSound, TransferBound
  <2>4. t.pc = "refresh" /\ writer # "held"
    BY <2>1, <1>0 DEF Transfers
  <2> HIDE DEF t
  <2> QED BY <2>1, <2>2, <2>3, <2>4, TransferOnly
<1> QED
  BY <1>1, <1>2, <1>3, <1>4, <1>5, <1>6, <1>7, <1>8, <1>9, <1>10 DEF Audio!Transfer

\* The reconfiguration: it begins when nobody holds the gate, and lets nobody in.
LEMMA GateSteps ==
  ASSUME SourceInv, \/ \E force \in BOOLEAN : Audio!Acquire(force)
                    \/ Audio!Locked \/ Audio!Reconfigure
  PROVE  SourceInv'
<1>0. /\ UNCHANGED <<version, reference, etag, run>>
      /\ \/ UNCHANGED upstream
         \/ writer = "held" /\ upstream' \in Configs
      /\ writer' \in {"none", "waiting", "held"}
      /\ writer' = "held" => writer = "held" \/ Audio!Held = {}
  BY DEF Audio!Acquire, Audio!Locked, Audio!Reconfigure, SourceInv, GateSound, Configs
<1>1. upstream' \in Configs /\ version' \in Versions /\ etag' \in Versions
      /\ reference' \in Nat /\ run' \in [Audio!Readers -> Transfers]
  BY <1>0 DEF SourceInv
<1>2. ASSUME Audio!Held = {}, NEW r \in Audio!Readers PROVE run[r].pc \in {"idle", "gate"}
  <2>1. run[r] \in Transfers /\ TransferSound(r, run[r], reference) /\ ~(run[r].holds > 0)
    BY <1>2 DEF SourceInv, SoundTransfer, Audio!Held
  <2> QED BY <2>1 DEF Transfers, TransferSound
<1>3. GateSound'
  BY <1>0, <1>2 DEF SourceInv, GateSound, Audio!Readers
<1>4. ASSUME NEW r \in Audio!Readers PROVE SoundTransfer(r)'
  <2>1. TransferSound(r, run[r], reference) /\ TransferBound(r, run[r], upstream, etag)
    BY DEF SourceInv, SoundTransfer
  <2>2. CASE UNCHANGED upstream
    BY <2>1, <2>2, <1>0 DEF SoundTransfer
  <2>3. CASE writer = "held"
    <3>1. run[r].pc \in {"idle", "gate"}
      BY <2>3 DEF SourceInv, GateSound
    <3>2. TransferBound(r, run[r], upstream', etag)
      BY <3>1 DEF TransferBound
    <3> QED BY <2>1, <3>2, <1>0 DEF SoundTransfer
  <2> QED BY <2>2, <2>3, <1>0
<1> QED BY <1>1, <1>3, <1>4 DEF SourceInv, Audio!Readers

\* Every step of the transfers, of the reconfiguration and from outside, and every stutter.
LEMMA SourceStep ==
  ASSUME Audio!Assumption, SourceInv, [Audio!Next]_Audio!vars
  PROVE  SourceInv'
<1>1. ASSUME NEW r \in Audio!Readers, Audio!Transfer(r) PROVE SourceInv'
  BY <1>1, TransferSteps
<1>2. CASE \/ \E force \in BOOLEAN : Audio!Acquire(force)
           \/ Audio!Locked \/ Audio!Reconfigure
  BY <1>2, GateSteps
<1>3. CASE \/ Audio!SessionEnds \/ Audio!ItemChanges \/ UNCHANGED Audio!vars
           \/ \E b \in Bases \cup {Nothing} : Audio!EndpointEdited(b)
           \/ \E u \in Users : Audio!LoginRenewed(u)
  <2>1. /\ UNCHANGED <<reference, etag, run, writer>> /\ version' \in Versions
        /\ upstream' \in Configs /\ upstream'.configured = upstream.configured
    BY <1>3 DEF Audio!SessionEnds, Audio!ItemChanges, Audio!vars, Audio!EndpointEdited,
                Audio!LoginRenewed, Audio!Renewed, SourceInv, Configs
  <2>2. ASSUME NEW r \in Audio!Readers PROVE SoundTransfer(r)'
    BY <2>1 DEF SourceInv, SoundTransfer, TransferBound
  <2>3. GateSound'
    BY <2>1 DEF SourceInv, GateSound, Audio!Readers
  <2> QED BY <2>1, <2>2, <2>3 DEF SourceInv, Audio!Readers
<1> QED BY <1>1, <1>2, <1>3 DEF Audio!Next

\* The invariant implies what the run checks.
LEMMA SourceIsSound ==
  ASSUME Audio!Assumption, SourceInv
  PROVE  Audio!SourceSound
<1>0. ASSUME NEW r \in Audio!Readers
      PROVE  /\ run[r] \in Transfers /\ TransferSound(r, run[r], reference)
             /\ TransferBound(r, run[r], upstream, etag)
  BY DEF SourceInv, SoundTransfer
<1>1. Audio!TypeOK
  <2>1. ASSUME NEW r \in Audio!Readers
        PROVE  run[r].holds \in 0..2 /\ run[r].revision <= reference
    BY <1>0 DEF Transfers, TransferSound
  <2> QED BY <2>1 DEF Audio!TypeOK, SourceInv, GateSound, Configs
<1>2. ASSUME NEW r \in Audio!Readers, r \in Audio!Held PROVE run[r].pc \notin {"idle", "gate"}
  BY <1>0, <1>2 DEF TransferSound, Audio!Held
<1>3. Audio!BoundToUpstream
  <2>1. writer = "held" => Audio!Held = {}
    BY <1>2 DEF SourceInv, GateSound, Audio!Held
  <2>2. ASSUME NEW r \in Runs, run[r].pc \in {"attempt", "sent", "refresh", "open"}
        PROVE  /\ run[r].of # Nothing => run[r].of.configured = upstream.configured
               /\ ~run[r].renewed => run[r].of.user = First.user /\ run[r].of.base = First.base
    BY <2>2, <1>0 DEF TransferBound, Audio!Readers
  <2> QED BY <2>1, <2>2 DEF Audio!BoundToUpstream
<1>4. Audio!OneVersion
  BY <1>0 DEF Audio!OneVersion, TransferBound, Audio!Readers
<1>5. Audio!NewReference
  <2>1. ASSUME NEW r \in Runs, run[r].pc = "sent", run[r].attempt = 1
        PROVE  run[r].revision > run[r].refused
    BY <2>1, <1>0 DEF TransferSound, Transfers, Audio!Readers
  <2> QED BY <2>1 DEF Audio!NewReference
<1>6. Audio!NobodyStuck
  BY <1>2 DEF Audio!NobodyStuck, Audio!Held
<1> QED BY <1>1, <1>3, <1>4, <1>5, <1>6 DEF Audio!SourceSound

\* For every number of runs and copies, every user, base and validator, with endpoints
\* edited and logins renewed meanwhile: a reconfiguration is alone at the gate, so that what
\* a run sends and reads is of the configuration in use, unless it joined an earlier login
\* after a 401; it is of the user and base the access was made with unless a 401 made the
\* run go on with the login it then got; no two runs
\* read two versions of the item, a second attempt has a newer reference, and not all who
\* hold the gate while a reconfiguration waits wait for the gate themselves
\* (audioSourceAccess.open, beginMediaCopy, ReconfigureUpstream, handleUpdateEndpoint).
THEOREM SourcesStaySound ==
  ASSUME Audio!Assumption PROVE Audio!Spec => []Audio!SourceSound
<1>1. Audio!Init => SourceInv
  BY SourceInit
<1>2. SourceInv /\ [Audio!Next]_Audio!vars => SourceInv'
  BY SourceStep
<1>3. SourceInv => Audio!SourceSound
  BY SourceIsSound
<1> QED BY <1>1, <1>2, <1>3, PTL DEF Audio!Spec

-----------------------------------------------------------------------------
(* Images without a login: validations and the requests that rely on them    *)

MaybeKey == Keys \cup {Nothing}
SnapshotRecord == [key : MaybeKey, at : Nat]
ValidationRecord ==
  [pc : {"idle", "probe", "loaded"}, key : MaybeKey, order : Nat, answered : Nat \cup {Nothing}]
ImageRequest ==
  [pc : {"idle", "check", "send", "answered", "body"}, key : MaybeKey, at : Nat,
   kind : {"full", "part", "none", Nothing}, since : SUBSET MaybeKey]

\* Somebody confirmed the key at one of the times.
Confirmed(key, times, done) == \E p \in done : p[1] = key /\ p[2] # Nothing /\ p[3] \in times

ValidationSound(l) ==
  /\ l \in ValidationRecord
  /\ l.pc # "idle" => locked /\ latest < l.order /\ l.order <= runs
  /\ l.pc = "loaded" => l.answered \in Nat

ImageRequestSound(q, conf, done) ==
  /\ q \in ImageRequest
  /\ q.pc # "idle" => conf \in q.since /\ Confirmed(q.key, (q.at - MaxAge)..q.at, done)
  /\ q.pc \in {"send", "answered", "body"} => q.key \in q.since

Bodies(q) == {r \in Requests : q[r].pc = "body"}

ImagesInv ==
  /\ stored \in MaybeKey /\ up \subseteq Keys /\ locked \in BOOLEAN
  /\ now \in Nat /\ runs \in Nat /\ latest \in 0..runs
  /\ snapshot \in SnapshotRecord /\ snapshot.at <= now
  /\ snapshot.key # Nothing => Confirmed(snapshot.key, {snapshot.at}, proved)
  /\ validator \in [Validators -> ValidationRecord]
  /\ \A v \in Validators : ValidationSound(validator[v])
  /\ \A v, w \in Validators : validator[v].pc # "idle" /\ validator[w].pc # "idle" => v = w
  /\ request \in [Requests -> ImageRequest]
  /\ \A r \in Requests : ImageRequestSound(request[r], stored, proved)
  /\ slots = Cardinality(Bodies(request)) /\ slots <= Slots

-----------------------------------------------------------------------------
\* The types that follow from the invariant.
LEMMA ImagesFacts ==
  ASSUME ImagesInv, Images!Assumption
  PROVE  /\ request \in [Requests -> ImageRequest]
         /\ validator \in [Validators -> ValidationRecord]
         /\ slots \in Nat /\ slots = Cardinality(Bodies(request)) /\ slots <= Slots
         /\ Bodies(request) \subseteq Requests /\ IsFiniteSet(Bodies(request))
         /\ now \in Nat /\ runs \in Nat /\ latest \in 0..runs /\ snapshot \in SnapshotRecord
<1>1. Bodies(request) \subseteq Requests /\ IsFiniteSet(Requests)
  BY DEF Bodies, Images!Assumption, Images!IsFiniteSet, IsFiniteSet
<1>2. IsFiniteSet(Bodies(request)) /\ Cardinality(Bodies(request)) \in Nat
  BY <1>1, FS_Subset, FS_CardinalityType
<1> QED BY <1>1, <1>2 DEF ImagesInv

\* A step of the request r, which becomes q.
LEMMA ServeChange ==
  ASSUME Images!Assumption, ImagesInv, NEW r \in Requests, NEW q,
         request' = [request EXCEPT ![r] = q], ImageRequestSound(q, stored, proved),
         runs' \in Nat, runs <= runs',
         slots' = Cardinality(Bodies(request')), slots' <= Slots,
         UNCHANGED <<stored, up, now, snapshot, locked, validator, proved, latest>>
  PROVE  ImagesInv'
<1>1. q \in ImageRequest /\ request \in [Requests -> ImageRequest]
  BY ImagesFacts DEF ImageRequestSound
<1>2. request' \in [Requests -> ImageRequest]
  BY <1>1
<1>3. ASSUME NEW o \in Requests PROVE ImageRequestSound(request'[o], stored', proved')
  <2>1. CASE o = r
    BY <1>1, <2>1
  <2>2. CASE o # r
    BY <1>1, <2>2 DEF ImagesInv
  <2> QED BY <2>1, <2>2
<1>4. ASSUME NEW v \in Validators PROVE ValidationSound(validator[v])'
  <2>1. ValidationSound(validator[v])
    BY DEF ImagesInv
  <2>2. validator[v].order \in Nat
    BY ImagesFacts DEF ValidationRecord
  <2> QED BY <2>1, <2>2, ImagesFacts DEF ValidationSound
<1>5. latest' \in 0..runs'
  BY ImagesFacts
<1> QED BY <1>2, <1>3, <1>4, <1>5 DEF ImagesInv

\* A request that neither begins nor ends to read a body changes no slot.
LEMMA BodiesStay ==
  ASSUME ImagesInv, Images!Assumption, NEW r \in Requests, NEW q,
         request' = [request EXCEPT ![r] = q], q.pc = "body" <=> request[r].pc = "body"
  PROVE  Bodies(request') = Bodies(request)
BY ImagesFacts DEF Bodies

\* A place without a request is sound.
LEMMA NoImageRequest ==
  ASSUME Images!Assumption
  PROVE  ImageRequestSound(Images!NoRequest, stored, proved) /\ Images!NoRequest.pc = "idle"
BY DEF ImageRequestSound, Images!NoRequest, ImageRequest, MaybeKey

\* A request begins, with the snapshot of the moment if it is fresh.
LEMMA StepBegin ==
  ASSUME Images!Assumption, ImagesInv, NEW r \in Requests, Images!Begin(r)
  PROVE  ImagesInv'
<1> DEFINE q == [Images!NoRequest EXCEPT !.pc = "check", !.key = snapshot.key, !.at = now,
                                         !.since = {stored}]
           stale == snapshot.key = Nothing \/ now - snapshot.at > MaxAge
<1>0. /\ request[r].pc = "idle" /\ runs' = runs + 1 /\ request' = IF stale THEN request
                ELSE [request EXCEPT ![r] = q]
      /\ UNCHANGED <<stored, up, now, turns, snapshot, locked, validator, slots, proved, latest>>
  BY DEF Images!Begin, Images!outside
<1>1. runs' \in Nat /\ runs <= runs' /\ slots' = slots /\ slots <= Slots
  BY <1>0, ImagesFacts
<1>2. CASE stale
  <2>1. request' = [request EXCEPT ![r] = request[r]] /\ Bodies(request') = Bodies(request)
    BY <1>0, <1>2, ImagesFacts
  <2>2. ImageRequestSound(request[r], stored, proved)
    BY DEF ImagesInv
  <2> QED BY <1>0, <1>1, <2>1, <2>2, ImagesFacts, ServeChange
<1>3. CASE ~stale
  <2>1. Images!NoRequest \in ImageRequest
    BY NoImageRequest DEF ImageRequestSound
  <2>2. stored \in MaybeKey /\ snapshot.key \in MaybeKey /\ snapshot.at \in Nat
        /\ snapshot.at <= now /\ Confirmed(snapshot.key, {snapshot.at}, proved) /\ now \in Nat
    BY <1>3 DEF ImagesInv, SnapshotRecord
  <2>3. /\ q \in ImageRequest /\ q.pc = "check" /\ q.key = snapshot.key /\ q.at = now
        /\ q.since = {stored}
    BY <2>1, <2>2 DEF ImageRequest
  <2>4. snapshot.at \in (now - MaxAge)..now
    BY <1>3, <2>2 DEF Images!Assumption
  <2>5. Confirmed(snapshot.key, (now - MaxAge)..now, proved)
    BY <2>2, <2>4 DEF Confirmed
  <2>6. request' = [request EXCEPT ![r] = q]
    BY <1>0, <1>3
  <2> HIDE DEF q, stale
  <2>7. ImageRequestSound(q, stored, proved)
    BY <2>3, <2>5 DEF ImageRequestSound
  <2>8. Bodies(request') = Bodies(request)
    BY <1>0, <2>3, <2>6, BodiesStay
  <2> QED BY <1>0, <1>1, <2>6, <2>7, <2>8, ImagesFacts, ServeChange
<1> QED BY <1>2, <1>3

\* A request that is over, and held no slot.
LEMMA RequestEnds ==
  ASSUME Images!Assumption, ImagesInv, NEW r \in Requests, request[r].pc # "body",
         Images!Went(r), slots' = slots, runs' = runs,
         UNCHANGED <<stored, up, now, snapshot, locked, validator, proved, latest>>
  PROVE  ImagesInv'
<1>1. request' = [request EXCEPT ![r] = Images!NoRequest]
  BY DEF Images!Went
<1>2. Bodies(request') = Bodies(request)
  BY <1>1, NoImageRequest, BodiesStay
<1>3. runs' \in Nat /\ runs <= runs'
  BY ImagesFacts
<1> QED BY <1>1, <1>2, <1>3, ImagesFacts, NoImageRequest, ServeChange

\* The snapshot's configuration is compared with the one of now.
LEMMA StepCheck ==
  ASSUME Images!Assumption, ImagesInv, NEW r \in Requests, Images!Check(r)
  PROVE  ImagesInv'
<1>0. /\ request[r].pc = "check"
      /\ UNCHANGED <<stored, up, now, turns, snapshot, locked, validator, slots, runs>>
      /\ UNCHANGED <<proved, latest>>
      /\ \/ Images!Went(r)
         \/ stored = request[r].key /\ request' = [request EXCEPT ![r].pc = "send"]
  BY DEF Images!Check, Images!outside, Images!Matches
<1>1. CASE Images!Went(r)
  BY <1>0, <1>1, RequestEnds
<1>2. CASE stored = request[r].key /\ request' = [request EXCEPT ![r].pc = "send"]
  <2> DEFINE q == [request[r] EXCEPT !.pc = "send"]
  <2>1. request' = [request EXCEPT ![r] = q]
    BY <1>2, ImagesFacts
  <2>2. ImageRequestSound(request[r], stored, proved)
    BY DEF ImagesInv
  <2>3. /\ q \in ImageRequest /\ q.pc = "send" /\ q.key = request[r].key /\ q.at = request[r].at
        /\ q.since = request[r].since
    BY <2>2 DEF ImageRequestSound, ImageRequest
  <2> HIDE DEF q
  <2>4. ImageRequestSound(q, stored, proved)
    BY <1>0, <1>2, <2>2, <2>3 DEF ImageRequestSound
  <2>5. Bodies(request') = Bodies(request)
    BY <1>0, <2>1, <2>3, BodiesStay
  <2>6. runs' \in Nat /\ runs <= runs'
    BY <1>0, ImagesFacts
  <2> QED BY <1>0, <2>1, <2>4, <2>5, <2>6, ImagesFacts, ServeChange
<1> QED BY <1>0, <1>1, <1>2

\* The upstream responds: all of an image, a part or nothing of use.
LEMMA StepResponds ==
  ASSUME Images!Assumption, ImagesInv, NEW r \in Requests, NEW kind \in {"full", "part", "none"},
         Images!Responds(r, kind)
  PROVE  ImagesInv'
<1> DEFINE q == [request[r] EXCEPT !.pc = "answered", !.kind = kind]
<1>0. /\ request[r].pc = "send" /\ request' = [request EXCEPT ![r] = q]
      /\ UNCHANGED <<stored, up, now, turns, snapshot, locked, validator, slots, runs>>
      /\ UNCHANGED <<proved, latest>>
  BY ImagesFacts DEF Images!Responds, Images!outside
<1>2. ImageRequestSound(request[r], stored, proved)
  BY DEF ImagesInv
<1>3. /\ q \in ImageRequest /\ q.pc = "answered" /\ q.key = request[r].key
      /\ q.at = request[r].at /\ q.since = request[r].since
  BY <1>2 DEF ImageRequestSound, ImageRequest
<1> HIDE DEF q
<1>4. ImageRequestSound(q, stored, proved)
  BY <1>0, <1>2, <1>3 DEF ImageRequestSound
<1>5. Bodies(request') = Bodies(request)
  BY <1>0, <1>3, BodiesStay
<1>6. runs' \in Nat /\ runs <= runs'
  BY <1>0, ImagesFacts
<1> QED BY <1>0, <1>4, <1>5, <1>6, ImagesFacts, ServeChange

\* A whole image takes a slot to be looked at, if one is free.
LEMMA StepTakeSlot ==
  ASSUME Images!Assumption, ImagesInv, NEW r \in Requests, Images!TakeSlot(r)
  PROVE  ImagesInv'
<1> DEFINE q == [request[r] EXCEPT !.pc = "body"]
<1>0. /\ request[r].pc = "answered" /\ slots < Slots /\ slots' = slots + 1
      /\ request' = [request EXCEPT ![r] = q]
      /\ UNCHANGED <<stored, up, now, turns, snapshot, locked, validator, runs, proved, latest>>
  BY ImagesFacts DEF Images!TakeSlot, Images!outside
<1>2. ImageRequestSound(request[r], stored, proved)
  BY DEF ImagesInv
<1>3. /\ q \in ImageRequest /\ q.pc = "body" /\ q.key = request[r].key
      /\ q.at = request[r].at /\ q.since = request[r].since
  BY <1>2 DEF ImageRequestSound, ImageRequest
<1> HIDE DEF q
<1>4. ImageRequestSound(q, stored, proved)
  BY <1>0, <1>2, <1>3 DEF ImageRequestSound
<1>5. Bodies(request') = Bodies(request) \cup {r} /\ r \notin Bodies(request)
  BY <1>0, <1>3, ImagesFacts DEF Bodies
<1>6. Cardinality(Bodies(request')) = slots + 1
  <2>1. IsFiniteSet(Bodies(request)) /\ slots = Cardinality(Bodies(request))
    BY ImagesFacts
  <2>2. Cardinality(Bodies(request) \cup {r}) = Cardinality(Bodies(request)) + 1
    BY <1>5, <2>1, FS_AddElement
  <2> QED BY <1>5, <2>1, <2>2
<1>7. runs' \in Nat /\ runs <= runs' /\ slots' <= Slots
  BY <1>0, ImagesFacts DEF Images!Assumption
<1> QED BY <1>0, <1>4, <1>6, <1>7, ServeChange

\* The image is written or refused: its slot is free again.
LEMMA StepFinish ==
  ASSUME Images!Assumption, ImagesInv, NEW r \in Requests, Images!Finish(r)
  PROVE  ImagesInv'
<1>0. /\ request[r].pc = "body" /\ slots' = slots - 1
      /\ request' = [request EXCEPT ![r] = Images!NoRequest]
      /\ UNCHANGED <<stored, up, now, turns, snapshot, locked, validator, runs, proved, latest>>
  BY DEF Images!Finish, Images!Went, Images!outside
<1>1. Bodies(request') = Bodies(request) \ {r} /\ r \in Bodies(request)
  BY <1>0, ImagesFacts, NoImageRequest DEF Bodies
<1>2. Cardinality(Bodies(request')) = slots - 1
  BY <1>1, ImagesFacts, FS_RemoveElement
<1>3. runs' \in Nat /\ runs <= runs' /\ slots' <= Slots
  BY <1>0, ImagesFacts DEF Images!Assumption
<1> QED BY <1>0, <1>2, <1>3, NoImageRequest, ServeChange

\* Every step of a request.
LEMMA StepServe ==
  ASSUME Images!Assumption, ImagesInv, NEW r \in Requests, Images!Serve(r)
  PROVE  ImagesInv'
<1>1. ASSUME Images!NoSlot(r) \/ Images!Pass(r) PROVE ImagesInv'
  <2>1. /\ request[r].pc = "answered" /\ Images!Went(r) /\ slots' = slots /\ runs' = runs
        /\ UNCHANGED <<stored, up, now, snapshot, locked, validator, proved, latest>>
    BY <1>1 DEF Images!NoSlot, Images!Pass, Images!outside
  <2> QED BY <2>1, RequestEnds
<1> QED BY <1>1, StepBegin, StepCheck, StepTakeSlot, StepFinish, StepResponds DEF Images!Serve

-----------------------------------------------------------------------------
\* A step of the validator v, which becomes l.
LEMMA ValidateChange ==
  ASSUME Images!Assumption, ImagesInv, NEW v \in Validators, NEW l,
         validator' = [validator EXCEPT ![v] = l],
         runs' \in Nat, runs <= runs', latest' \in 0..runs', locked' \in BOOLEAN,
         l \in ValidationRecord, l.pc = "loaded" => l.answered \in Nat,
         l.pc # "idle" => locked' /\ latest' < l.order /\ l.order <= runs',
         \A w \in Validators : w # v => validator[w].pc = "idle",
         snapshot' \in SnapshotRecord, snapshot'.at <= now,
         snapshot'.key # Nothing => Confirmed(snapshot'.key, {snapshot'.at}, proved'),
         proved \subseteq proved',
         UNCHANGED <<stored, up, now, request, slots>>
  PROVE  ImagesInv'
<1>0. validator \in [Validators -> ValidationRecord]
  BY ImagesFacts
<1>1. validator' \in [Validators -> ValidationRecord] /\ validator'[v] = l
  BY <1>0
<1>2. \A w \in Validators : w # v => validator'[w] = validator[w] /\ validator'[w].pc = "idle"
  BY <1>0
<1>3. ASSUME NEW w \in Validators PROVE ValidationSound(validator[w])'
  <2>1. CASE w = v
    BY <1>1, <2>1 DEF ValidationSound
  <2>2. CASE w # v
    BY <1>1, <1>2, <2>2 DEF ValidationSound
  <2> QED BY <2>1, <2>2
<1>4. ASSUME NEW r \in Requests PROVE ImageRequestSound(request'[r], stored', proved')
  BY DEF ImagesInv, ImageRequestSound, Confirmed
<1>5. \A w, x \in Validators : validator'[w].pc # "idle" /\ validator'[x].pc # "idle" => w = x
  BY <1>2
<1>6. Bodies(request)' = Bodies(request)
  BY DEF Bodies
<1> QED BY <1>1, <1>3, <1>4, <1>5, <1>6 DEF ImagesInv

\* What no validation, and no snapshot, look like.
LEMMA NoValidationSound ==
  ASSUME Images!Assumption
  PROVE  /\ Images!NoValidation \in ValidationRecord /\ Images!NoValidation.pc = "idle"
         /\ Images!Unavailable \in SnapshotRecord /\ Images!Unavailable.key = Nothing
         /\ Images!Unavailable.at = 0
BY DEF Images!NoValidation, Images!Unavailable, ValidationRecord, SnapshotRecord, MaybeKey

\* One validator at a time is under way.
LEMMA OneValidates ==
  ASSUME Images!Assumption, ImagesInv, NEW v \in Validators, validator[v].pc # "idle" \/ ~locked
  PROVE  /\ \A w \in Validators : w # v => validator[w].pc = "idle"
         /\ validator[v] \in ValidationRecord
         /\ validator[v].pc # "idle" =>
              locked /\ latest < validator[v].order /\ validator[v].order <= runs
BY ImagesFacts DEF ImagesInv, ValidationSound

\* A validation takes the lock and loads the configuration.
LEMMA StepLoadKey ==
  ASSUME Images!Assumption, ImagesInv, NEW v \in Validators, Images!Load(v)
  PROVE  ImagesInv'
<1> DEFINE l == [Images!NoValidation EXCEPT !.pc = "probe", !.key = stored, !.order = runs + 1]
<1>0. /\ ~locked /\ runs' = runs + 1 /\ locked' = TRUE
      /\ validator' = [validator EXCEPT ![v] = l]
      /\ UNCHANGED <<stored, up, now, turns, snapshot, request, slots, proved, latest>>
  BY DEF Images!Load, Images!MayValidate, Images!outside
<1>1. stored \in MaybeKey /\ runs \in Nat /\ runs + 1 \in Nat /\ latest \in 0..runs
  BY ImagesFacts DEF ImagesInv
<1>2. l \in ValidationRecord /\ l.pc = "probe" /\ l.order = runs + 1
  BY <1>1, NoValidationSound DEF ValidationRecord
<1> HIDE DEF l
<1>3. /\ runs' \in Nat /\ runs <= runs' /\ latest' \in 0..runs' /\ locked' \in BOOLEAN
      /\ latest' < l.order /\ l.order <= runs'
  BY <1>0, <1>1, <1>2
<1>4. /\ snapshot' \in SnapshotRecord /\ snapshot'.at <= now
      /\ snapshot'.key # Nothing => Confirmed(snapshot'.key, {snapshot'.at}, proved')
  BY <1>0 DEF ImagesInv
<1>5. \A w \in Validators : w # v => validator[w].pc = "idle"
  BY <1>0, OneValidates
<1> QED BY <1>0, <1>2, <1>3, <1>4, <1>5, ValidateChange

\* The server answers the probe.
LEMMA StepProbe ==
  ASSUME Images!Assumption, ImagesInv, NEW v \in Validators, Images!Probe(v)
  PROVE  ImagesInv'
<1> DEFINE o == validator[v]
           l == [o EXCEPT !.pc = "loaded", !.answered = now]
<1>0. /\ o.pc = "probe" /\ o.key \in up
      /\ validator' = [validator EXCEPT ![v].pc = "loaded",
                                        ![v].answered = IF o.key \in up THEN now ELSE o.answered]
      /\ UNCHANGED <<stored, up, now, turns, snapshot, locked, request, slots, runs>>
      /\ UNCHANGED <<proved, latest>>
  BY ImagesFacts DEF Images!Probe, Images!Confirmed, Images!outside
<1>1. validator' = [validator EXCEPT ![v] = l]
  BY <1>0, ImagesFacts
<1>2. /\ \A w \in Validators : w # v => validator[w].pc = "idle"
      /\ o \in ValidationRecord /\ locked /\ latest < o.order /\ o.order <= runs
  BY <1>0, OneValidates
<1>3. l \in ValidationRecord /\ l.pc = "loaded" /\ l.answered = now /\ l.order = o.order
  BY <1>2, ImagesFacts DEF ValidationRecord
<1> HIDE DEF l, o
<1>4. /\ snapshot' \in SnapshotRecord /\ snapshot'.at <= now
      /\ snapshot'.key # Nothing => Confirmed(snapshot'.key, {snapshot'.at}, proved')
  BY <1>0 DEF ImagesInv
<1>5. /\ runs' \in Nat /\ runs <= runs' /\ latest' \in 0..runs' /\ locked' \in BOOLEAN
      /\ locked' /\ latest' < l.order /\ l.order <= runs' /\ l.answered \in Nat
      /\ proved \subseteq proved'
  BY <1>0, <1>2, <1>3, ImagesFacts
<1> QED BY <1>0, <1>1, <1>2, <1>3, <1>4, <1>5, ValidateChange

\* A validation that is done, and sets the snapshot to s.
LEMMA ValidationEnds ==
  ASSUME Images!Assumption, ImagesInv, NEW v \in Validators, validator[v].pc # "idle",
         NEW s \in SnapshotRecord, Images!Set(v, s), s.at <= now, proved \subseteq proved',
         s.key # Nothing => Confirmed(s.key, {s.at}, proved'),
         UNCHANGED <<stored, up, now, request, slots, runs>>
  PROVE  ImagesInv'
<1>1. /\ snapshot' = s /\ latest' = validator[v].order /\ locked' = FALSE
      /\ validator' = [validator EXCEPT ![v] = Images!NoValidation]
  BY DEF Images!Set
<1>2. /\ \A w \in Validators : w # v => validator[w].pc = "idle"
      /\ validator[v] \in ValidationRecord /\ latest < validator[v].order
      /\ validator[v].order <= runs
  BY OneValidates
<1>3. validator[v].order \in Nat
  BY <1>2 DEF ValidationRecord
<1>4. runs' \in Nat /\ runs <= runs' /\ latest' \in 0..runs' /\ locked' \in BOOLEAN
  <2>1. runs \in Nat /\ runs' = runs
    BY ImagesFacts
  <2>2. locked' \in BOOLEAN
    BY <1>1, Zenon
  <2>3. latest' = validator[v].order
    BY <1>1, Zenon
  <2>4. latest' \in 0..runs'
    BY <1>2, <1>3, <2>1, <2>3
  <2>5. runs' \in Nat /\ runs <= runs'
    BY <2>1
  <2> QED BY <2>2, <2>4, <2>5
<1>5. Images!NoValidation \in ValidationRecord /\ Images!NoValidation.pc = "idle"
  BY NoValidationSound
<1> QED BY <1>1, <1>2, <1>4, <1>5, ValidateChange

\* A validation fails: nothing is known to be valid.
LEMMA StepFail ==
  ASSUME Images!Assumption, ImagesInv, NEW v \in Validators, Images!Fail(v)
  PROVE  ImagesInv'
<1>1. /\ validator[v].pc # "idle" /\ Images!Set(v, Images!Unavailable)
      /\ UNCHANGED <<stored, up, now, turns, request, slots, runs, proved>>
  BY DEF Images!Fail, Images!outside
<1>2. Images!Unavailable.at <= now
  BY NoValidationSound, ImagesFacts
<1> QED BY <1>1, <1>2, NoValidationSound, ValidationEnds

\* A validation succeeds: its configuration is confirmed as of now.
LEMMA StepConfirm ==
  ASSUME Images!Assumption, ImagesInv, NEW v \in Validators, Images!Confirm(v)
  PROVE  ImagesInv'
<1> DEFINE s == [key |-> stored, at |-> now]
           p == <<validator[v].key, validator[v].answered, now>>
<1>1. /\ validator[v].pc = "loaded" /\ stored = validator[v].key /\ Images!Set(v, s)
      /\ proved' = proved \cup {p}
      /\ UNCHANGED <<stored, up, now, turns, request, slots, runs>>
  BY DEF Images!Confirm, Images!outside
<1>2. s \in SnapshotRecord /\ s.at = now /\ s.key = stored /\ now \in Nat
  BY DEF ImagesInv, SnapshotRecord
<1>3. validator[v].answered \in Nat
  BY <1>1 DEF ImagesInv, ValidationSound
<1>4. p[1] = stored /\ p[2] # Nothing /\ p[3] = now
  BY <1>1, <1>3 DEF Images!Assumption
<1>5. Confirmed(s.key, {s.at}, proved')
  <2> HIDE DEF p, s
  <2> QED BY <1>1, <1>2, <1>4 DEF Confirmed
<1>6. s.at <= now /\ proved \subseteq proved' /\ validator[v].pc # "idle"
  BY <1>1, <1>2
<1> HIDE DEF s
<1> QED BY <1>1, <1>2, <1>5, <1>6, ValidationEnds

-----------------------------------------------------------------------------
\* The configuration changes: requests under way have seen both.
LEMMA StepConfigure ==
  ASSUME Images!Assumption, ImagesInv, Images!Configure
  PROVE  ImagesInv'
<1>0. /\ stored' \in MaybeKey
      /\ request' = [r \in Requests |->
                       IF request[r].pc = "idle" THEN Images!NoRequest
                       ELSE [request[r] EXCEPT !.since = request[r].since \cup {stored'}]]
      /\ UNCHANGED <<up, now, snapshot, locked, validator, slots, runs, proved, latest>>
  BY DEF Images!Configure, Images!Inside, MaybeKey
<1>1. ASSUME NEW r \in Requests
      PROVE  /\ ImageRequestSound(request'[r], stored', proved)
             /\ request'[r].pc = "body" <=> request[r].pc = "body"
  <2>1. ImageRequestSound(request[r], stored, proved)
    BY DEF ImagesInv
  <2>2. CASE request[r].pc = "idle"
    <3>1. request'[r] = Images!NoRequest
      BY <1>0, <2>2
    <3>2. ImageRequestSound(Images!NoRequest, stored', proved)
      BY NoImageRequest DEF ImageRequestSound
    <3> QED BY <2>2, <3>1, <3>2, NoImageRequest
  <2>3. CASE request[r].pc # "idle"
    <3> DEFINE q == [request[r] EXCEPT !.since = request[r].since \cup {stored'}]
    <3>1. request'[r] = q
      BY <1>0, <2>3
    <3>2. /\ q \in ImageRequest /\ q.pc = request[r].pc /\ q.key = request[r].key
          /\ q.at = request[r].at /\ q.since = request[r].since \cup {stored'}
      BY <1>0, <2>1 DEF ImageRequestSound, ImageRequest
    <3> HIDE DEF q
    <3>3. ImageRequestSound(q, stored', proved)
      BY <2>1, <3>2 DEF ImageRequestSound
    <3> QED BY <3>1, <3>2, <3>3
  <2> QED BY <2>2, <2>3
<1>2. \A r \in Requests : request'[r] \in ImageRequest
  BY <1>1 DEF ImageRequestSound
<1>3. request' \in [Requests -> ImageRequest]
  BY <1>0, <1>2
<1>4. Bodies(request') = Bodies(request)
  BY <1>1 DEF Bodies
<1>5. \A v \in Validators : ValidationSound(validator[v])'
  BY <1>0 DEF ImagesInv, ValidationSound
<1> QED BY <1>0, <1>1, <1>3, <1>4, <1>5 DEF ImagesInv

\* Another server answers, the clock, or nothing.
LEMMA StepOutside ==
  ASSUME Images!Assumption, ImagesInv, now' \in Nat, now <= now', up' \subseteq Keys,
         UNCHANGED <<stored, request, snapshot, locked, validator, slots, runs, proved, latest>>
  PROVE  ImagesInv'
<1>1. snapshot'.at <= now'
  <2>1. snapshot.at \in Nat /\ snapshot.at <= now /\ now \in Nat
    BY DEF ImagesInv, SnapshotRecord
  <2> QED BY <2>1
<1>2. \A v \in Validators : ValidationSound(validator[v])'
  BY DEF ImagesInv, ValidationSound
<1>3. Bodies(request') = Bodies(request)
  BY DEF Bodies
<1> QED BY <1>1, <1>2, <1>3 DEF ImagesInv

\* Nothing is validated yet.
LEMMA ImagesInit ==
  ASSUME Images!Assumption, Images!Init
  PROVE  ImagesInv
<1>0. /\ stored \in Keys /\ up = Keys /\ snapshot = Images!Unavailable /\ locked = FALSE
      /\ validator = [v \in Validators |-> Images!NoValidation]
      /\ request = [r \in Requests |-> Images!NoRequest]
      /\ slots = 0 /\ now = 0 /\ runs = 0 /\ proved = {} /\ latest = 0
  BY DEF Images!Init
<1>1. Bodies(request) = {}
  BY <1>0, NoImageRequest DEF Bodies
<1>2. Cardinality(Bodies(request)) = 0
  BY <1>1, FS_EmptySet
<1>3. /\ \A v \in Validators : ValidationSound(validator[v])
      /\ \A v, w \in Validators : validator[v].pc # "idle" /\ validator[w].pc # "idle" => v = w
      /\ validator \in [Validators -> ValidationRecord]
  BY <1>0, NoValidationSound DEF ValidationSound
<1>4. \A r \in Requests : ImageRequestSound(request[r], stored, proved)
  BY <1>0, NoImageRequest
<1>5. request \in [Requests -> ImageRequest]
  <2>1. Images!NoRequest \in ImageRequest
    BY NoImageRequest DEF ImageRequestSound
  <2> QED BY <1>0, <2>1
<1>6. /\ snapshot \in SnapshotRecord /\ snapshot.at <= now /\ snapshot.key = Nothing
      /\ stored \in MaybeKey /\ slots <= Slots
  BY <1>0, NoValidationSound DEF MaybeKey, Images!Assumption
<1>7. up \subseteq Keys /\ locked \in BOOLEAN /\ now \in Nat /\ runs \in Nat /\ latest \in 0..runs
  <2>1. locked \in BOOLEAN
    BY <1>0, Zenon
  <2>2. now \in Nat /\ runs \in Nat /\ latest \in 0..runs /\ up \subseteq Keys
    BY <1>0
  <2> QED BY <2>1, <2>2
<1>8. slots = Cardinality(Bodies(request))
  BY <1>0, <1>2
<1> QED BY <1>3, <1>4, <1>5, <1>6, <1>7, <1>8 DEF ImagesInv

\* Every step of validations and requests and from outside, and every stutter.
LEMMA ImagesNext ==
  ASSUME Images!Assumption, ImagesInv, [Images!Next]_Images!vars
  PROVE  ImagesInv'
<1>1. CASE UNCHANGED Images!vars
  <2>1. /\ UNCHANGED <<stored, request, snapshot, locked, validator, slots, runs, proved, latest>>
        /\ now' = now /\ up' = up
    BY <1>1 DEF Images!vars, Images!outside
  <2>2. now' \in Nat /\ now <= now' /\ up' \subseteq Keys
    BY <2>1 DEF ImagesInv
  <2> QED BY <2>1, <2>2, StepOutside
<1>2. CASE \E v \in Validators : Images!Validate(v)
  BY <1>2, StepLoadKey, StepFail, StepProbe, StepConfirm DEF Images!Validate
<1>3. CASE \E r \in Requests : Images!Serve(r)
  BY <1>3, StepServe
<1>4. CASE Images!Configure
  BY <1>4, StepConfigure
<1>5. CASE Images!Tick
  <2>1. /\ now' = now + 1 /\ up' = up
        /\ UNCHANGED <<stored, request, snapshot, locked, validator, slots, runs, proved, latest>>
    BY <1>5 DEF Images!Tick, Images!Inside
  <2>2. now' \in Nat /\ now <= now' /\ up' \subseteq Keys
    BY <2>1 DEF ImagesInv
  <2> QED BY <2>1, <2>2, StepOutside
<1>6. CASE \E key \in Keys : Images!Server(key)
  <2> PICK key \in Keys : Images!Server(key)
    BY <1>6
  <2>1. /\ now' = now /\ up' \subseteq up \cup {key}
        /\ UNCHANGED <<stored, request, snapshot, locked, validator, slots, runs, proved, latest>>
    BY DEF Images!Server, Images!Inside
  <2>2. now' \in Nat /\ now <= now' /\ up' \subseteq Keys
    BY <2>1 DEF ImagesInv
  <2> QED BY <2>1, <2>2, StepOutside
<1> QED BY <1>1, <1>2, <1>3, <1>4, <1>5, <1>6 DEF Images!Next

\* The invariant implies what the run checks.
LEMMA ImagesInvSound ==
  ASSUME Images!Assumption, ImagesInv
  PROVE  Images!ImagesSound
<1>1. Images!TypeOK
  BY ImagesFacts DEF ImagesInv, Images!TypeOK, SnapshotRecord, MaybeKey, Images!Assumption
<1>2. Images!OnlyToTheValidated
  <2> SUFFICES ASSUME NEW r \in Requests, Images!Sent(r)
               PROVE  /\ request[r].key \in request[r].since
                      /\ \E p \in proved : p[1] = request[r].key /\ p[2] # Nothing
                             /\ p[3] \in request[r].at - MaxAge..request[r].at
    BY DEF Images!OnlyToTheValidated
  <2>1. ImageRequestSound(request[r], stored, proved)
    BY DEF ImagesInv
  <2> QED BY <2>1 DEF Images!Sent, ImageRequestSound, Confirmed
<1>3. Images!LatestValidationCounts
  <2>1. ASSUME NEW v \in Validators, validator[v].pc # "idle" PROVE validator[v].order > latest
    <3>1. latest < validator[v].order /\ validator[v].order \in Nat /\ latest \in Nat
      BY <2>1, OneValidates, ImagesFacts DEF ValidationRecord
    <3> QED BY <3>1
  <2>2. ASSUME snapshot.key # Nothing
        PROVE  \E p \in proved : p[1] = snapshot.key /\ p[2] # Nothing /\ p[3] = snapshot.at
    BY <2>2 DEF ImagesInv, Confirmed
  <2> QED BY <2>1, <2>2 DEF Images!LatestValidationCounts
<1>4. Images!SlotsCounted
  <2>1. slots = Cardinality({r \in Requests : request[r].pc = "body"})
    BY DEF ImagesInv, Bodies
  <2> QED BY <2>1 DEF Images!SlotsCounted, Images!Cardinality, Cardinality
<1> QED BY <1>1, <1>2, <1>3, <1>4 DEF Images!ImagesSound

\* For every set of configurations, every number of validations and requests and every age:
\* an image is asked for only of an upstream that was configured while that was decided and that
\* answered as the server it names, in a validation done within the age; a validation that
\* loaded earlier never replaces a later one; and the slots taken are the bodies being read
\* (ValidateAnonymousImageNamespace, handleAnonymousItemImage).
THEOREM ImagesStaySound ==
  ASSUME Images!Assumption
  PROVE  Images!Spec => []Images!ImagesSound
<1>1. Images!Init => ImagesInv
  BY ImagesInit
<1>2. ImagesInv /\ [Images!Next]_Images!vars => ImagesInv'
  BY ImagesNext
<1>3. ImagesInv => Images!ImagesSound
  BY ImagesInvSound
<1> QED BY <1>1, <1>2, <1>3, PTL DEF Images!Spec

-----------------------------------------------------------------------------
(* The control plane: the upstream, its endpoints, and the requests of administrators *)

Secrets == {"stored", "new"}
EndpointRecord ==
  [id : Nat, key : Keys, url : Urls, enabled : BOOLEAN, default : BOOLEAN, ws : BOOLEAN]
Seen == (Control!SourceRecord \cup {Nothing}) \X Seq(EndpointRecord) \X Nat
FormRecord ==
  [pc : {"load", "resolve", "public", "login", "commit"},
   kind : {"setup", "reconfigure", "probe"}, url : Urls,
   identity : Identities \cup {Nothing}, password : Secrets \cup {Nothing},
   seen : Seen \cup {Nothing}, expected : Servers \cup {Nothing},
   public : Servers \cup {Nothing}, retried : BOOLEAN, noop : BOOLEAN,
   login : Nat, old : Nat, base : Urls \cup {Nothing}]
ProbeRecord == [pc : {"websocket"}, id : Nat]
OwingRecord == [pc : {"cleanup"}, login : Nat]
Requested == {Control!Idle} \cup ProbeRecord \cup OwingRecord \cup FormRecord

\* The rows of the source s and of the endpoints e.
StoreOfSound(s, e) ==
  /\ s \in Control!SourceRecord \cup {Nothing} /\ e \in Seq(EndpointRecord)
  /\ s = Nothing <=> e = <<>>
  /\ s # Nothing => s.info = s.server /\ \E d \in 1..Len(e) : e[d].default /\ e[d].enabled
  /\ Control!Indexed(e)

LoginOf(s) == IF s = Nothing THEN 0 ELSE s.login

\* A form o that was sent: which login it replaces, and where a password that nobody
\* typed may go.
FormSound(o) ==
  /\ o \in FormRecord
  /\ o.pc \in {"load", "resolve"} => ~o.retried /\ o.base = Nothing
  /\ o.pc \in {"public", "login"} /\ o.base # Nothing =>
       o.url = IF o.retried THEN EmbyOf[o.base] ELSE o.base
  /\ o.kind # "probe" => o.identity \in Identities
  /\ o.pc \in {"public", "login", "commit"} => o.password \in Secrets
  /\ o.pc \in {"login", "commit"} => o.public \in Servers
  /\ o.pc \in {"resolve", "public", "login", "commit"} /\ o.kind # "probe" =>
       o.old = LoginOf(o.seen[1])
  /\ o.pc = "commit" => o.kind # "probe" /\ o.login # 0

RequestOfSound(o) == o = Control!Idle \/ o \in ProbeRecord \/ o \in OwingRecord \/ FormSound(o)

\* The login a request is to log out when it is over, or to store.
InHand(o) == IF o.pc \in {"commit", "cleanup"} THEN o.login ELSE 0

\* The logins lv that are valid of the n so far: the one of the source s, one in the
\* hands of each request in p at most, and those ls that were given up.
LoginsSound(p, s, lv, ls, n) ==
  /\ n \in Nat /\ lv \subseteq 1..n /\ ls \subseteq lv
  /\ LoginOf(s) # 0 => LoginOf(s) \in lv \ ls
  /\ \A a \in Admins : InHand(p[a]) # 0 => InHand(p[a]) \in lv \ ls /\ InHand(p[a]) # LoginOf(s)
  /\ \A a, b \in Admins : InHand(p[a]) # 0 /\ InHand(p[a]) = InHand(p[b]) => a = b
  /\ \A l \in lv : l = LoginOf(s) \/ l \in ls \/ \E a \in Admins : InHand(p[a]) = l

\* A logout failed, or nobody heard of the login.
GivenUp == lost \cup unheard

\* A password that nobody typed went to its base, or below it after a redirect.
NearHome(out) ==
  \A s \in out : s.to = IF s.redirected THEN EmbyOf[s.base] ELSE s.base

RefreshSound(f) ==
  f # Nothing => f \in Control!RefreshRecord /\ f.info = f.server

ControlInv ==
  /\ StoreOfSound(source, endpoints)
  /\ rules \subseteq Keys /\ saves \in Nat /\ nextId \in Nat
  /\ op \in [Admins -> Requested]
  /\ \A a \in Admins : RequestOfSound(op[a])
  /\ RefreshSound(refresh)
  /\ LoginsSound(op, source, live, GivenUp, logins)
  /\ NearHome(sent)
  /\ stranded = {}

-----------------------------------------------------------------------------
\* The first and the last of a set of places.
LEMMA LeastPlace ==
  ASSUME NEW S \in SUBSET Nat, S # {}
  PROVE  Control!Min(S) \in S
BY LeastNumber DEF Control!Min

\* The endpoint a key leads to is enabled and has the key.
LEMMA KeyLeads ==
  ASSUME NEW k, Control!EnabledByKey(k) # 0
  PROVE  /\ Control!EnabledByKey(k) \in 1..Len(endpoints)
         /\ endpoints[Control!EnabledByKey(k)].enabled
         /\ endpoints[Control!EnabledByKey(k)].key = k
<1> DEFINE I == {i \in 1..Len(endpoints) : endpoints[i].enabled /\ endpoints[i].key = k}
<1>1. Control!EnabledByKey(k) = IF I # {} THEN Control!Min(I) ELSE 0
  BY DEF Control!EnabledByKey, Control!SelectInSeq
<1>2. I # {} /\ Control!EnabledByKey(k) = Control!Min(I)
  BY <1>1
<1>3. I \in SUBSET Nat
  OBVIOUS
<1>4. Control!Min(I) \in I
  BY <1>2, <1>3, LeastPlace
<1> QED BY <1>2, <1>4

\* A store that is sound has one default, and can be loaded.
LEMMA DefaultLeads ==
  ASSUME NEW s, NEW e, StoreOfSound(s, e), s # Nothing
  PROVE  /\ \E d \in 1..Len(e) : /\ {i \in 1..Len(e) : e[i].default} = {d}
                                 /\ e[d].default /\ e[d].enabled
         /\ Control!Valid(e)
<1>1. e \in Seq(EndpointRecord) /\ DOMAIN e = 1..Len(e)
  BY DEF StoreOfSound
<1>2. PICK d \in 1..Len(e) : e[d].default /\ e[d].enabled
  BY DEF StoreOfSound
<1>3. {i \in 1..Len(e) : e[i].default} = {d}
  BY <1>1, <1>2 DEF StoreOfSound, Control!Indexed
<1>4. Cardinality({d}) = 1
  BY FS_Singleton
<1>5. Control!Cardinality({i \in DOMAIN e : e[i].default}) = 1
  <2>1. {i \in DOMAIN e : e[i].default} = {d}
    BY <1>1, <1>3
  <2> HIDE <1>3
  <2> QED BY <1>4, <2>1 DEF Control!Cardinality, Cardinality
<1>6. Control!Valid(e)
  BY <1>1, <1>2, <1>3, <1>5 DEF Control!Valid
<1> QED BY <1>2, <1>3, <1>6

\* The default endpoint is the one row that is the default, and it is enabled.
LEMMA DefaultFacts ==
  ASSUME ControlInv, source # Nothing
  PROVE  /\ Control!DefaultEndpoint \in 1..Len(endpoints)
         /\ endpoints[Control!DefaultEndpoint].default
         /\ endpoints[Control!DefaultEndpoint].enabled
         /\ Control!Valid(endpoints)
<1>1. PICK d \in 1..Len(endpoints) : /\ {i \in 1..Len(endpoints) : endpoints[i].default} = {d}
                                     /\ endpoints[d].default /\ endpoints[d].enabled
  BY DefaultLeads DEF ControlInv
<1>2. Control!DefaultEndpoint = Control!Max({d})
  BY <1>1 DEF Control!DefaultEndpoint, Control!SelectLastInSeq
<1>3. Control!Max({d}) = d
  BY DEF Control!Max
<1>4. Control!Valid(endpoints)
  BY DefaultLeads DEF ControlInv
<1> QED BY <1>1, <1>2, <1>3, <1>4

-----------------------------------------------------------------------------
\* The types that follow from the invariant.
LEMMA ControlFacts ==
  ASSUME ControlInv
  PROVE  /\ source \in Control!SourceRecord \cup {Nothing} /\ endpoints \in Seq(EndpointRecord)
         /\ Len(endpoints) \in Nat /\ DOMAIN endpoints = 1..Len(endpoints)
         /\ op \in [Admins -> Requested]
         /\ saves \in Nat /\ nextId \in Nat /\ logins \in Nat
BY DEF ControlInv, StoreOfSound, LoginsSound

\* A form is known by its pc.
LEMMA FormFacts ==
  ASSUME ControlInv, NEW a \in Admins, op[a].pc \notin {"idle", "websocket", "cleanup"}
  PROVE  FormSound(op[a]) /\ op[a] \in FormRecord
<1>1. RequestOfSound(op[a])
  BY DEF ControlInv
<1>2. op[a] # Control!Idle /\ op[a] \notin ProbeRecord /\ op[a] \notin OwingRecord
  BY DEF Control!Idle, ProbeRecord, OwingRecord
<1> QED BY <1>1, <1>2 DEF RequestOfSound, FormSound

\* Hands that hold what they held.
LEMMA LoginsStay ==
  ASSUME ControlInv, NEW p, \A a \in Admins : InHand(p[a]) = InHand(op[a])
  PROVE  LoginsSound(p, source, live, GivenUp, logins)
BY DEF ControlInv, LoginsSound

\* A request of administrator a becomes o, which holds the login it held.
LEMMA OpChange ==
  ASSUME ControlInv, NEW a \in Admins, NEW o, op' = [op EXCEPT ![a] = o],
         RequestOfSound(o), InHand(o) = InHand(op[a]),
         o \in Requested,
         UNCHANGED <<source, endpoints, rules, saves, nextId, refresh, logins, live, lost, stranded,
                   unheard>>,
         NearHome(sent')
  PROVE  ControlInv'
<1>1. op' \in [Admins -> Requested]
  BY ControlFacts
<1>2. \A b \in Admins : op'[b] = IF b = a THEN o ELSE op[b]
  BY ControlFacts
<1>3. \A b \in Admins : RequestOfSound(op'[b])
  BY <1>2 DEF ControlInv
<1>4. \A b \in Admins : InHand(op'[b]) = InHand(op[b])
  BY <1>2
<1>5. LoginsSound(op', source, live, GivenUp, logins)
  BY <1>4, LoginsStay
<1>6. StoreOfSound(source', endpoints') /\ RefreshSound(refresh')
  BY DEF ControlInv
<1> QED BY <1>1, <1>3, <1>5, <1>6 DEF ControlInv, GivenUp

\* No request at all.
LEMMA IdleSound ==
  /\ RequestOfSound(Control!Idle) /\ InHand(Control!Idle) = 0
  /\ Control!Idle \in Requested
  /\ Control!Idle.pc = "idle"
BY DEF RequestOfSound, Control!Idle, InHand, Requested

\* A request with a login to log out.
LEMMA OwingSound ==
  ASSUME NEW l \in Nat
  PROVE  /\ RequestOfSound(Control!Owing(l)) /\ InHand(Control!Owing(l)) = l
         /\ Control!Owing(l) \in Requested
BY DEF RequestOfSound, OwingRecord, Control!Owing, InHand, Requested

\* A login that nobody heard of, or one that replaces the stored one.
LEMMA LoginGivenUp ==
  ASSUME NEW p, NEW s, NEW lv, NEW ls, NEW n, LoginsSound(p, s, lv, ls, n)
  PROVE  LoginsSound(p, s, lv \cup {n + 1}, ls \cup {n + 1}, n + 1)
<1>1. n \in Nat /\ lv \subseteq 1..n /\ ls \subseteq lv
  BY DEF LoginsSound
<1>2. n + 1 \notin lv /\ n + 1 \in Nat /\ lv \cup {n + 1} \subseteq 1..(n + 1)
  BY <1>1
<1> QED BY <1>1, <1>2 DEF LoginsSound

LEMMA LoginReplaced ==
  ASSUME NEW p, NEW s, NEW lv, NEW ls, NEW n, LoginsSound(p, s, lv, ls, n),
         NEW t, LoginOf(t) = n + 1, NEW lw, NEW lt,
         \/ lw = (lv \ {LoginOf(s)}) \cup {n + 1} /\ lt = ls
         \/ lw = lv \cup {n + 1} /\ lt = ls \cup {LoginOf(s)} /\ LoginOf(s) # 0
  PROVE  LoginsSound(p, t, lw, lt, n + 1)
<1>1. /\ n \in Nat /\ lv \subseteq 1..n /\ ls \subseteq lv
      /\ LoginOf(s) # 0 => LoginOf(s) \in lv \ ls
  BY DEF LoginsSound
<1>2. n + 1 \notin lv /\ n + 1 \in Nat /\ lv \cup {n + 1} \subseteq 1..(n + 1)
      /\ LoginOf(s) # n + 1 /\ 0 \notin lv
  BY <1>1
<1>3. lw \subseteq 1..(n + 1) /\ lt \subseteq lw /\ n + 1 \in lw \ lt
  BY <1>1, <1>2
<1>4. ASSUME NEW a \in Admins, InHand(p[a]) # 0
      PROVE  InHand(p[a]) \in lw \ lt /\ InHand(p[a]) # n + 1
  <2>1. InHand(p[a]) \in lv \ ls /\ InHand(p[a]) # LoginOf(s)
    BY <1>4 DEF LoginsSound
  <2> QED BY <1>2, <2>1
<1>5. ASSUME NEW l \in lw PROVE l = n + 1 \/ l \in lt \/ \E a \in Admins : InHand(p[a]) = l
  <2>1. l \in lv => l = LoginOf(s) \/ l \in ls \/ \E a \in Admins : InHand(p[a]) = l
    BY DEF LoginsSound
  <2> QED BY <1>5, <2>1
<1>6. \A a, b \in Admins : InHand(p[a]) # 0 /\ InHand(p[a]) = InHand(p[b]) => a = b
  BY DEF LoginsSound
<1> QED BY <1>2, <1>3, <1>4, <1>5, <1>6 DEF LoginsSound

\* A form that holds no login goes on, or is over.
LEMMA FormGoesOn ==
  ASSUME ControlInv, NEW a \in Admins, NEW o, op' = [op EXCEPT ![a] = o],
         op[a].pc \in {"idle", "load", "resolve", "public"},
         \/ o = Control!Idle
         \/ FormSound(o) /\ o.pc \in {"load", "resolve", "public", "login"},
         UNCHANGED <<source, endpoints, rules, saves, nextId, refresh, logins, live, lost, stranded,
                   unheard>>,
         sent' = sent
  PROVE  ControlInv'
<1>1. InHand(op[a]) = 0 /\ InHand(o) = 0
  BY IdleSound DEF InHand
<1>2. RequestOfSound(o) /\ o \in Requested
  BY IdleSound DEF RequestOfSound, FormSound, Requested
<1>3. NearHome(sent')
  BY DEF ControlInv
<1> QED BY <1>1, <1>2, <1>3, OpChange

\* An administrator asks: with a password or without.
LEMMA StepAsk ==
  ASSUME Control!Assumption, ControlInv, NEW a \in Admins,
         NEW kind \in {"setup", "reconfigure", "probe"}, NEW url \in Urls,
         NEW identity \in Identities, NEW password \in {Nothing, "new"},
         Control!Ask(a, kind, url, identity, password)
  PROVE  ControlInv'
<1> DEFINE o == [pc |-> IF kind = "probe" THEN "resolve" ELSE "load", kind |-> kind, url |-> url,
                identity |-> IF kind = "probe" THEN Nothing ELSE identity, password |-> password,
                seen |-> Nothing, expected |-> Nothing, public |-> Nothing, retried |-> FALSE,
                noop |-> FALSE, login |-> 0, old |-> 0, base |-> Nothing]
<1>1. op' = [op EXCEPT ![a] = o] /\ op[a].pc = "idle"
  BY IdleSound DEF Control!Ask, Control!Become
<1>2. o \in FormRecord
  BY DEF FormRecord, Secrets
<1>3. FormSound(o) /\ o.pc \in {"load", "resolve"}
  BY <1>2 DEF FormSound
<1>4. /\ UNCHANGED <<source, endpoints, rules, saves, nextId, refresh, logins, live, lost, stranded,
                   unheard>>
      /\ sent' = sent
  BY DEF Control!Ask, Control!stored, Control!upstream, Control!ghosts
<1> HIDE DEF o
<1> QED BY <1>1, <1>3, <1>4, FormGoesOn

\* ReconfigureUpstream's first look at the store: the login it sees is the one to retire.
LEMMA StepLoadForm ==
  ASSUME Control!Assumption, ControlInv, NEW a \in Admins, Control!Load(a)
  PROVE  ControlInv'
<1> DEFINE o == [op[a] EXCEPT !.pc = "resolve", !.seen = Control!Fingerprint,
                       !.expected = IF source = Nothing THEN Nothing ELSE source.server,
                       !.old = IF source = Nothing THEN 0 ELSE source.login]
<1>0. op[a].pc = "load"
  BY DEF Control!Load
<1>1. FormSound(op[a]) /\ op[a] \in FormRecord
  BY <1>0, FormFacts
<1>2. op' = [op EXCEPT ![a] = o] \/ op' = [op EXCEPT ![a] = Control!Idle]
  BY DEF Control!Load, Control!Become
<1>3. Control!Fingerprint \in Seen /\ Control!Fingerprint[1] = source
  BY ControlFacts DEF Control!Fingerprint, Seen
<1>4. source # Nothing => source.server \in Servers /\ source.login \in Nat
  BY ControlFacts DEF Control!SourceRecord
<1>5. o \in FormRecord
  BY <1>1, <1>3, <1>4 DEF FormRecord
<1>6. FormSound(o) /\ o.pc = "resolve"
  BY <1>0, <1>1, <1>3, <1>4, <1>5 DEF FormSound, FormRecord, LoginOf
<1>7. /\ UNCHANGED <<source, endpoints, rules, saves, nextId, refresh, logins, live, lost, stranded,
                   unheard>>
      /\ sent' = sent
  BY DEF Control!Load, Control!stored, Control!upstream, Control!ghosts
<1> HIDE DEF o
<1> QED BY <1>0, <1>2, <1>6, <1>7, FormGoesOn

\* The password is resolved by a look of its own: the stored one goes with the base.
LEMMA StepResolveForm ==
  ASSUME Control!Assumption, ControlInv, NEW a \in Admins, Control!Resolve(a)
  PROVE  ControlInv'
<1> DEFINE p == Control!Resolved(op[a].password, op[a].url)
           seenSource == IF op[a].seen = Nothing THEN Nothing ELSE op[a].seen[1]
           same == /\ seenSource # Nothing
                   /\ seenSource.password = p /\ seenSource.identity = op[a].identity
                   /\ seenSource.login # 0
                   /\ \E i \in DOMAIN op[a].seen[2] :
                        op[a].seen[2][i].default /\ op[a].seen[2][i].url = op[a].url
           base == IF op[a].password = Nothing THEN endpoints[Control!DefaultEndpoint].url
                                               ELSE Nothing
           o == [op[a] EXCEPT !.pc = "public", !.password = p, !.noop = same, !.base = base]
<1>0. op[a].pc = "resolve"
  BY DEF Control!Resolve
<1>1. FormSound(op[a]) /\ op[a] \in FormRecord
  BY <1>0, FormFacts
<1>2. IF p = Nothing THEN op' = [op EXCEPT ![a] = Control!Idle] ELSE op' = [op EXCEPT ![a] = o]
  BY DEF Control!Resolve, Control!Become
<1>3. same \in BOOLEAN
  BY Zenon
<1>4. op[a].password \in Secrets \cup {Nothing} /\ op[a].url \in Urls
  BY <1>1 DEF FormRecord
<1>5. Nothing \notin Urls /\ Nothing \notin Secrets
  BY DEF Control!Assumption, Secrets
<1>6. ASSUME p # Nothing PROVE p \in Secrets /\ base \in {Nothing, op[a].url}
  <2>1. CASE op[a].password # Nothing
    BY <1>4, <2>1 DEF Control!Resolved
  <2>2. CASE op[a].password = Nothing
    <3>1. source # Nothing /\ p = source.password
          /\ endpoints[Control!DefaultEndpoint].url = op[a].url
      BY <1>6, <2>2 DEF Control!Resolved
    <3>2. source.password \in Secrets
      BY <3>1, ControlFacts DEF Control!SourceRecord, Secrets
    <3> QED BY <2>2, <3>1, <3>2
  <2> QED BY <2>1, <2>2
<1>7. /\ UNCHANGED <<source, endpoints, rules, saves, nextId, refresh, logins, live, lost, stranded,
                   unheard>>
      /\ sent' = sent
  BY DEF Control!Resolve, Control!stored, Control!upstream, Control!ghosts
<1> HIDE DEF p, same, base
<1>8. ASSUME p # Nothing PROVE FormSound(o) /\ o.pc = "public"
  <2>1. o \in FormRecord
    BY <1>1, <1>3, <1>4, <1>6, <1>8 DEF FormRecord
  <2>2. /\ o.pc = "public" /\ o.url = op[a].url /\ o.base = base /\ o.password = p
        /\ o.kind = op[a].kind /\ o.old = op[a].old /\ o.seen = op[a].seen
        /\ o.identity = op[a].identity /\ o.retried = op[a].retried
    BY <1>1 DEF FormRecord
  <2> HIDE DEF o
  <2> QED BY <1>0, <1>1, <1>6, <1>8, <2>1, <2>2 DEF FormSound
<1> HIDE DEF o
<1> QED BY <1>0, <1>2, <1>7, <1>8, FormGoesOn

\* The public particulars are asked for, at the base and once below it.
LEMMA StepPublicForm ==
  ASSUME Control!Assumption, ControlInv, NEW a \in Admins, NEW answer \in Control!Answers,
         Control!Public(a, answer)
  PROVE  ControlInv'
<1> DEFINE below == [op[a] EXCEPT !.url = EmbyOf[op[a].url], !.retried = TRUE]
           found == [op[a] EXCEPT !.pc = "login", !.public = answer]
<1>0. op[a].pc = "public"
  BY DEF Control!Public
<1>1. FormSound(op[a]) /\ op[a] \in FormRecord
  BY <1>0, FormFacts
<1>2. \/ op' = [op EXCEPT ![a] = Control!Idle]
      \/ op' = [op EXCEPT ![a] = below] /\ ~op[a].retried /\ EmbyOf[op[a].url] # Nothing
      \/ op' = [op EXCEPT ![a] = found] /\ answer \in Servers
  BY DEF Control!Public, Control!Become
<1>3. /\ UNCHANGED <<source, endpoints, rules, saves, nextId, refresh, logins, live, lost, stranded,
                   unheard>>
      /\ sent' = sent
  BY DEF Control!Public, Control!stored, Control!upstream, Control!ghosts
<1>4. ASSUME ~op[a].retried, EmbyOf[op[a].url] # Nothing
      PROVE  FormSound(below) /\ below.pc = "public"
  <2>1. op[a].url \in Urls /\ EmbyOf[op[a].url] \in Urls
    BY <1>1, <1>4 DEF FormRecord, Control!Assumption
  <2>2. below \in FormRecord
    BY <1>1, <2>1 DEF FormRecord
  <2>3. /\ below.pc = "public" /\ below.url = EmbyOf[op[a].url] /\ below.base = op[a].base
        /\ below.retried /\ below.password = op[a].password
        /\ below.identity = op[a].identity
        /\ below.kind = op[a].kind /\ below.old = op[a].old /\ below.seen = op[a].seen
    BY <1>0, <1>1 DEF FormRecord
  <2> HIDE DEF below
  <2> QED BY <1>0, <1>1, <1>4, <2>2, <2>3 DEF FormSound
<1>5. ASSUME answer \in Servers PROVE FormSound(found) /\ found.pc = "login"
  <2>1. found \in FormRecord
    BY <1>1, <1>5 DEF FormRecord
  <2>2. /\ found.pc = "login" /\ found.url = op[a].url /\ found.base = op[a].base
        /\ found.retried = op[a].retried /\ found.password = op[a].password
        /\ found.public = answer /\ found.identity = op[a].identity
        /\ found.kind = op[a].kind /\ found.old = op[a].old /\ found.seen = op[a].seen
    BY <1>1 DEF FormRecord
  <2> HIDE DEF found
  <2> QED BY <1>0, <1>1, <1>5, <2>1, <2>2 DEF FormSound
<1> HIDE DEF below, found
<1> QED BY <1>0, <1>2, <1>3, <1>4, <1>5, FormGoesOn

\* A request of administrator a becomes o, whatever it holds by then.
LEMMA OpTypes ==
  ASSUME ControlInv, NEW a \in Admins, NEW o, op' = [op EXCEPT ![a] = o], RequestOfSound(o),
         o \in Requested
  PROVE  /\ op' \in [Admins -> Requested]
         /\ \A b \in Admins : RequestOfSound(op'[b])
         /\ \A b \in Admins : op'[b] = IF b = a THEN o ELSE op[b]
<1>1. op' \in [Admins -> Requested]
  BY ControlFacts
<1>2. \A b \in Admins : op'[b] = IF b = a THEN o ELSE op[b]
  BY ControlFacts
<1> QED BY <1>1, <1>2 DEF ControlInv

\* The password goes out, to the base or below it; the new login is in the form's hands,
\* or nobody hears of it.
LEMMA PasswordGoesOut ==
  ASSUME ControlInv, NEW a \in Admins, op[a].pc = "login", sent' = Control!Sent(op[a])
  PROVE  NearHome(sent')
<1>1. FormSound(op[a]) /\ op[a] \in FormRecord
  BY FormFacts
<1> DEFINE s == [to |-> op[a].url, base |-> op[a].base, redirected |-> op[a].retried]
<1>2. sent' = IF op[a].base = Nothing THEN sent ELSE sent \cup {s}
  BY DEF Control!Sent
<1>3. s.to = op[a].url /\ s.base = op[a].base /\ s.redirected = op[a].retried
  OBVIOUS
<1>4. op[a].base # Nothing => op[a].url = IF op[a].retried THEN EmbyOf[op[a].base] ELSE op[a].base
  BY <1>1 DEF FormSound
<1>5. NearHome(sent)
  BY DEF ControlInv
<1> HIDE DEF s
<1> QED BY <1>2, <1>3, <1>4, <1>5 DEF NearHome

LEMMA StepLoginForm ==
  ASSUME Control!Assumption, ControlInv, NEW a \in Admins,
         NEW answer \in Servers \cup {"refused"}, NEW complete \in BOOLEAN,
         Control!Login(a, answer, complete)
  PROVE  ControlInv'
<1> DEFINE kept == answer = op[a].public /\ complete /\ op[a].kind # "probe"
           form == [op[a] EXCEPT !.pc = "commit", !.login = logins + 1]
           o == IF kept THEN form ELSE Control!Owing(logins + 1)
<1>0. op[a].pc = "login" /\ sent' = Control!Sent(op[a])
  BY DEF Control!Login
<1>1. FormSound(op[a]) /\ op[a] \in FormRecord
  BY <1>0, FormFacts
<1>2. NearHome(sent')
  BY <1>0, PasswordGoesOut
<1>3. UNCHANGED <<source, endpoints, rules, saves, nextId, refresh, lost, stranded, unheard>>
  BY DEF Control!Login, Control!stored
<1>4. InHand(op[a]) = 0
  BY <1>0 DEF InHand
<1>5. CASE answer = "refused"
  <2>1. op' = [op EXCEPT ![a] = Control!Idle] /\ UNCHANGED <<logins, live>>
    BY <1>5 DEF Control!Login, Control!Become, Control!upstream
  <2> QED BY <1>2, <1>3, <1>4, <2>1, IdleSound, OpChange
<1>6. CASE answer # "refused"
  <2>1. op' = [op EXCEPT ![a] = o] /\ logins' = logins + 1 /\ live' = live \cup {logins + 1}
    BY <1>6 DEF Control!Login, Control!Become
  <2>2. logins \in Nat /\ logins + 1 # 0 /\ logins + 1 \in Nat
    BY ControlFacts
  <2>3. RequestOfSound(o) /\ o \in Requested /\ InHand(o) = logins + 1
    <3>1. CASE kept
      <4>1. form \in FormRecord
        BY <1>1, <2>2 DEF FormRecord
      <4>2. /\ form.pc = "commit" /\ form.login = logins + 1 /\ form.public = op[a].public
            /\ form.password = op[a].password /\ form.identity = op[a].identity
            /\ form.kind = op[a].kind /\ form.old = op[a].old /\ form.seen = op[a].seen
        BY <1>1 DEF FormRecord
      <4>3. op[a].kind # "probe" /\ o = form
        BY <3>1
      <4> HIDE DEF form, o
      <4>4. FormSound(form)
        BY <1>0, <1>1, <2>2, <4>1, <4>2, <4>3 DEF FormSound
      <4> QED BY <4>1, <4>2, <4>3, <4>4 DEF RequestOfSound, InHand, Requested
    <3>2. CASE ~kept
      BY <3>2, <2>2, OwingSound
    <3> QED BY <3>1, <3>2
  <2> HIDE DEF kept, form, o
  <2>4. /\ op' \in [Admins -> Requested]
        /\ \A b \in Admins : RequestOfSound(op'[b])
        /\ \A b \in Admins : op'[b] = IF b = a THEN o ELSE op[b]
    BY <2>1, <2>3, OpTypes
  <2>5. /\ InHand(op'[a]) = logins + 1
        /\ \A b \in Admins \ {a} : InHand(op'[b]) = InHand(op[b])
    BY <2>3, <2>4
  <2>6. LoginsSound(op', source, live', GivenUp, logins')
    <3>1. LoginsSound(op, source, live, GivenUp, logins)
      BY DEF ControlInv
    <3>2. logins + 1 \notin live /\ live' \subseteq 1..(logins + 1) /\ LoginOf(source) # logins + 1
      BY <2>1, <2>2, <3>1 DEF LoginsSound
    <3>3. \A l \in live' : \/ l = LoginOf(source) \/ l \in GivenUp
                            \/ \E b \in Admins : InHand(op'[b]) = l
      BY <1>4, <2>1, <2>2, <2>5, <3>1 DEF LoginsSound
    <3>4. \A b \in Admins : InHand(op'[b]) # 0 =>
            InHand(op'[b]) \in live' \ GivenUp /\ InHand(op'[b]) # LoginOf(source)
      BY <2>1, <2>5, <3>1, <3>2 DEF LoginsSound
    <3>5. \A b, c \in Admins : InHand(op'[b]) # 0 /\ InHand(op'[b]) = InHand(op'[c]) => b = c
      BY <2>5, <3>1, <3>2 DEF LoginsSound
    <3> QED BY <2>1, <2>2, <3>1, <3>2, <3>3, <3>4, <3>5 DEF LoginsSound
  <2>7. /\ StoreOfSound(source', endpoints') /\ RefreshSound(refresh') /\ GivenUp' = GivenUp
        /\ rules \subseteq Keys /\ saves \in Nat /\ nextId \in Nat /\ stranded = {}
    BY <1>3 DEF ControlInv, GivenUp
  <2> QED BY <1>2, <1>3, <2>4, <2>6, <2>7 DEF ControlInv
<1> QED BY <1>5, <1>6

LEMMA StepUnheardForm ==
  ASSUME Control!Assumption, ControlInv, NEW a \in Admins, Control!LoginUnheard(a)
  PROVE  ControlInv'
<1>1. /\ op[a].pc = "login" /\ sent' = Control!Sent(op[a]) /\ op' = [op EXCEPT ![a] = Control!Idle]
      /\ logins' = logins + 1 /\ live' = live \cup {logins + 1}
      /\ unheard' = unheard \cup {logins + 1}
      /\ UNCHANGED <<source, endpoints, rules, saves, nextId, refresh, lost, stranded>>
  BY DEF Control!LoginUnheard, Control!stored, Control!Become
<1>2. /\ op' \in [Admins -> Requested]
      /\ \A b \in Admins : RequestOfSound(op'[b])
      /\ \A b \in Admins : op'[b] = IF b = a THEN Control!Idle ELSE op[b]
  BY <1>1, IdleSound, OpTypes
<1>3. \A b \in Admins : InHand(op'[b]) = InHand(op[b])
  BY <1>1, <1>2, IdleSound DEF InHand
<1>4. LoginsSound(op', source, live, GivenUp, logins)
  BY <1>3, LoginsStay
<1>5. GivenUp' = GivenUp \cup {logins + 1}
  BY <1>1 DEF GivenUp
<1>6. LoginsSound(op', source', live', GivenUp', logins')
  BY <1>1, <1>4, <1>5, LoginGivenUp
<1>7. NearHome(sent')
  BY <1>1, PasswordGoesOut
<1> QED BY <1>1, <1>2, <1>6, <1>7 DEF ControlInv

\* The transaction of ReconfigureUpstream: the form's login is stored and the one that
\* was stored is the form's to retire; or nothing is stored.
LEMMA StepCommitForm ==
  ASSUME Control!Assumption, ControlInv, NEW a \in Admins, NEW inTime \in BOOLEAN,
         Control!Commit(a, inTime)
  PROVE  ControlInv'
<1> DEFINE moved == Control!Moved(op[a].url)
           new == [server |-> op[a].public, info |-> op[a].public, checked |-> 0,
                   identity |-> op[a].identity, password |-> op[a].password,
                   login |-> op[a].login]
           kept == Control!Owing(op[a].login)
           o == Control!Owing(op[a].old)
<1>0. op[a].pc = "commit"
  BY DEF Control!Commit
<1>1. FormSound(op[a]) /\ op[a] \in FormRecord
  BY <1>0, FormFacts
<1>2. UNCHANGED <<rules, refresh, logins, live, sent, lost, stranded, unheard, unheard>>
  BY DEF Control!Commit, Control!upstream, Control!ghosts
<1>3. \/ /\ op[a].seen = Control!Fingerprint /\ Control!Indexed(moved)
         /\ source' = new /\ endpoints' = moved /\ saves' = saves + 1
         /\ nextId' = IF source = Nothing THEN nextId + 1 ELSE nextId
         /\ op' = [op EXCEPT ![a] = o]
      \/ op' = [op EXCEPT ![a] = kept] /\ UNCHANGED <<source, endpoints, saves, nextId>>
  BY DEF Control!Commit, Control!Become, Control!Undisturbed
<1>4. op[a].password \in Secrets /\ op[a].public \in Servers /\ op[a].kind # "probe"
      /\ op[a].login # 0 /\ op[a].login \in Nat /\ op[a].old \in Nat /\ op[a].url \in Urls
      /\ op[a].old = LoginOf(op[a].seen[1]) /\ op[a].identity \in Identities
  BY <1>0, <1>1 DEF FormSound, FormRecord
<1>5. InHand(op[a]) = op[a].login
  BY <1>0 DEF InHand
<1>6. CASE op' = [op EXCEPT ![a] = kept] /\ UNCHANGED <<source, endpoints, saves, nextId>>
  <2>1. RequestOfSound(kept) /\ InHand(kept) = op[a].login /\ kept \in Requested
    BY <1>4, OwingSound
  <2> HIDE DEF kept
  <2>2. NearHome(sent')
    BY <1>2 DEF ControlInv
  <2> QED BY <1>2, <1>5, <1>6, <2>1, <2>2, OpChange
<1>7. CASE /\ op[a].seen = Control!Fingerprint /\ Control!Indexed(moved)
           /\ source' = new /\ endpoints' = moved /\ saves' = saves + 1
           /\ nextId' = IF source = Nothing THEN nextId + 1 ELSE nextId
           /\ op' = [op EXCEPT ![a] = o]
  <2>3. RequestOfSound(o) /\ InHand(o) = op[a].old /\ o \in Requested
    BY <1>4, OwingSound
  <2> HIDE DEF o
  <2>4. /\ op' \in [Admins -> Requested]
        /\ \A b \in Admins : RequestOfSound(op'[b])
        /\ \A b \in Admins : op'[b] = IF b = a THEN o ELSE op[b]
    BY <1>7, <2>3, OpTypes
  <2>5. op[a].old = LoginOf(source)
    BY <1>4, <1>7 DEF Control!Fingerprint
  <2>6. new \in Control!SourceRecord /\ new # Nothing /\ new.login = op[a].login /\ new.info = new.server
    BY <1>4 DEF Control!SourceRecord, Control!Assumption, Secrets
  <2>7. StoreOfSound(source', endpoints')
    <3>1. /\ source \in Control!SourceRecord \cup {Nothing} /\ endpoints \in Seq(EndpointRecord)
          /\ saves \in Nat /\ nextId \in Nat
      BY ControlFacts
    <3>2. CASE source = Nothing
      <4>1. Control!NewEndpoint(nextId, Primary, op[a].url) \in EndpointRecord
        BY <1>4, <3>1 DEF Control!NewEndpoint, EndpointRecord, Control!Assumption
      <4>2. /\ Control!NewEndpoint(nextId, Primary, op[a].url).default
            /\ Control!NewEndpoint(nextId, Primary, op[a].url).enabled
        BY DEF Control!NewEndpoint
      <4>3. moved = <<Control!NewEndpoint(nextId, Primary, op[a].url)>>
        BY <3>2 DEF Control!Moved
      <4> HIDE DEF moved, new
      <4>4. moved \in Seq(EndpointRecord) /\ moved # <<>> /\ Len(moved) = 1
            /\ moved[1].default /\ moved[1].enabled
        BY <4>1, <4>2, <4>3
      <4> QED BY <1>7, <2>6, <4>4 DEF StoreOfSound
    <3>3. CASE source # Nothing
      <4>1. /\ Control!DefaultEndpoint \in 1..Len(endpoints)
            /\ endpoints[Control!DefaultEndpoint].default
            /\ endpoints[Control!DefaultEndpoint].enabled
        BY <3>3, DefaultFacts
      <4> DEFINE d == Control!DefaultEndpoint
                 entry == [endpoints[d] EXCEPT !.url = op[a].url]
      <4>2. endpoints[d] \in EndpointRecord
        BY <3>1, <4>1
      <4>3. entry \in EndpointRecord /\ entry.default /\ entry.enabled
        BY <1>4, <4>1, <4>2 DEF EndpointRecord
      <4>4. moved = [endpoints EXCEPT ![d] = entry]
        BY <3>3 DEF Control!Moved
      <4> HIDE DEF moved, new, d, entry
      <4>5. d \in 1..Len(endpoints)
        BY <4>1 DEF d
      <4>6. moved \in Seq(EndpointRecord) /\ Len(moved) = Len(endpoints) /\ moved[d] = entry
        BY <3>1, <4>3, <4>4, <4>5
      <4>7. moved # <<>>
        BY <4>5, <4>6
      <4> QED BY <1>7, <2>6, <4>3, <4>5, <4>6, <4>7 DEF StoreOfSound
    <3> QED BY <3>2, <3>3
  <2> HIDE DEF new, moved
  <2>8. LoginsSound(op', source', live, GivenUp, logins)
    <3>1. LoginsSound(op, source, live, GivenUp, logins)
      BY DEF ControlInv
    <3>2. /\ InHand(op'[a]) = LoginOf(source) /\ LoginOf(source') = InHand(op[a])
      BY <1>5, <1>7, <2>3, <2>4, <2>5, <2>6 DEF LoginOf
    <3>3. \A b \in Admins \ {a} : InHand(op'[b]) = InHand(op[b])
      BY <2>4
    <3>4. InHand(op[a]) # 0 /\ InHand(op[a]) \in live \ GivenUp /\ InHand(op[a]) # LoginOf(source)
      BY <1>4, <1>5, <3>1 DEF LoginsSound
    <3>5. LoginOf(source) # 0 => LoginOf(source) \in live \ GivenUp
      BY <3>1 DEF LoginsSound
    <3>6. \A b \in Admins : InHand(op'[b]) # 0 =>
            InHand(op'[b]) \in live \ GivenUp /\ InHand(op'[b]) # LoginOf(source')
      BY <3>1, <3>2, <3>3, <3>4, <3>5 DEF LoginsSound
    <3>7. \A b, c \in Admins : InHand(op'[b]) # 0 /\ InHand(op'[b]) = InHand(op'[c]) => b = c
      BY <3>1, <3>2, <3>3 DEF LoginsSound
    <3>8. \A l \in live : \/ l = LoginOf(source') \/ l \in GivenUp
                           \/ \E b \in Admins : InHand(op'[b]) = l
      <4> TAKE l \in live
      <4>1. l = LoginOf(source) \/ l \in GivenUp \/ \E b \in Admins : InHand(op[b]) = l
        BY <3>1 DEF LoginsSound
      <4> QED BY <3>2, <3>3, <4>1
    <3> QED BY <3>1, <3>2, <3>4, <3>6, <3>7, <3>8 DEF LoginsSound
  <2>9. saves' \in Nat /\ nextId' \in Nat
    BY <1>7, ControlFacts
  <2>10. rules \subseteq Keys /\ RefreshSound(refresh) /\ stranded = {}
         /\ NearHome(sent) /\ GivenUp' = GivenUp
    BY <1>2 DEF ControlInv, GivenUp
  <2> QED BY <1>2, <2>4, <2>7, <2>8, <2>9, <2>10 DEF ControlInv
<1> QED BY <1>3, <1>6, <1>7

\* The login in hand is logged out upstream, or the logout fails.
LEMMA StepFinishForm ==
  ASSUME Control!Assumption, ControlInv, NEW a \in Admins, NEW works \in BOOLEAN,
         Control!Finish(a, works)
  PROVE  ControlInv'
<1> DEFINE l == InHand(op[a])
<1>0. op[a].pc = "cleanup"
  BY DEF Control!Finish
<1>1. l = op[a].login
  BY <1>0 DEF InHand
<1>2. /\ op' = [op EXCEPT ![a] = Control!Idle] /\ Control!LogOut(l, works)
      /\ UNCHANGED <<source, endpoints, rules, saves, nextId, refresh, logins, sent, stranded,
                     unheard>>
  BY <1>1 DEF Control!Finish, Control!stored, Control!Become
<1> HIDE DEF l
<1>3. LoginsSound(op, source, live, GivenUp, logins)
  BY DEF ControlInv
<1>4. /\ op' \in [Admins -> Requested]
      /\ \A b \in Admins : RequestOfSound(op'[b])
      /\ \A b \in Admins : op'[b] = IF b = a THEN Control!Idle ELSE op[b]
  BY <1>2, IdleSound, OpTypes
<1>5. InHand(op'[a]) = 0 /\ \A b \in Admins \ {a} : InHand(op'[b]) = InHand(op[b])
  BY <1>4, IdleSound
<1>6. LoginsSound(op', source, live', GivenUp', logins)
  <2>1. CASE l = 0
    <3>1. live' = live /\ GivenUp' = GivenUp
      BY <1>2, <2>1 DEF Control!LogOut, GivenUp
    <3>2. InHand(op[a]) = 0
      BY <2>1 DEF l
    <3>3. \A b \in Admins : InHand(op'[b]) = InHand(op[b])
      BY <1>5, <3>2
    <3> QED BY <1>3, <3>1, <3>3 DEF LoginsSound
  <2>2. CASE l # 0
    <3>1. /\ l = InHand(op[a]) /\ l \in live \ GivenUp /\ l # LoginOf(source)
          /\ \A b \in Admins \ {a} : InHand(op'[b]) # l
      BY <1>3, <1>5, <2>2 DEF LoginsSound, l
    <3>2. source # Nothing => source.login # l
      BY <3>1 DEF LoginOf
    <3>3. \/ live' = live \ {l} /\ GivenUp' = GivenUp
          \/ live' = live /\ GivenUp' = GivenUp \cup {l}
      BY <1>2, <2>2, <3>2 DEF Control!LogOut, GivenUp
    <3>4. \A b \in Admins : InHand(op'[b]) # 0 =>
            InHand(op'[b]) \in live' \ GivenUp' /\ InHand(op'[b]) # LoginOf(source)
      BY <1>3, <1>5, <3>1, <3>3 DEF LoginsSound
    <3>5. \A b, c \in Admins : InHand(op'[b]) # 0 /\ InHand(op'[b]) = InHand(op'[c]) => b = c
      BY <1>3, <1>5 DEF LoginsSound
    <3>6. \A m \in live' : \/ m = LoginOf(source) \/ m \in GivenUp'
                            \/ \E b \in Admins : InHand(op'[b]) = m
      <4> TAKE m \in live'
      <4>1. m \in live /\ (m = l => m \in GivenUp')
        BY <3>1, <3>3
      <4>2. m = LoginOf(source) \/ m \in GivenUp \/ \E b \in Admins : InHand(op[b]) = m
        BY <1>3, <4>1 DEF LoginsSound
      <4> QED BY <1>5, <3>1, <3>3, <4>1, <4>2
    <3>7. /\ logins \in Nat /\ live' \subseteq 1..logins /\ GivenUp' \subseteq live'
          /\ LoginOf(source) # 0 => LoginOf(source) \in live' \ GivenUp'
      BY <1>3, <3>1, <3>3 DEF LoginsSound
    <3> QED BY <3>4, <3>5, <3>6, <3>7 DEF LoginsSound
  <2> QED BY <2>1, <2>2
<1>7. /\ StoreOfSound(source, endpoints) /\ rules \subseteq Keys /\ RefreshSound(refresh)
      /\ stranded = {} /\ saves \in Nat /\ nextId \in Nat
      /\ NearHome(sent)
  BY ControlFacts DEF ControlInv
<1> QED BY <1>2, <1>4, <1>6, <1>7 DEF ControlInv

-----------------------------------------------------------------------------
\* Rows that replace the endpoints: a sound store that strands no rule.
LEMMA EndpointsChange ==
  ASSUME ControlInv, NEW new, StoreOfSound(source, new), Control!Cut(new) = {},
         Control!SaveEndpoints(new), nextId' \in Nat
  PROVE  ControlInv'
<1>1. /\ endpoints' = new /\ saves' = saves + 1 /\ stranded' = stranded \cup Control!Cut(new)
      /\ UNCHANGED <<source, rules, op, refresh, logins, live, sent, lost, unheard>>
  BY DEF Control!SaveEndpoints, Control!upstream
<1>2. StoreOfSound(source', endpoints') /\ stranded' = {} /\ saves' \in Nat
  BY <1>1, ControlFacts DEF ControlInv
<1>3. /\ LoginsSound(op, source, live, GivenUp, logins) /\ RefreshSound(refresh)
      /\ rules \subseteq Keys
      /\ op \in [Admins -> Requested]
      /\ \A a \in Admins : RequestOfSound(op[a])
      /\ NearHome(sent)
  BY DEF ControlInv
<1>4. GivenUp' = GivenUp
  BY <1>1 DEF GivenUp
<1> QED BY <1>1, <1>2, <1>3, <1>4 DEF ControlInv

\* The place of the first enabled row.
LEMMA FirstEnabled ==
  ASSUME NEW rows \in Seq(EndpointRecord), \E i \in DOMAIN rows : rows[i].enabled
  PROVE  /\ Control!SelectInSeq(rows, LAMBDA e : e.enabled) \in 1..Len(rows)
         /\ rows[Control!SelectInSeq(rows, LAMBDA e : e.enabled)].enabled
<1> DEFINE I == {i \in 1..Len(rows) : rows[i].enabled}
<1>1. DOMAIN rows = 1..Len(rows)
  OBVIOUS
<1>2. I # {} /\ I \in SUBSET Nat
  BY <1>1
<1>3. Control!SelectInSeq(rows, LAMBDA e : e.enabled) = IF I # {} THEN Control!Min(I) ELSE 0
  BY DEF Control!SelectInSeq
<1> HIDE DEF I
<1>4. Control!SelectInSeq(rows, LAMBDA e : e.enabled) \in I
  BY <1>2, <1>3, LeastPlace
<1> QED BY <1>4 DEF I

\* What promotion leaves: rows of the same ids, keys, URLs and uses, one of them an
\* enabled default.
LEMMA PromotedFacts ==
  ASSUME NEW rows \in Seq(EndpointRecord), \E i \in DOMAIN rows : rows[i].enabled
  PROVE  /\ Control!Promoted(rows) \in Seq(EndpointRecord)
         /\ Len(Control!Promoted(rows)) = Len(rows)
         /\ \A i \in 1..Len(rows) : /\ Control!Promoted(rows)[i].id = rows[i].id
                                    /\ Control!Promoted(rows)[i].key = rows[i].key
                                    /\ Control!Promoted(rows)[i].enabled = rows[i].enabled
         /\ \E d \in 1..Len(rows) : /\ Control!Promoted(rows)[d].default
                                    /\ Control!Promoted(rows)[d].enabled
<1> DEFINE first == Control!SelectInSeq(rows, LAMBDA e : e.enabled)
           entry == [rows[first] EXCEPT !.default = TRUE]
<1>1. first \in 1..Len(rows) /\ rows[first].enabled
  BY FirstEnabled
<1>2. Control!Promoted(rows) = IF \E i \in DOMAIN rows : rows[i].enabled /\ rows[i].default
                               THEN rows ELSE [rows EXCEPT ![first] = entry]
  BY DEF Control!Promoted
<1>3. DOMAIN rows = 1..Len(rows) /\ Len(rows) \in Nat
  OBVIOUS
<1> HIDE DEF first
<1>4. rows[first] \in EndpointRecord
  BY <1>1
<1>5. entry \in EndpointRecord /\ entry.default /\ entry.enabled = rows[first].enabled
      /\ entry.id = rows[first].id /\ entry.key = rows[first].key
  BY <1>4 DEF EndpointRecord
<1> HIDE DEF entry
<1>6. CASE \E i \in DOMAIN rows : rows[i].enabled /\ rows[i].default
  BY <1>2, <1>3, <1>6
<1>7. CASE ~ \E i \in DOMAIN rows : rows[i].enabled /\ rows[i].default
  <2> DEFINE t == [rows EXCEPT ![first] = entry]
  <2>1. Control!Promoted(rows) = t
    BY <1>2, <1>7
  <2>2. t \in Seq(EndpointRecord) /\ Len(t) = Len(rows)
    BY <1>1, <1>5
  <2>3. \A i \in 1..Len(rows) : t[i] = IF i = first THEN entry ELSE rows[i]
    BY <1>3
  <2> HIDE DEF t
  <2> QED BY <1>1, <1>5, <2>1, <2>2, <2>3
<1> QED BY <1>6, <1>7

\* The rows once a row is saved at one place: the other rows keep all but the default.
LEMMA SavedFacts ==
  ASSUME ControlInv, NEW at \in 1..(Len(endpoints) + 1), NEW entry \in EndpointRecord
  PROVE  /\ Control!Saved(at, entry) \in Seq(EndpointRecord)
         /\ Len(Control!Saved(at, entry)) >= Len(endpoints)
         /\ at \in 1..Len(Control!Saved(at, entry)) /\ Control!Saved(at, entry)[at] = entry
         /\ \A i \in 1..Len(endpoints) : i # at =>
              /\ Control!Saved(at, entry)[i].id = endpoints[i].id
              /\ Control!Saved(at, entry)[i].key = endpoints[i].key
              /\ Control!Saved(at, entry)[i].enabled = endpoints[i].enabled
<1> DEFINE was == at <= Len(endpoints) /\ endpoints[at].default
           cleared == [i \in DOMAIN endpoints |->
                         IF entry.default /\ ~was THEN [endpoints[i] EXCEPT !.default = FALSE]
                         ELSE endpoints[i]]
<1>1. Control!Saved(at, entry) =
        IF at <= Len(endpoints) THEN [cleared EXCEPT ![at] = entry] ELSE Append(cleared, entry)
  BY DEF Control!Saved
<1>2. endpoints \in Seq(EndpointRecord) /\ DOMAIN endpoints = 1..Len(endpoints)
      /\ Len(endpoints) \in Nat
  BY ControlFacts
<1>3. ASSUME NEW i \in 1..Len(endpoints)
      PROVE  /\ cleared[i] \in EndpointRecord
             /\ cleared[i].id = endpoints[i].id /\ cleared[i].key = endpoints[i].key
             /\ cleared[i].enabled = endpoints[i].enabled
  <2>1. endpoints[i] \in EndpointRecord
    BY <1>2
  <2>2. cleared[i] = endpoints[i] \/ cleared[i] = [endpoints[i] EXCEPT !.default = FALSE]
    BY <1>2
  <2> HIDE DEF cleared
  <2> QED BY <2>1, <2>2 DEF EndpointRecord
<1>4. cleared \in Seq(EndpointRecord) /\ Len(cleared) = Len(endpoints)
  BY <1>2, <1>3
<1> HIDE DEF cleared
<1>5. CASE at <= Len(endpoints)
  <2>1. at \in 1..Len(endpoints) /\ Control!Saved(at, entry) = [cleared EXCEPT ![at] = entry]
    BY <1>1, <1>2, <1>5
  <2> QED BY <1>2, <1>3, <1>4, <2>1
<1>6. CASE ~ (at <= Len(endpoints))
  <2>1. at = Len(endpoints) + 1 /\ Control!Saved(at, entry) = Append(cleared, entry)
    BY <1>1, <1>2, <1>6
  <2> QED BY <1>2, <1>3, <1>4, <2>1
<1> QED BY <1>5, <1>6

\* UpsertEndpoint: no enabled rule loses its endpoint, and a default is left.
LEMMA StepUpsert ==
  ASSUME Control!Assumption, ControlInv, NEW at \in 1..(Len(endpoints) + 1), NEW key \in Keys,
         NEW url \in Urls, NEW enabled \in BOOLEAN, NEW default \in BOOLEAN,
         Control!UpsertEndpoint(at, key, url, enabled, default)
  PROVE  ControlInv'
<1> DEFINE new == at > Len(endpoints)
           entry == [id |-> IF new THEN nextId ELSE endpoints[at].id, key |-> key, url |-> url,
                   enabled |-> enabled, default |-> default, ws |-> ~new /\ endpoints[at].ws]
           rows == Control!Saved(at, entry)
<1>1. /\ source # Nothing
      /\ (~new /\ endpoints[at].enabled /\ ~enabled) => ~Control!Targeted(key)
      /\ \E i \in DOMAIN rows : rows[i].enabled
      /\ Control!Indexed(Control!Promoted(rows))
      /\ Control!SaveEndpoints(Control!Promoted(rows))
      /\ nextId' = IF new THEN nextId + 1 ELSE nextId
  BY DEF Control!UpsertEndpoint
<1>2. endpoints \in Seq(EndpointRecord) /\ DOMAIN endpoints = 1..Len(endpoints)
      /\ Len(endpoints) \in Nat /\ nextId \in Nat
  BY ControlFacts
<1>3. ~new => at \in 1..Len(endpoints) /\ endpoints[at] \in EndpointRecord
  BY <1>2
<1>4. entry.ws \in BOOLEAN
  <2>1. entry.ws = (~new /\ endpoints[at].ws)
    OBVIOUS
  <2> QED BY <2>1, Zenon
<1>5. entry.id \in Nat
  BY <1>2, <1>3 DEF EndpointRecord
<1>6. /\ entry \in EndpointRecord /\ entry.key = key /\ entry.enabled = enabled
      /\ ~new => entry.id = endpoints[at].id
  BY <1>4, <1>5 DEF EndpointRecord
<1> HIDE DEF entry
<1>7. /\ rows \in Seq(EndpointRecord)
      /\ Len(rows) >= Len(endpoints) /\ Len(rows) \in Nat /\ DOMAIN rows = 1..Len(rows)
      /\ at \in 1..Len(rows) /\ rows[at] = entry
      /\ \A i \in 1..Len(endpoints) : i # at =>
           rows[i].id = endpoints[i].id /\ rows[i].key = endpoints[i].key
           /\ rows[i].enabled = endpoints[i].enabled
  <2>1. at \in 1..(Len(endpoints) + 1) /\ entry \in EndpointRecord
    BY <1>6
  <2>2. /\ rows \in Seq(EndpointRecord) /\ Len(rows) >= Len(endpoints)
        /\ at \in 1..Len(rows) /\ rows[at] = entry
        /\ \A i \in 1..Len(endpoints) : i # at =>
             /\ rows[i].id = endpoints[i].id /\ rows[i].key = endpoints[i].key
             /\ rows[i].enabled = endpoints[i].enabled
    BY <2>1, SavedFacts
  <2> HIDE DEF rows
  <2> QED BY <2>2
<1> HIDE DEF rows
<1> DEFINE t == Control!Promoted(rows)
<1>8. /\ t \in Seq(EndpointRecord) /\ Len(t) = Len(rows)
      /\ \A i \in 1..Len(rows) : /\ t[i].id = rows[i].id /\ t[i].key = rows[i].key
                                 /\ t[i].enabled = rows[i].enabled
      /\ \E d \in 1..Len(rows) : t[d].default /\ t[d].enabled
  BY <1>1, <1>7, PromotedFacts
<1>9. Control!Indexed(t) /\ Control!SaveEndpoints(t)
  BY <1>1
<1> HIDE DEF t
<1>10. StoreOfSound(source, t)
  <2>1. StoreOfSound(source, endpoints)
    BY DEF ControlInv
  <2>2. t # <<>>
    BY <1>7, <1>8
  <2> QED BY <1>1, <1>8, <1>9, <2>1, <2>2 DEF StoreOfSound
<1>11. Control!Cut(t) = {}
  <2>1. SUFFICES ASSUME NEW k \in rules, NEW i \in 1..Len(endpoints),
                        endpoints[i].enabled, endpoints[i].key = k
                 PROVE  \E j \in DOMAIN t : /\ t[j].id = endpoints[i].id
                                            /\ t[j].enabled \/ t[j].key # k
    BY <1>2 DEF Control!Cut
  <2>2. DOMAIN t = 1..Len(rows)
    BY <1>8
  <2>3. i \in 1..Len(rows)
    BY <1>2, <1>7
  <2>4. CASE i # at
    <3>1. t[i].id = endpoints[i].id /\ t[i].enabled
      BY <1>7, <1>8, <2>1, <2>3, <2>4
    <3> QED BY <2>2, <2>3, <3>1
  <2>5. CASE i = at
    <3>1. ~new
      BY <1>2, <2>5
    <3>2. t[i].id = endpoints[i].id /\ t[i].key = key /\ t[i].enabled = enabled
      BY <1>6, <1>7, <1>8, <2>3, <2>5, <3>1
    <3>3. enabled \/ key # k
      BY <1>1, <2>1, <2>5, <3>1 DEF Control!Targeted
    <3> QED BY <2>2, <2>3, <3>2, <3>3
  <2> QED BY <2>4, <2>5
<1>12. nextId' \in Nat
  BY <1>1, <1>2
<1> QED BY <1>9, <1>10, <1>11, <1>12, EndpointsChange

\* DeleteEndpoint: the default stays, and so does an endpoint that a rule leads to.
LEMMA StepDelete ==
  ASSUME Control!Assumption, ControlInv, NEW at \in Nat, Control!DeleteEndpoint(at)
  PROVE  ControlInv'
<1> DEFINE t == Control!RemoveAt(endpoints, at)
<1>1. /\ at \in DOMAIN endpoints /\ ~endpoints[at].default /\ endpoints[at].key \notin rules
      /\ Control!SaveEndpoints(t) /\ nextId' = nextId
  BY DEF Control!DeleteEndpoint, Control!Targeted
<1>2. endpoints \in Seq(EndpointRecord) /\ DOMAIN endpoints = 1..Len(endpoints)
      /\ Len(endpoints) \in Nat /\ nextId \in Nat
  BY ControlFacts
<1>3. at \in 1..Len(endpoints)
  BY <1>1, <1>2
<1>4. /\ t \in Seq(EndpointRecord) /\ Len(t) = Len(endpoints) - 1
      /\ \A i \in 1..(Len(endpoints) - 1) :
           t[i] = IF i < at THEN endpoints[i] ELSE endpoints[i + 1]
  <2> DEFINE u == SubSeq(endpoints, 1, at - 1)
             v == SubSeq(endpoints, at + 1, Len(endpoints))
  <2>1. /\ u \in Seq(EndpointRecord) /\ Len(u) = at - 1
        /\ \A i \in 1..(at - 1) : u[i] = endpoints[i]
    BY <1>2, <1>3
  <2>2. /\ v \in Seq(EndpointRecord) /\ Len(v) = Len(endpoints) - at
        /\ \A i \in 1..(Len(endpoints) - at) : v[i] = endpoints[at + i]
    <3>1. /\ at + 1 \in 1..(Len(endpoints) + 1) /\ Len(endpoints) \in Int /\ at + 1 \in Int
          /\ Len(endpoints) - (at + 1) + 1 = Len(endpoints) - at
          /\ at + 1 >= 1
      BY <1>2, <1>3
    <3> DEFINE n == Len(endpoints)
               m == at + 1
    <3>2. \A i \in m..n : endpoints[i] \in EndpointRecord
      BY <1>2, <1>3
    <3>3. v = [i \in 1..(n - m + 1) |-> endpoints[i + m - 1]]
      BY <1>2, <1>3
    <3>4. \A i \in 1..(n - at) : i + m - 1 = at + i /\ at + i \in m..n
      BY <1>2, <1>3
    <3>5. \A i \in 1..(n - at) : v[i] = endpoints[at + i] /\ v[i] \in EndpointRecord
      BY <3>1, <3>2, <3>3, <3>4
    <3>6. n - at \in Nat /\ v = [i \in 1..(n - at) |-> v[i]]
      BY <1>2, <1>3, <3>1, <3>3
    <3> HIDE DEF v, n, m
    <3>7. v \in Seq(EndpointRecord) /\ Len(v) = n - at
      BY <3>5, <3>6
    <3> QED BY <3>5, <3>7 DEF n
  <2>3. t = u \o v
    BY DEF Control!RemoveAt
  <2> HIDE DEF u, v, t
  <2>4. t \in Seq(EndpointRecord) /\ Len(t) = Len(endpoints) - 1
    <3>1. u \o v \in Seq(EndpointRecord) /\ Len(u \o v) = Len(u) + Len(v)
      BY <2>1, <2>2, ConcatProperties
    <3>2. Len(u) + Len(v) = Len(endpoints) - 1
      BY <1>2, <1>3, <2>1, <2>2
    <3> QED BY <2>3, <3>1, <3>2
  <2>5. \A i \in 1..(Len(endpoints) - 1) :
          t[i] = IF i < at THEN u[i] ELSE v[i - (at - 1)]
    BY <1>2, <1>3, <2>1, <2>2, <2>3
  <2>6. ASSUME NEW i \in 1..(Len(endpoints) - 1)
        PROVE  t[i] = IF i < at THEN endpoints[i] ELSE endpoints[i + 1]
    <3>1. CASE i < at
      BY <1>2, <1>3, <2>1, <2>5, <3>1
    <3>2. CASE ~(i < at)
      <4>1. i - (at - 1) \in 1..(Len(endpoints) - at) /\ at + (i - (at - 1)) = i + 1
        BY <1>2, <1>3, <2>6, <3>2
      <4> QED BY <2>2, <2>5, <3>2, <4>1
    <3> QED BY <3>1, <3>2
  <2> QED BY <2>4, <2>6
<1> HIDE DEF t
<1>5. DOMAIN t = 1..(Len(endpoints) - 1)
  BY <1>4
<1>6. ASSUME NEW i \in 1..Len(endpoints), i # at
      PROVE  \E j \in DOMAIN t : t[j] = endpoints[i]
  <2>1. CASE i < at
    BY <1>2, <1>3, <1>4, <1>5, <2>1
  <2>2. CASE i > at
    <3>1. i - 1 \in 1..(Len(endpoints) - 1) /\ ~(i - 1 < at) /\ (i - 1) + 1 = i
      BY <1>2, <1>3, <2>2
    <3>2. t[i - 1] = endpoints[i]
      BY <1>4, <3>1
    <3> QED BY <1>5, <3>1, <3>2
  <2> QED BY <1>6, <1>3, <2>1, <2>2
<1>7. StoreOfSound(source, endpoints)
  BY DEF ControlInv
<1>8. StoreOfSound(source, t)
  <2>1. source # Nothing
    BY <1>3, <1>7 DEF StoreOfSound
  <2>2. PICK d \in 1..Len(endpoints) : endpoints[d].default /\ endpoints[d].enabled
    BY <1>7, <2>1 DEF StoreOfSound
  <2>3. PICK j \in DOMAIN t : t[j] = endpoints[d]
    BY <1>1, <1>6, <2>2
  <2>4. j \in 1..Len(t) /\ t # <<>>
    BY <1>4, <1>5, <2>3
  <2>5. Control!Indexed(t)
    <3>1. SUFFICES ASSUME NEW i \in DOMAIN t, NEW k \in DOMAIN t, i # k
                   PROVE  /\ t[i].key # t[k].key /\ t[i].url # t[k].url
                          /\ ~(t[i].default /\ t[k].default)
      BY DEF Control!Indexed
    <3> DEFINE x == IF i < at THEN i ELSE i + 1
               y == IF k < at THEN k ELSE k + 1
    <3>2. x \in DOMAIN endpoints /\ y \in DOMAIN endpoints /\ x # y
      BY <1>2, <1>3, <1>5, <3>1
    <3>3. t[i] = endpoints[x] /\ t[k] = endpoints[y]
      BY <1>4, <1>5, <3>1
    <3> HIDE DEF x, y
    <3> QED BY <1>7, <3>2, <3>3 DEF StoreOfSound, Control!Indexed
  <2> QED BY <1>4, <1>7, <2>1, <2>2, <2>3, <2>4, <2>5 DEF StoreOfSound
<1>9. Control!Cut(t) = {}
  <2>1. SUFFICES ASSUME NEW k \in rules, NEW i \in 1..Len(endpoints),
                        endpoints[i].enabled, endpoints[i].key = k
                 PROVE  \E j \in DOMAIN t : /\ t[j].id = endpoints[i].id
                                            /\ t[j].enabled \/ t[j].key # k
    BY <1>2 DEF Control!Cut
  <2>2. i # at
    BY <1>1, <2>1
  <2> QED BY <1>6, <2>1, <2>2
<1> QED BY <1>1, <1>2, <1>8, <1>9, EndpointsChange

\* An endpoint is tried out: the request keeps the row's id and nothing else.
LEMMA StepTryWebSocket ==
  ASSUME Control!Assumption, ControlInv, NEW a \in Admins, NEW at \in Nat,
         Control!ProbeWebSocket(a, at)
  PROVE  ControlInv'
<1> DEFINE o == [pc |-> "websocket", id |-> endpoints[at].id]
<1>1. op[a] = Control!Idle /\ op' = [op EXCEPT ![a] = o] /\ at \in 1..Len(endpoints)
  BY ControlFacts DEF Control!ProbeWebSocket, Control!Become
<1>2. endpoints[at].id \in Nat
  <2>1. endpoints[at] \in EndpointRecord
    BY <1>1, ControlFacts
  <2> QED BY <2>1 DEF EndpointRecord
<1>3. o \in ProbeRecord /\ InHand(o) = 0
  BY <1>2 DEF ProbeRecord, InHand
<1>4. UNCHANGED <<source, endpoints, rules, saves, nextId, refresh, logins, live, lost, stranded,
                   unheard>>
      /\ sent' = sent
  BY DEF Control!ProbeWebSocket, Control!stored, Control!upstream, Control!ghosts
<1>5. NearHome(sent')
  BY <1>4 DEF ControlInv
<1> HIDE DEF o
<1> QED BY <1>1, <1>3, <1>4, <1>5, IdleSound, OpChange DEF RequestOfSound, Requested

\* The outcome goes to the row with the id, if there is one: nothing else of it changes.
LEMMA StepRecordWebSocket ==
  ASSUME Control!Assumption, ControlInv, NEW a \in Admins, NEW capable \in BOOLEAN,
         Control!RecordWebSocketProbeResult(a, capable)
  PROVE  ControlInv'
<1> DEFINE at == Control!SelectInSeq(endpoints, LAMBDA e : e.id = op[a].id)
           entry == [endpoints[at] EXCEPT !.ws = capable]
           t == [endpoints EXCEPT ![at] = entry]
<1>1. /\ op[a].pc = "websocket" /\ op' = [op EXCEPT ![a] = Control!Idle]
      /\ UNCHANGED <<source, rules, nextId, refresh, logins, live, sent, lost, stranded, unheard,
                     unheard>>
      /\ \/ UNCHANGED <<endpoints, saves>>
         \/ at # 0 /\ endpoints' = t /\ saves' = saves + 1
  BY DEF Control!RecordWebSocketProbeResult, Control!Become, Control!upstream, Control!ghosts
<1>2. endpoints \in Seq(EndpointRecord) /\ DOMAIN endpoints = 1..Len(endpoints)
      /\ Len(endpoints) \in Nat /\ saves \in Nat
  BY ControlFacts
<1>3. StoreOfSound(source, endpoints)
  BY DEF ControlInv
<1>4. StoreOfSound(source, endpoints') /\ saves' \in Nat
  <2>1. CASE UNCHANGED <<endpoints, saves>>
    BY <1>2, <1>3, <2>1
  <2>2. CASE at # 0 /\ endpoints' = t /\ saves' = saves + 1
    <3> DEFINE I == {i \in 1..Len(endpoints) : endpoints[i].id = op[a].id}
    <3>1. at = IF I # {} THEN Control!Min(I) ELSE 0
      BY DEF Control!SelectInSeq
    <3>2. I # {} /\ at = Control!Min(I) /\ I \in SUBSET Nat
      BY <2>2, <3>1
    <3>3. at \in I
      BY <3>2, LeastPlace
    <3>4. at \in 1..Len(endpoints)
      BY <3>3
    <3> HIDE DEF at, I
    <3>5. endpoints[at] \in EndpointRecord
      BY <1>2, <3>4
    <3>6. /\ entry \in EndpointRecord
          /\ entry.key = endpoints[at].key /\ entry.url = endpoints[at].url
          /\ entry.default = endpoints[at].default /\ entry.enabled = endpoints[at].enabled
      BY <3>5 DEF EndpointRecord
    <3> HIDE DEF entry
    <3>7. /\ t \in Seq(EndpointRecord) /\ Len(t) = Len(endpoints) /\ DOMAIN t = 1..Len(endpoints)
          /\ \A i \in 1..Len(endpoints) : t[i] = IF i = at THEN entry ELSE endpoints[i]
      BY <1>2, <3>4, <3>6
    <3> HIDE DEF t
    <3>8. \A i \in 1..Len(endpoints) :
            /\ t[i].key = endpoints[i].key /\ t[i].url = endpoints[i].url
            /\ t[i].default = endpoints[i].default /\ t[i].enabled = endpoints[i].enabled
      BY <3>6, <3>7
    <3>9. Control!Indexed(t)
      BY <1>2, <1>3, <3>7, <3>8 DEF StoreOfSound, Control!Indexed
    <3>10. t # <<>> /\ source # Nothing
      BY <1>2, <1>3, <3>4, <3>7 DEF StoreOfSound
    <3>11. /\ source \in Control!SourceRecord /\ source.info = source.server
           /\ \E d \in 1..Len(endpoints) : endpoints[d].default /\ endpoints[d].enabled
      BY <1>3, <3>10 DEF StoreOfSound
    <3>12. \E d \in 1..Len(t) : t[d].default /\ t[d].enabled
      BY <3>7, <3>8, <3>11
    <3>13. StoreOfSound(source, t)
      BY <3>7, <3>9, <3>10, <3>11, <3>12 DEF StoreOfSound
    <3>14. saves + 1 \in Nat
      BY <1>2
    <3> QED BY <2>2, <3>13, <3>14
  <2> QED BY <1>1, <2>1, <2>2
<1> HIDE DEF t, at, entry
<1>5. InHand(op[a]) = 0
  BY <1>1 DEF InHand
<1>6. /\ op' \in [Admins -> Requested]
      /\ \A b \in Admins : RequestOfSound(op'[b])
      /\ \A b \in Admins : op'[b] = IF b = a THEN Control!Idle ELSE op[b]
  BY <1>1, IdleSound, OpTypes
<1>7. \A b \in Admins : InHand(op'[b]) = InHand(op[b])
  BY <1>5, <1>6, IdleSound
<1>8. LoginsSound(op', source, live, GivenUp, logins)
  BY <1>7, LoginsStay
<1>9. /\ rules \subseteq Keys /\ nextId \in Nat /\ RefreshSound(refresh) /\ stranded = {}
      /\ NearHome(sent) /\ GivenUp' = GivenUp
  BY <1>1 DEF ControlInv, GivenUp
<1> QED BY <1>1, <1>4, <1>6, <1>8, <1>9 DEF ControlInv

\* The rules change, or the login, or what is known of the server.
LEMMA StepGateway ==
  ASSUME Control!Assumption, ControlInv,
         \/ \E k \in Keys : Control!EditRules(rules \cup {k}) \/ Control!EditRules(rules \ {k})
         \/ \E b \in BOOLEAN : Control!Renew(b)
         \/ Control!RenewUnheard
         \/ \E s \in Servers : Control!BeginRefresh(s)
         \/ Control!UpdateServerInfo
  PROVE  ControlInv'
<1>1. /\ StoreOfSound(source, endpoints) /\ rules \subseteq Keys /\ saves \in Nat /\ nextId \in Nat
      /\ op \in [Admins -> Requested]
      /\ \A a \in Admins : RequestOfSound(op[a])
      /\ RefreshSound(refresh) /\ LoginsSound(op, source, live, GivenUp, logins)
      /\ NearHome(sent)
      /\ stranded = {}
  BY DEF ControlInv
<1>2. CASE \E k \in Keys : Control!EditRules(rules \cup {k}) \/ Control!EditRules(rules \ {k})
  <2>1. /\ rules' \subseteq Keys
        /\ UNCHANGED <<source, endpoints, saves, nextId, op, refresh, logins, live, sent, lost,
                       stranded, unheard>>
    BY <1>1, <1>2 DEF Control!EditRules, Control!upstream, Control!ghosts
  <2> QED BY <1>1, <2>1 DEF ControlInv, GivenUp
<1>3. CASE \E b \in BOOLEAN : Control!Renew(b)
  <2> DEFINE new == [source EXCEPT !.login = logins + 1]
  <2>1. /\ source # Nothing /\ logins' = logins + 1 /\ source' = new
        /\ \/ live' = (live \ {source.login}) \cup {logins + 1} /\ lost' = lost
           \/ /\ live' = live \cup {logins + 1} /\ lost' = lost \cup {source.login}
              /\ source.login # 0
        /\ UNCHANGED <<endpoints, rules, saves, nextId, op, refresh, sent, stranded, unheard>>
    BY <1>3 DEF Control!Renew, Control!Loads
  <2>2. source \in Control!SourceRecord /\ logins \in Nat
    BY <2>1, ControlFacts
  <2>3. new \in Control!SourceRecord /\ new.login = logins + 1 /\ new.info = source.info
        /\ new.server = source.server
    BY <2>2 DEF Control!SourceRecord
  <2>4. new # Nothing
    BY <2>3 DEF Control!SourceRecord, Secrets, Control!Assumption
  <2> HIDE DEF new
  <2>5. StoreOfSound(new, endpoints)
    BY <1>1, <2>1, <2>3, <2>4 DEF StoreOfSound
  <2>6. LoginOf(new) = logins + 1 /\ LoginOf(source) = source.login
    BY <2>1, <2>3, <2>4 DEF LoginOf
  <2>7. \/ live' = (live \ {LoginOf(source)}) \cup {logins + 1} /\ GivenUp' = GivenUp
        \/ /\ live' = live \cup {logins + 1} /\ GivenUp' = GivenUp \cup {LoginOf(source)}
           /\ LoginOf(source) # 0
    BY <2>1, <2>6 DEF GivenUp
  <2>8. LoginsSound(op, new, live', GivenUp', logins + 1)
    BY <1>1, <2>6, <2>7, LoginReplaced
  <2> QED BY <1>1, <2>1, <2>5, <2>8 DEF ControlInv
<1>6. CASE Control!RenewUnheard
  <2>1. /\ logins' = logins + 1 /\ live' = live \cup {logins + 1}
        /\ unheard' = unheard \cup {logins + 1}
        /\ UNCHANGED <<source, endpoints, rules, saves, nextId, op, refresh, sent, lost, stranded>>
    BY <1>6 DEF Control!RenewUnheard, Control!stored
  <2>2. GivenUp' = GivenUp \cup {logins + 1}
    BY <2>1 DEF GivenUp
  <2>3. LoginsSound(op, source, live', GivenUp', logins + 1)
    BY <1>1, <2>1, <2>2, LoginGivenUp
  <2> QED BY <1>1, <2>1, <2>3 DEF ControlInv
<1>4. CASE \E s \in Servers : Control!BeginRefresh(s)
  <2>1. PICK s \in Servers : Control!BeginRefresh(s)
    BY <1>4
  <2>2. /\ source # Nothing /\ s = source.server
        /\ refresh' = [server |-> source.server, info |-> s]
        /\ UNCHANGED <<source, endpoints, rules, saves, nextId, op, logins, live, sent, lost,
                       stranded, unheard>>
    BY <2>1 DEF Control!BeginRefresh, Control!Loads, Control!stored, Control!upstream,
                Control!ghosts
  <2>3. RefreshSound(refresh')
    BY <2>1, <2>2 DEF RefreshSound, Control!RefreshRecord
  <2> QED BY <1>1, <2>2, <2>3 DEF ControlInv, GivenUp
<1>5. CASE Control!UpdateServerInfo
  <2> DEFINE new == [source EXCEPT !.info = refresh.info, !.checked = @ + 1]
  <2>1. /\ refresh # Nothing /\ source # Nothing /\ refresh' = Nothing
        /\ \/ source.server = refresh.server /\ source' = new
           \/ source' = source
        /\ UNCHANGED <<endpoints, rules, saves, nextId, op, logins, live, sent, lost, stranded, unheard,
                       unheard>>
    BY <1>5 DEF Control!UpdateServerInfo, Control!upstream, Control!ghosts
  <2>2. /\ source \in Control!SourceRecord /\ refresh.info \in Servers /\ refresh.info = refresh.server
    BY <1>1, <2>1, ControlFacts DEF RefreshSound, Control!RefreshRecord
  <2>3. new \in Control!SourceRecord /\ new.login = source.login /\ new.info = refresh.info
        /\ new.server = source.server
    <3>1. source.checked + 1 \in Nat
      BY <2>2 DEF Control!SourceRecord
    <3>2. new = [source EXCEPT !.info = refresh.info, !.checked = source.checked + 1]
      BY <2>2 DEF Control!SourceRecord
    <3> HIDE DEF new
    <3> QED BY <2>2, <3>1, <3>2 DEF Control!SourceRecord
  <2>4. new # Nothing
    BY <2>3 DEF Control!SourceRecord, Secrets, Control!Assumption
  <2> HIDE DEF new
  <2>5. StoreOfSound(source', endpoints) /\ source' # Nothing /\ source'.login = source.login
    BY <1>1, <2>1, <2>2, <2>3, <2>4 DEF StoreOfSound
  <2>6. LoginOf(source') = LoginOf(source)
    BY <2>1, <2>5 DEF LoginOf
  <2>7. LoginsSound(op, source', live, GivenUp, logins)
    BY <1>1, <2>1, <2>5, <2>6 DEF LoginsSound
  <2>8. RefreshSound(refresh')
    BY <2>1 DEF RefreshSound
  <2> QED BY <1>1, <2>1, <2>5, <2>7, <2>8 DEF ControlInv, GivenUp
<1> QED BY <1>2, <1>3, <1>4, <1>5, <1>6

-----------------------------------------------------------------------------
\* Not set up yet, as set-up leaves it, or without its login.
LEMMA ControlStarts ==
  ASSUME Control!Assumption, Control!Init
  PROVE  ControlInv
<1>1. op = [a \in Admins |-> Control!Idle] /\ refresh = Nothing /\ sent = {}
      /\ GivenUp = {} /\ stranded = {} /\ rules = {} /\ saves = 0 /\ live = 1..logins
  BY DEF Control!Init, GivenUp
<1>2. /\ op \in [Admins -> Requested]
      /\ \A a \in Admins : RequestOfSound(op[a]) /\ InHand(op[a]) = 0
  BY <1>1, IdleSound
<1>3. RefreshSound(refresh)
  BY <1>1 DEF RefreshSound
<1>4. CASE source = Nothing /\ endpoints = <<>> /\ nextId = 1 /\ logins = 0
  <2>1. StoreOfSound(source, endpoints)
    BY <1>4 DEF StoreOfSound, Control!Indexed
  <2>2. LoginsSound(op, source, live, GivenUp, logins)
    BY <1>1, <1>2, <1>4 DEF LoginsSound, LoginOf
  <2> QED BY <1>1, <1>2, <1>3, <1>4, <2>1, <2>2 DEF ControlInv, NearHome
<1>5. ASSUME NEW s \in Servers,
             NEW i \in Identities, NEW l \in {0, 1},
             source = [server |-> s, info |-> s, checked |-> 0, identity |-> i,
                       password |-> "stored", login |-> l],
             endpoints = <<Control!NewEndpoint(1, Primary, Home)>>, nextId = 2, logins = l
      PROVE  ControlInv
  <2>1. source \in Control!SourceRecord /\ source.info = source.server /\ source.login = l
    BY <1>5 DEF Control!SourceRecord, Secrets
  <2>2. source # Nothing
    BY <2>1 DEF Control!SourceRecord, Secrets, Control!Assumption
  <2> DEFINE e == Control!NewEndpoint(1, Primary, Home)
  <2>3. e \in EndpointRecord /\ e.default /\ e.enabled
    BY DEF Control!NewEndpoint, EndpointRecord, Control!Assumption
  <2> HIDE DEF e
  <2>4. endpoints = <<e>>
    BY <1>5 DEF e
  <2>5. endpoints \in Seq(EndpointRecord) /\ endpoints # <<>> /\ Len(endpoints) = 1
        /\ endpoints[1] = e /\ DOMAIN endpoints = {1}
    BY <2>3, <2>4
  <2>6. StoreOfSound(source, endpoints)
    BY <2>1, <2>2, <2>3, <2>5 DEF StoreOfSound, Control!Indexed
  <2>7. LoginOf(source) = l /\ live = 1..l /\ l \in Nat /\ (l # 0 => l \in live) /\ GivenUp = {}
        /\ \A m \in live : m = l
    BY <1>1, <1>5, <2>1, <2>2 DEF LoginOf
  <2>8. LoginsSound(op, source, live, GivenUp, logins)
    BY <1>1, <1>2, <1>5, <2>1, <2>7 DEF LoginsSound
  <2> QED BY <1>1, <1>2, <1>3, <1>5, <2>6, <2>8 DEF ControlInv, NearHome
<1> QED BY <1>4, <1>5 DEF Control!Init

\* Every action keeps the invariant: one lemma above for each of them.
LEMMA StepControl ==
  ASSUME Control!Assumption, ControlInv, [Control!Next]_(Control!vars)
  PROVE  ControlInv'
<1>1. CASE UNCHANGED Control!vars
  <2>1. UNCHANGED <<source, endpoints, rules, saves, op, refresh, nextId, logins, live, sent, lost,
                    stranded, unheard>>
    BY <1>1 DEF Control!vars, Control!stored, Control!upstream, Control!ghosts
  <2>2. /\ StoreOfSound(source', endpoints') /\ RefreshSound(refresh')
        /\ LoginsSound(op', source', live', GivenUp', logins')
    BY <2>1 DEF ControlInv, GivenUp
  <2> QED BY <2>1, <2>2 DEF ControlInv
<1>2. CASE \E a \in Admins, k \in {"setup", "reconfigure", "probe"}, u \in Urls,
              i \in Identities, p \in {Nothing, "new"} : Control!Ask(a, k, u, i, p)
  BY <1>2, StepAsk
<1>3. CASE \E a \in Admins : Control!Load(a) \/ Control!Resolve(a) \/ Control!LoginUnheard(a)
  BY <1>3, StepLoadForm, StepResolveForm, StepUnheardForm
<1>4. CASE \E a \in Admins, s \in Control!Answers : Control!Public(a, s)
  BY <1>4, StepPublicForm
<1>5. CASE \E a \in Admins, s \in Servers \cup {"refused"}, c \in BOOLEAN : Control!Login(a, s, c)
  BY <1>5, StepLoginForm
<1>6. CASE \E a \in Admins, b \in BOOLEAN : Control!Commit(a, b) \/ Control!Finish(a, b)
  BY <1>6, StepCommitForm, StepFinishForm
<1>7. CASE \E k \in Keys, u \in Urls, e, d \in BOOLEAN : Control!CreateEndpoint(k, u, e, d)
  <2>1. Len(endpoints) + 1 \in 1..(Len(endpoints) + 1)
    BY ControlFacts
  <2> QED BY <1>7, <2>1, StepUpsert DEF Control!CreateEndpoint
<1>8. CASE \E i \in 1..MaxEndpoints, k \in Keys, u \in Urls, e, d \in BOOLEAN :
             Control!UpdateEndpoint(i, k, u, e, d)
  <2>1. DOMAIN endpoints \subseteq 1..(Len(endpoints) + 1)
    BY ControlFacts
  <2> QED BY <1>8, <2>1, StepUpsert DEF Control!UpdateEndpoint
<1>9. CASE \E i \in 1..MaxEndpoints : Control!DeleteEndpoint(i)
  BY <1>9, StepDelete
<1>10. CASE \E a \in Admins, i \in 1..MaxEndpoints : Control!ProbeWebSocket(a, i)
  BY <1>10, StepTryWebSocket
<1>11. CASE \E a \in Admins, s \in {"switching", "other"} :
              Control!RecordWebSocketProbeResult(a, Control!Capable(s))
  <2>1. \A s \in {"switching", "other"} : Control!Capable(s) \in BOOLEAN
    BY DEF Control!Capable
  <2> QED BY <1>11, <2>1, StepRecordWebSocket
<1>12. CASE \/ \E k \in Keys : Control!EditRules(rules \cup {k}) \/ Control!EditRules(rules \ {k})
            \/ \E b \in BOOLEAN : Control!Renew(b)
            \/ Control!RenewUnheard
            \/ \E s \in Servers : Control!BeginRefresh(s)
            \/ Control!UpdateServerInfo
  BY <1>12, StepGateway
<1> QED BY <1>1, <1>2, <1>3, <1>4, <1>5, <1>6, <1>7, <1>8, <1>9, <1>10, <1>11, <1>12
        DEF Control!Next

\* What the invariant says of the six parts.
LEMMA ControlEnough ==
  ASSUME Control!Assumption, ControlInv
  PROVE  Control!ControlPlaneSound
<1>1. Control!TypeOK
  <2>1. source = Nothing <=> endpoints = <<>>
    BY DEF ControlInv, StoreOfSound
  <2>2. /\ rules \subseteq Keys /\ live \subseteq 1..logins
        /\ lost \subseteq live /\ unheard \subseteq live
    BY DEF ControlInv, LoginsSound, GivenUp
  <2> QED BY <2>1, <2>2 DEF Control!TypeOK
<1>2. Control!AlwaysRoutable
  <2>1. SUFFICES ASSUME source # Nothing
                 PROVE  /\ Control!Loads /\ Control!Indexed(endpoints)
                        /\ \A k \in Keys \cup {Nothing} : endpoints[Control!Route(k)].enabled
    BY DEF Control!AlwaysRoutable
  <2>2. Control!Loads
    BY <2>1, DefaultFacts DEF Control!Loads
  <2>3. Control!Indexed(endpoints)
    BY DEF ControlInv, StoreOfSound
  <2>4. ASSUME NEW k \in Keys \cup {Nothing} PROVE endpoints[Control!Route(k)].enabled
    <3>1. endpoints[Control!DefaultEndpoint].enabled
      BY <2>1, DefaultFacts
    <3>2. \/ Control!Route(k) = Control!DefaultEndpoint
          \/ Control!Route(k) = Control!EnabledByKey(k) /\ Control!EnabledByKey(k) # 0
      BY DEF Control!Route, Control!Projected
    <3> QED BY <3>1, <3>2, KeyLeads
  <2> QED BY <2>2, <2>3, <2>4
<1>3. Control!RulesKeepTargets
  BY DEF ControlInv, Control!RulesKeepTargets
<1>4. Control!InfoOfServer
  BY DEF ControlInv, StoreOfSound, Control!InfoOfServer
<1>5. Control!PasswordNearHome
  BY DEF ControlInv, NearHome, Control!PasswordNearHome
<1>6. Control!LoginsAccounted
  <2>1. LoginsSound(op, source, live, GivenUp, logins)
    BY DEF ControlInv
  <2>2. source # Nothing /\ source.login # 0 => source.login \in live
    BY <2>1 DEF LoginsSound, LoginOf
  <2>3. ASSUME NEW l \in live \ unheard
        PROVE  \/ source # Nothing /\ source.login = l
               \/ l \in lost
               \/ \E a \in Admins : op[a].pc \in {"commit", "cleanup"} /\ op[a].login = l
    <3>1. l # 0
      BY <2>1 DEF LoginsSound
    <3>2. l = LoginOf(source) => source # Nothing /\ source.login = l
      BY <3>1 DEF LoginOf
    <3>3. ASSUME NEW a \in Admins, InHand(op[a]) = l
          PROVE  op[a].pc \in {"commit", "cleanup"} /\ op[a].login = l
      BY <3>1, <3>3 DEF InHand
    <3> QED BY <2>1, <3>2, <3>3 DEF LoginsSound, GivenUp
  <2> QED BY <2>2, <2>3 DEF Control!LoginsAccounted
<1> QED BY <1>1, <1>2, <1>3, <1>4, <1>5, <1>6 DEF Control!ControlPlaneSound

\* However administrators set the upstream up, change it and try it out, and the gateway
\* renews its login meanwhile: there is an enabled endpoint for every request, no rule
\* loses its own, the shown particulars are the server's, the stored password goes to its
\* base, or below it when the base redirects, and every valid login whose token arrived is
\* stored, in a request's hands or failed to be logged out
\* (ReconfigureUpstream, authenticateUpstream, UpsertEndpoint and DeleteEndpoint).
THEOREM ControlPlaneStaysSound ==
  ASSUME Control!Assumption
  PROVE  Control!Spec => []Control!ControlPlaneSound
<1>1. Control!Init => ControlInv
  BY ControlStarts
<1>2. ControlInv /\ [Control!Next]_(Control!vars) => ControlInv'
  BY StepControl
<1>3. ControlInv => Control!ControlPlaneSound
  BY ControlEnough
<1> QED BY <1>1, <1>2, <1>3, PTL DEF Control!Spec

-----------------------------------------------------------------------------
(* Playback: the rows of a user, the requests about them, and the denials    *)

\* A row has the columns of a new one.
Columned(s) == DOMAIN s = DOMAIN Play!Fresh

\* A report or a write that was found: what it is not about is what it read.
ChangeSound(o) ==
  /\ o.item \in Items /\ o.kind \in {"report", "write"}
  /\ o.kind = "write" => o.what \in Writes
  /\ o.pc = "stop" => o.kind = "report"
  /\ o.pc # "find" =>
       /\ Columned(o.state)
       /\ \A f \in Play!UserColumns \ Play!Columns(o) : o.state[f] = o.read[f]

\* A list: the rows it has left to resolve.
ListSound(o) ==
  /\ o.left \subseteq Items
  /\ o.kind = "nextup" => \A i \in o.left : Columned(o.read[i])
  /\ o.pc = "resolve" => o.item \in Items /\ Columned(o.state)

\* A playback that asks: a denial recorded since is newer than the one it knows.
AskSound(o, g, n) ==
  /\ o.item \in Items /\ o.gen \in Nat /\ o.gen <= n /\ o.late \in BOOLEAN
  /\ o.late /\ g[o.item] # Nothing => o.gen < g[o.item].gen

ClientSound(o, g, n) ==
  /\ DOMAIN o = DOMAIN Play!NoOp
  /\ o.pc \in {"find", "enrich", "stop", "save"} => ChangeSound(o)
  /\ o.pc \in {"fetch", "load", "resolve"} => ListSound(o)
  /\ o.pc = "info" => AskSound(o, g, n)

GuardsSound(g, n) ==
  /\ n \in Nat /\ DOMAIN g = Items
  /\ \A i \in Items : g[i] # Nothing => g[i] \in Play!GuardRecord /\ g[i].gen <= n

PlayInv ==
  /\ DOMAIN row = Items /\ \A i \in Items : row[i] # Nothing => Columned(row[i])
  /\ DOMAIN op = Clients /\ \A c \in Clients : ClientSound(op[c], guard, generation)
  /\ GuardsSound(guard, generation)

-----------------------------------------------------------------------------
\* The columns of a row, those of the user, and the fields of a request.
LEMMA PlayNames ==
  /\ DOMAIN Play!Fresh = {"played", "pos", "pct", "count", "fav", "likes", "hide", "seen",
                          "runtime", "orphan"}
  /\ Play!UserColumns = {"played", "pos", "pct", "count", "fav", "likes", "hide"}
  /\ DOMAIN Play!NoOp = {"pc", "kind", "item", "what", "state", "read", "left", "found", "gen",
                         "late"}
  /\ Play!NoOp.pc = "idle"
<1>1. DOMAIN Play!Fresh = {"played", "pos", "pct", "count", "fav", "likes", "hide", "seen",
                           "runtime", "orphan"}
  BY DEF Play!Fresh
<1>2. Play!UserColumns = {"played", "pos", "pct", "count", "fav", "likes", "hide"}
  BY <1>1 DEF Play!UserColumns, Play!Metadata
<1> QED BY <1>1, <1>2 DEF Play!NoOp

\* A request that is over.
LEMMA NoOpSound == \A g, n : ClientSound(Play!NoOp, g, n)
BY PlayNames DEF ClientSound

\* The request of client c becomes o, and the rest of the requests stay sound.
LEMMA ClientChange ==
  ASSUME PlayInv, NEW c \in Clients, NEW o, op' = [op EXCEPT ![c] = o],
         ClientSound(o, guard, generation), UNCHANGED <<row, guard, generation>>
  PROVE  PlayInv'
<1>1. DOMAIN op' = Clients /\ \A d \in Clients : op'[d] = IF d = c THEN o ELSE op[d]
  BY DEF PlayInv
<1>2. \A d \in Clients : ClientSound(op'[d], guard, generation)
  BY <1>1 DEF PlayInv
<1> QED BY <1>1, <1>2 DEF PlayInv

\* Denials that are forgotten or replaced by newer ones are no worry to a request.
LEMMA ClientLasts ==
  ASSUME NEW o, NEW g, NEW n, NEW h, ClientSound(o, g, n), n \in Nat,
         \A i \in Items : h[i] # Nothing => g[i] # Nothing /\ h[i].gen = g[i].gen
  PROVE  ClientSound(o, h, n)
BY DEF ClientSound, AskSound

\* sweep drops denials and changes none.
LEMMA SweptKept ==
  ASSUME PlayInv
  PROVE  /\ GuardsSound(Play!Swept, generation)
         /\ \A i \in Items : Play!Swept[i] # Nothing =>
              /\ guard[i] # Nothing /\ Play!Swept[i] = guard[i]
         /\ \A i \in Items : guard[i] # Nothing /\ ~guard[i].old => Play!Swept[i] = guard[i]
BY DEF PlayInv, GuardsSound, Play!Swept

\* What Reported and Written leave alone.
LEMMA ReportedFacts ==
  ASSUME NEW s, Columned(s), NEW d
  PROVE  /\ Columned(Play!Reported(s, d))
         /\ \A f \in Play!UserColumns \ {"played", "pos", "pct", "count"} :
              Play!Reported(s, d)[f] = s[f]
BY PlayNames DEF Columned, Play!Reported

\* A write of a user changes the columns it is about and keeps the others.
LEMMA WrittenFacts ==
  ASSUME Play!Assumption, NEW s, Columned(s), NEW o, o.kind = "write", o.what \in Writes
  PROVE  /\ Columned(Play!Written(s, o.what))
         /\ \A f \in Play!UserColumns \ Play!Columns(o) : Play!Written(s, o.what)[f] = s[f]
<1> DEFINE w == o.what
<1>1. w.kind \in {"played", "favorite", "rating", "hide", "userdata"}
  BY DEF Play!Assumption
<1>2. w.kind = "played" => w.value \in BOOLEAN
  BY DEF Play!Assumption
<1> HIDE DEF w
<1>3. CASE w.kind = "played"
  <2>1. Play!Columns(o) = {"played", "pos", "pct", "count"}
    BY <1>3 DEF Play!Columns, w
  <2>2. \/ w.value /\ Play!Written(s, w) =
             [s EXCEPT !.played = TRUE, !.count = @ + 1, !.pos = 0, !.pct = 100]
        \/ ~w.value /\ Play!Written(s, w) =
             [s EXCEPT !.played = FALSE, !.pos = 0, !.pct = Nothing]
    BY <1>2, <1>3 DEF Play!Written
  <2> QED BY <2>1, <2>2, PlayNames DEF Columned, w
<1>4. CASE w.kind = "favorite"
  <2>1. Play!Columns(o) = {"fav"} /\ Play!Written(s, w) = [s EXCEPT !.fav = w.value]
    BY <1>4 DEF Play!Columns, Play!Written, w
  <2> QED BY <2>1, PlayNames DEF Columned, w
<1>5. CASE w.kind = "rating"
  <2>1. Play!Columns(o) = {"likes"} /\ Play!Written(s, w) = [s EXCEPT !.likes = w.value]
    BY <1>5 DEF Play!Columns, Play!Written, w
  <2> QED BY <2>1, PlayNames DEF Columned, w
<1>6. CASE w.kind = "hide"
  <2>1. Play!Columns(o) = {"hide"} /\ Play!Written(s, w) = [s EXCEPT !.hide = w.value]
    BY <1>6 DEF Play!Columns, Play!Written, w
  <2> QED BY <2>1, PlayNames DEF Columned, w
<1>7. CASE w.kind = "userdata"
  <2>1. Play!Columns(o) = Play!UserColumns \ {"hide"} /\ Play!Written(s, w) = Play!FromBody(s, w)
    BY <1>7 DEF Play!Columns, Play!Written, w
  <2>2. Columned(Play!FromBody(s, w)) /\ Play!FromBody(s, w).hide = s.hide
    BY PlayNames DEF Columned, Play!FromBody
  <2> QED BY <2>1, <2>2, PlayNames DEF w
<1> QED BY <1>1, <1>3, <1>4, <1>5, <1>6, <1>7

\* What Stopped, Merged and Reconciled leave alone.
LEMMA StoppedFacts ==
  ASSUME NEW s, Columned(s), NEW played
  PROVE  /\ Columned(Play!Stopped(s, played))
         /\ \A f \in Play!UserColumns \ {"played", "pos", "pct", "count"} :
              Play!Stopped(s, played)[f] = s[f]
<1> DEFINE early == IF Play!TooEarly(s) THEN [s EXCEPT !.pos = 0, !.pct = Nothing]
                    ELSE [s EXCEPT !.pos = IF @ < 0 THEN 0 ELSE @]
           done == [early EXCEPT !.played = TRUE, !.pos = 0, !.pct = 100,
                                 !.count = IF played THEN @ ELSE @ + 1]
<1>1. Play!Stopped(s, played) \in {done, early}
  BY DEF Play!Stopped
<1>2. Columned(early) /\ early.fav = s.fav /\ early.likes = s.likes /\ early.hide = s.hide
  BY PlayNames DEF Columned
<1> HIDE DEF early
<1>3. Columned(done) /\ done.fav = early.fav /\ done.likes = early.likes /\ done.hide = early.hide
  BY <1>2, PlayNames DEF Columned
<1> HIDE DEF done
<1>4. Play!UserColumns \ {"played", "pos", "pct", "count"} = {"fav", "likes", "hide"}
  BY PlayNames
<1> QED BY <1>1, <1>2, <1>3, <1>4

\* What a refresh of the library brings keeps the columns of the user.
LEMMA MergedFacts ==
  ASSUME NEW s, Columned(s), NEW identity, NEW present
  PROVE  /\ Columned([Play!Merged(s, identity) EXCEPT !.orphan = FALSE])
         /\ \A f \in Play!UserColumns : [Play!Merged(s, identity) EXCEPT !.orphan = FALSE][f] = s[f]
         /\ Columned(Play!Reconciled(s, present, identity))
BY PlayNames DEF Columned, Play!Merged, Play!Reconciled

-----------------------------------------------------------------------------
\* Denials as sweep leaves them, and a request of client c that becomes o.
LEMMA SweptChange ==
  ASSUME PlayInv, NEW c \in Clients, NEW o, op' = [op EXCEPT ![c] = o],
         ClientSound(o, Play!Swept, generation), guard' = Play!Swept,
         UNCHANGED <<row, generation>>
  PROVE  PlayInv'
<1>1. DOMAIN op' = Clients /\ \A d \in Clients : op'[d] = IF d = c THEN o ELSE op[d]
  BY DEF PlayInv
<1>2. generation \in Nat /\ \A d \in Clients : ClientSound(op[d], guard, generation)
  BY DEF PlayInv, GuardsSound
<1>3. \A d \in Clients : ClientSound(op[d], Play!Swept, generation)
  BY <1>2, SweptKept, ClientLasts
<1>4. \A d \in Clients : ClientSound(op'[d], Play!Swept, generation)
  BY <1>1, <1>3
<1>5. GuardsSound(Play!Swept, generation)
  BY SweptKept
<1> QED BY <1>1, <1>4, <1>5 DEF PlayInv

\* A playback asks: it knows the denial there is, if there is one.
LEMMA StepInfoBegin ==
  ASSUME Play!Assumption, PlayInv, NEW c \in Clients, NEW i \in Items, Play!InfoBegin(c, i)
  PROVE  PlayInv'
<1> DEFINE o == [Play!NoOp EXCEPT !.pc = "info", !.item = i,
                   !.gen = IF Play!Swept[i] = Nothing THEN 0 ELSE Play!Swept[i].gen]
<1>1. op' = [op EXCEPT ![c] = o] /\ guard' = Play!Swept /\ UNCHANGED <<row, generation>>
  BY DEF Play!InfoBegin, Play!Begin
<1>2. /\ DOMAIN o = DOMAIN Play!NoOp /\ o.pc = "info" /\ o.item = i /\ o.late = FALSE
      /\ o.gen = IF Play!Swept[i] = Nothing THEN 0 ELSE Play!Swept[i].gen
  BY PlayNames DEF Play!NoOp
<1>3. generation \in Nat /\ Play!Swept[i] # Nothing =>
        Play!Swept[i] \in Play!GuardRecord /\ Play!Swept[i].gen <= generation
  BY SweptKept DEF GuardsSound
<1>4. generation \in Nat
  BY DEF PlayInv, GuardsSound
<1>5. o.gen \in Nat /\ o.gen <= generation
  BY <1>2, <1>3, <1>4 DEF Play!GuardRecord
<1> HIDE DEF o
<1>6. ClientSound(o, Play!Swept, generation)
  BY <1>2, <1>5 DEF ClientSound, AskSound
<1> QED BY <1>1, <1>6, SweptChange

\* The upstream denies it: a newer denial than any other, which is too late for those
\* that ask about the item already.
LEMMA StepInfoDenied ==
  ASSUME Play!Assumption, PlayInv, NEW c \in Clients, Play!InfoDenied(c)
  PROVE  PlayInv'
<1> DEFINE i == op[c].item
           g == [Play!Swept EXCEPT ![i] = [gen |-> Play!NextGeneration(i), old |-> FALSE]]
<1>1. /\ op[c].pc = "info" /\ generation' = generation + 1 /\ guard' = g /\ UNCHANGED row
      /\ op' = [d \in Clients |->
                  IF d = c THEN Play!NoOp
                  ELSE IF op[d].pc = "info" /\ op[d].item = i THEN [op[d] EXCEPT !.late = TRUE]
                  ELSE op[d]]
  BY DEF Play!InfoDenied
<1>2. /\ generation \in Nat /\ generation + 1 \in Nat /\ DOMAIN op = Clients
      /\ \A d \in Clients : ClientSound(op[d], guard, generation)
  BY DEF PlayInv, GuardsSound
<1>3. i \in Items
  BY <1>1, <1>2 DEF ClientSound, AskSound
<1>4. /\ DOMAIN Play!Swept = Items
      /\ \A j \in Items : Play!Swept[j] # Nothing =>
           /\ Play!Swept[j] \in Play!GuardRecord /\ Play!Swept[j].gen <= generation
           /\ guard[j] # Nothing /\ Play!Swept[j] = guard[j]
  BY SweptKept DEF GuardsSound
<1>5. /\ DOMAIN g = Items /\ g[i] = [gen |-> generation + 1, old |-> FALSE]
      /\ \A j \in Items \ {i} : g[j] = Play!Swept[j]
  BY <1>3, <1>4 DEF Play!NextGeneration
<1> HIDE DEF g
<1>6. GuardsSound(g, generation + 1)
  <2>1. g[i] \in Play!GuardRecord /\ g[i].gen <= generation + 1
    BY <1>2, <1>5 DEF Play!GuardRecord
  <2>2. \A j \in Items \ {i} : g[j] # Nothing =>
          g[j] \in Play!GuardRecord /\ g[j].gen <= generation + 1
    BY <1>2, <1>4, <1>5 DEF Play!GuardRecord
  <2> QED BY <1>2, <1>5, <2>1, <2>2 DEF GuardsSound
<1>7. ASSUME NEW d \in Clients PROVE ClientSound(op'[d], g, generation + 1)
  <2>1. ClientSound(op[d], guard, generation)
    BY <1>2
  <2>2. CASE d = c
    BY <1>1, <2>2, NoOpSound
  <2>3. CASE d # c /\ op[d].pc = "info" /\ op[d].item = i
    <3> DEFINE o == [op[d] EXCEPT !.late = TRUE]
    <3>1. op'[d] = o
      BY <1>1, <2>3
    <3>2. /\ DOMAIN o = DOMAIN Play!NoOp /\ o.pc = "info" /\ o.item = i /\ o.gen = op[d].gen
          /\ o.late = TRUE
      BY <2>1, <2>3, PlayNames DEF ClientSound
    <3>3. op[d].gen \in Nat /\ op[d].gen <= generation
      BY <2>1, <2>3 DEF ClientSound, AskSound
    <3>4. o.gen < generation + 1 /\ o.gen <= generation + 1 /\ o.gen \in Nat /\ o.late \in BOOLEAN
      BY <1>2, <3>2, <3>3
    <3>5. g[i].gen = generation + 1
      BY <1>5
    <3> HIDE DEF o, i
    <3>6. AskSound(o, g, generation + 1)
      BY <1>3, <3>2, <3>4, <3>5 DEF AskSound
    <3> QED BY <3>1, <3>2, <3>6 DEF ClientSound
  <2>4. CASE d # c /\ ~(op[d].pc = "info" /\ op[d].item = i)
    <3>1. op'[d] = op[d]
      BY <1>1, <2>4
    <3>2. CASE op[d].pc = "info"
      <4>1. AskSound(op[d], guard, generation) /\ op[d].item # i
        BY <2>1, <2>4, <3>2 DEF ClientSound
      <4>2. op[d].item \in Items /\ op[d].gen <= generation + 1
        BY <1>2, <4>1 DEF AskSound
      <4>3. AskSound(op[d], g, generation + 1)
        BY <1>4, <1>5, <4>1, <4>2 DEF AskSound
      <4> QED BY <2>1, <3>1, <3>2, <4>3 DEF ClientSound
    <3>3. CASE op[d].pc # "info"
      BY <2>1, <3>1, <3>3 DEF ClientSound
    <3> QED BY <3>2, <3>3
  <2> QED BY <2>2, <2>3, <2>4
<1>8. DOMAIN op' = Clients
  BY <1>1
<1>9. DOMAIN row = Items /\ \A j \in Items : row[j] # Nothing => Columned(row[j])
  BY DEF PlayInv
<1> QED BY <1>1, <1>6, <1>7, <1>8, <1>9 DEF PlayInv

\* The upstream grants it, or gives another answer; a denial grows old.
LEMMA StepInfoEnds ==
  ASSUME Play!Assumption, PlayInv, NEW c \in Clients, Play!InfoGranted(c) \/ Play!InfoFailed(c)
  PROVE  PlayInv'
<1>1. CASE Play!InfoFailed(c)
  <2>1. op' = [op EXCEPT ![c] = Play!NoOp] /\ UNCHANGED <<row, guard, generation>>
    BY <1>1 DEF Play!InfoFailed
  <2> QED BY <2>1, NoOpSound, ClientChange
<1>2. CASE Play!InfoGranted(c)
  <2> DEFINE i == op[c].item
  <2>1. /\ op' = [op EXCEPT ![c] = Play!NoOp] /\ UNCHANGED <<row, generation>>
        /\ guard' \in {[Play!Swept EXCEPT ![i] = Nothing], Play!Swept}
    BY <1>2 DEF Play!InfoGranted
  <2> HIDE DEF i
  <2>2. /\ DOMAIN Play!Swept = Items /\ generation \in Nat
        /\ \A j \in Items : Play!Swept[j] # Nothing =>
             /\ Play!Swept[j] \in Play!GuardRecord /\ Play!Swept[j].gen <= generation
             /\ guard[j] # Nothing /\ Play!Swept[j] = guard[j]
    BY SweptKept DEF GuardsSound
  <2>3. /\ DOMAIN guard' = Items
        /\ \A j \in Items : guard'[j] # Nothing => guard'[j] = Play!Swept[j]
    BY <2>1, <2>2
  <2>4. GuardsSound(guard', generation)
    BY <2>2, <2>3 DEF GuardsSound
  <2>5. \A d \in Clients : ClientSound(op[d], guard, generation)
    BY DEF PlayInv
  <2>6. \A d \in Clients : ClientSound(op[d], guard', generation)
    BY <2>2, <2>3, <2>5, ClientLasts
  <2>7. DOMAIN op' = Clients /\ \A d \in Clients : ClientSound(op'[d], guard', generation)
    BY <2>1, <2>6, NoOpSound DEF PlayInv
  <2>8. DOMAIN row = Items /\ \A j \in Items : row[j] # Nothing => Columned(row[j])
    BY DEF PlayInv
  <2> QED BY <2>1, <2>4, <2>7, <2>8 DEF PlayInv
<1> QED BY <1>1, <1>2

\* A denial grows old: it is the same denial.
LEMMA StepAge ==
  ASSUME Play!Assumption, PlayInv, NEW i \in Items, Play!Age(i)
  PROVE  PlayInv'
<1> DEFINE t == [guard[i] EXCEPT !.old = TRUE]
<1>1. guard[i] # Nothing /\ guard' = [guard EXCEPT ![i] = t] /\ UNCHANGED <<row, op, generation>>
  BY DEF Play!Age
<1>2. /\ GuardsSound(guard, generation) /\ DOMAIN guard = Items /\ generation \in Nat
      /\ guard[i] \in Play!GuardRecord /\ guard[i].gen <= generation
  BY <1>1 DEF PlayInv, GuardsSound
<1>3. t \in Play!GuardRecord /\ t.gen = guard[i].gen
  BY <1>2 DEF Play!GuardRecord
<1> HIDE DEF t
<1>4. DOMAIN guard' = Items /\ \A j \in Items : guard'[j] = IF j = i THEN t ELSE guard[j]
  BY <1>1, <1>2
<1>5. GuardsSound(guard', generation)
  BY <1>2, <1>3, <1>4 DEF GuardsSound
<1>6. \A j \in Items : guard'[j] # Nothing => guard[j] # Nothing /\ guard'[j].gen = guard[j].gen
  BY <1>1, <1>3, <1>4
<1>7. /\ DOMAIN op = Clients /\ \A d \in Clients : ClientSound(op[d], guard, generation)
      /\ DOMAIN row = Items /\ \A j \in Items : row[j] # Nothing => Columned(row[j])
  BY DEF PlayInv
<1>8. \A d \in Clients : ClientSound(op[d], guard', generation)
  BY <1>2, <1>6, <1>7, ClientLasts
<1> QED BY <1>1, <1>5, <1>7, <1>8 DEF PlayInv

-----------------------------------------------------------------------------
\* A report or a write begins, or a report is dropped.
LEMMA StepFindItem ==
  ASSUME Play!Assumption, PlayInv, NEW c \in Clients, NEW i \in Items,
         \/ \E r \in Reports : Play!Report(c, i, r)
         \/ \E w \in Writes : Play!Write(c, i, w)
  PROVE  PlayInv'
<1>1. ASSUME NEW r \in Reports, Play!Report(c, i, r) PROVE PlayInv'
  <2> DEFINE o == [Play!NoOp EXCEPT !.pc = "find", !.kind = "report", !.item = i, !.what = r]
  <2>1. /\ op' = [op EXCEPT ![c] = Play!NoOp] \/ op' = [op EXCEPT ![c] = o]
        /\ guard' = Play!Swept /\ UNCHANGED <<row, generation>>
    BY <1>1 DEF Play!Report, Play!Begin
  <2>2. /\ DOMAIN o = DOMAIN Play!NoOp /\ o.pc = "find" /\ o.kind = "report" /\ o.item = i
    BY PlayNames DEF Play!NoOp
  <2> HIDE DEF o
  <2>3. ClientSound(o, Play!Swept, generation)
    BY <2>2 DEF ClientSound, ChangeSound
  <2> QED BY <2>1, <2>3, NoOpSound, SweptChange
<1>2. ASSUME NEW w \in Writes, Play!Write(c, i, w) PROVE PlayInv'
  <2> DEFINE o == [Play!NoOp EXCEPT !.pc = "find", !.kind = "write", !.item = i, !.what = w]
  <2>1. op' = [op EXCEPT ![c] = o] /\ UNCHANGED <<row, guard, generation>>
    BY <1>2 DEF Play!Write, Play!Begin
  <2>2. /\ DOMAIN o = DOMAIN Play!NoOp /\ o.pc = "find" /\ o.kind = "write" /\ o.item = i
        /\ o.what = w
    BY PlayNames DEF Play!NoOp
  <2> HIDE DEF o
  <2>3. ClientSound(o, guard, generation)
    BY <2>2 DEF ClientSound, ChangeSound
  <2> QED BY <2>1, <2>3, ClientChange
<1> QED BY <1>1, <1>2

\* It finds the row and changes what it is about.
LEMMA StepFind ==
  ASSUME Play!Assumption, PlayInv, NEW c \in Clients, Play!Find(c)
  PROVE  PlayInv'
<1> DEFINE s == Play!StateForItem(op[c].item)
           w == op[c].what
           changed == IF op[c].kind = "report" THEN Play!Reported(s, Play!Details(w))
                                               ELSE Play!Written(s, w)
           next == IF op[c].kind = "write" THEN "enrich"
                   ELSE IF w.event # "stopped" THEN "save"
                   ELSE IF changed.runtime = 0 \/ Play!NeedsMetadata(changed) THEN "enrich"
                   ELSE "stop"
           o == [op[c] EXCEPT !.state = changed, !.read = s, !.pc = next]
<1>1. op[c].pc = "find" /\ op' = [op EXCEPT ![c] = o] /\ UNCHANGED <<row, guard, generation>>
  <2>1. op' = [op EXCEPT ![c].state = changed, ![c].read = s, ![c].pc = next]
    BY DEF Play!Find
  <2> HIDE DEF changed, s, next
  <2>2. c \in DOMAIN op
    BY DEF PlayInv
  <2>3. op' = [op EXCEPT ![c] = o]
    BY <2>1, <2>2
  <2> QED BY <2>3 DEF Play!Find
<1>2. ClientSound(op[c], guard, generation)
  BY DEF PlayInv
<1>3. /\ ChangeSound(op[c]) /\ DOMAIN op[c] = DOMAIN Play!NoOp /\ op[c].item \in Items
      /\ op[c].kind \in {"report", "write"} /\ (op[c].kind = "write" => op[c].what \in Writes)
  BY <1>1, <1>2 DEF ClientSound, ChangeSound
<1>4. Columned(s)
  BY <1>3 DEF PlayInv, Play!StateForItem, Columned
<1>5. next \in {"enrich", "save", "stop"} /\ (next = "stop" => op[c].kind # "write")
  OBVIOUS
<1> HIDE DEF s, next
<1>6. /\ Columned(changed)
      /\ \A f \in Play!UserColumns \ Play!Columns(op[c]) : changed[f] = s[f]
  <2>1. CASE op[c].kind = "report"
    <3>1. Play!Columns(op[c]) = {"played", "pos", "pct", "count"}
      BY <2>1 DEF Play!Columns
    <3> QED BY <1>4, <2>1, <3>1, ReportedFacts
  <2>2. CASE op[c].kind = "write"
    BY <1>3, <1>4, <2>2, WrittenFacts
  <2> QED BY <1>3, <2>1, <2>2
<1> HIDE DEF changed, w
<1>7. /\ DOMAIN o = DOMAIN Play!NoOp /\ o.state = changed /\ o.read = s /\ o.pc = next
      /\ o.kind = op[c].kind /\ o.item = op[c].item /\ o.what = op[c].what
  BY <1>3, PlayNames
<1> HIDE DEF o
<1>8. Play!Columns(o) = Play!Columns(op[c])
  BY <1>7 DEF Play!Columns
<1>9. ChangeSound(o)
  BY <1>3, <1>5, <1>6, <1>7, <1>8 DEF ChangeSound
<1>10. ClientSound(o, guard, generation)
  BY <1>5, <1>7, <1>9 DEF ClientSound
<1> QED BY <1>1, <1>10, ClientChange

\* The library's answer changes the metadata alone.
LEMMA StepEnrich ==
  ASSUME Play!Assumption, PlayInv, NEW c \in Clients, Play!Enrich(c)
  PROVE  PlayInv'
<1> DEFINE i == op[c].item
           merged == [Play!Merged(op[c].state, library[i]) EXCEPT !.orphan = FALSE]
           next == IF op[c].kind = "report" THEN "stop" ELSE "save"
<1>1. PICK t \in {merged, op[c].state} : op' = [op EXCEPT ![c].state = t, ![c].pc = next]
  BY DEF Play!Enrich
<1> DEFINE o == [op[c] EXCEPT !.state = t, !.pc = next]
<1> HIDE DEF merged, next
<1>2. op' = [op EXCEPT ![c] = o]
  BY <1>1 DEF PlayInv
<1>3. op[c].pc = "enrich" /\ UNCHANGED <<row, guard, generation>>
  BY DEF Play!Enrich
<1>4. ClientSound(op[c], guard, generation)
  BY DEF PlayInv
<1>5. /\ ChangeSound(op[c]) /\ DOMAIN op[c] = DOMAIN Play!NoOp /\ Columned(op[c].state)
      /\ op[c].kind \in {"report", "write"} /\ (op[c].kind = "write" => op[c].what \in Writes)
      /\ \A f \in Play!UserColumns \ Play!Columns(op[c]) : op[c].state[f] = op[c].read[f]
      /\ op[c].item \in Items
  BY <1>3, <1>4 DEF ClientSound, ChangeSound
<1>6. Columned(t) /\ \A f \in Play!UserColumns : t[f] = op[c].state[f]
  BY <1>5, MergedFacts DEF merged
<1>7. next \in {"stop", "save"} /\ (next = "stop" => op[c].kind = "report")
  BY DEF next
<1>8. /\ DOMAIN o = DOMAIN Play!NoOp /\ o.state = t /\ o.read = op[c].read /\ o.pc = next
      /\ o.kind = op[c].kind /\ o.item = op[c].item /\ o.what = op[c].what
  BY <1>5, PlayNames
<1> HIDE DEF o
<1>9. Play!Columns(o) = Play!Columns(op[c])
  BY <1>8 DEF Play!Columns
<1>10. ChangeSound(o)
  BY <1>5, <1>6, <1>7, <1>8, <1>9 DEF ChangeSound
<1>11. ClientSound(o, guard, generation)
  BY <1>7, <1>8, <1>10 DEF ClientSound
<1> QED BY <1>2, <1>3, <1>11, ClientChange

\* A stop is evaluated: what it may change is the report's.
LEMMA StepStop ==
  ASSUME Play!Assumption, PlayInv, NEW c \in Clients, Play!Stop(c)
  PROVE  PlayInv'
<1> DEFINE t == Play!Stopped(op[c].state, op[c].read.played)
           o == [op[c] EXCEPT !.state = t, !.pc = "save"]
<1>1. op[c].pc = "stop" /\ op' = [op EXCEPT ![c] = o] /\ UNCHANGED <<row, guard, generation>>
  <2>1. op' = [op EXCEPT ![c].state = t, ![c].pc = "save"]
    BY DEF Play!Stop
  <2> HIDE DEF t
  <2> QED BY <2>1 DEF Play!Stop, PlayInv
<1>2. ClientSound(op[c], guard, generation)
  BY DEF PlayInv
<1>3. /\ ChangeSound(op[c]) /\ DOMAIN op[c] = DOMAIN Play!NoOp /\ Columned(op[c].state)
      /\ op[c].kind \in {"report", "write"} /\ (op[c].kind = "write" => op[c].what \in Writes)
      /\ \A f \in Play!UserColumns \ Play!Columns(op[c]) : op[c].state[f] = op[c].read[f]
      /\ op[c].item \in Items /\ op[c].kind = "report"
  BY <1>1, <1>2 DEF ClientSound, ChangeSound
<1>4. /\ Columned(t)
      /\ \A f \in Play!UserColumns \ {"played", "pos", "pct", "count"} : t[f] = op[c].state[f]
  BY <1>3, StoppedFacts
<1>5. Play!Columns(op[c]) = {"played", "pos", "pct", "count"}
  BY <1>3 DEF Play!Columns
<1> HIDE DEF t
<1>6. /\ DOMAIN o = DOMAIN Play!NoOp /\ o.state = t /\ o.read = op[c].read /\ o.pc = "save"
      /\ o.kind = op[c].kind /\ o.item = op[c].item /\ o.what = op[c].what
  BY <1>3, PlayNames
<1> HIDE DEF o
<1>7. Play!Columns(o) = Play!Columns(op[c])
  BY <1>6 DEF Play!Columns
<1>8. ChangeSound(o)
  BY <1>3, <1>4, <1>5, <1>6, <1>7 DEF ChangeSound
<1>9. ClientSound(o, guard, generation)
  BY <1>6, <1>8 DEF ClientSound
<1> QED BY <1>1, <1>9, ClientChange

\* The row is saved, or the store fails.
LEMMA StepSave ==
  ASSUME Play!Assumption, PlayInv, NEW c \in Clients, Play!Save(c)
  PROVE  PlayInv'
<1>1. /\ op[c].pc = "save" /\ row' = [row EXCEPT ![op[c].item] = op[c].state]
      /\ op' = [op EXCEPT ![c] = Play!NoOp] /\ UNCHANGED <<guard, generation>>
  BY DEF Play!Save
<1>2. op[c].item \in Items /\ Columned(op[c].state)
  BY <1>1 DEF PlayInv, ClientSound, ChangeSound
<1>3. /\ DOMAIN row = Items /\ \A i \in Items : row[i] # Nothing => Columned(row[i])
      /\ DOMAIN op = Clients /\ \A d \in Clients : ClientSound(op[d], guard, generation)
      /\ GuardsSound(guard, generation)
  BY DEF PlayInv
<1>4. DOMAIN row' = Items /\ \A i \in Items : row'[i] # Nothing => Columned(row'[i])
  BY <1>1, <1>2, <1>3
<1>5. DOMAIN op' = Clients /\ \A d \in Clients : ClientSound(op'[d], guard, generation)
  BY <1>1, <1>3, NoOpSound
<1> QED BY <1>1, <1>3, <1>4, <1>5 DEF PlayInv

\* A request that the store or the upstream fails ends and has changed no row.
LEMMA StepFails ==
  ASSUME Play!Assumption, PlayInv, NEW c \in Clients, Play!StoreFails(c) \/ Play!FetchFails(c)
  PROVE  PlayInv'
<1>1. op' = [op EXCEPT ![c] = Play!NoOp] /\ UNCHANGED <<row, guard, generation>>
  BY DEF Play!StoreFails, Play!FetchFails
<1> QED BY <1>1, NoOpSound, ClientChange

-----------------------------------------------------------------------------
\* A list: the rows are looked up, and next-up keeps them.
LEMMA StepListItems ==
  ASSUME Play!Assumption, PlayInv, NEW c \in Clients, NEW kind \in Play!Listed,
         Play!List(c, kind)
  PROVE  PlayInv'
<1> DEFINE ids == {i \in Items : Play!InList(row[i], kind)}
           o == [Play!NoOp EXCEPT !.pc = "fetch", !.kind = kind, !.left = ids, !.read = row]
<1>1. /\ op' = [op EXCEPT ![c] = Play!NoOp] \/ op' = [op EXCEPT ![c] = o]
      /\ UNCHANGED <<row, guard, generation>>
  BY DEF Play!List, Play!Begin
<1>2. /\ DOMAIN o = DOMAIN Play!NoOp /\ o.pc = "fetch" /\ o.left = ids /\ o.read = row
  BY PlayNames DEF Play!NoOp
<1>3. \A i \in ids : i \in Items /\ Columned(row[i])
  BY DEF Play!InList, PlayInv
<1> HIDE DEF o, ids
<1>4. ClientSound(o, guard, generation)
  BY <1>2, <1>3 DEF ClientSound, ListSound
<1> QED BY <1>1, <1>4, NoOpSound, ClientChange

\* The library answers.
LEMMA StepFetchItems ==
  ASSUME Play!Assumption, PlayInv, NEW c \in Clients, Play!Fetch(c)
  PROVE  PlayInv'
<1>1. /\ op[c].pc = "fetch" /\ UNCHANGED <<row, guard, generation>>
  BY DEF Play!Fetch
<1>2. PICK found \in SUBSET {i \in op[c].left : library[i] # 0} :
           op' = [op EXCEPT ![c].found = {<<i, library[i]>> : i \in found}, ![c].pc = "load",
                ![c].left =
                  IF op[c].kind # "nextup" THEN @
                  ELSE found \cup
                         {i \in @ : /\ Play!IsComplete(@, found)
                                    /\ Play!NeedsMetadata(op[c].read[i])
                                    /\ op[c].read[i].played \/ op[c].read[i].pos # 0}]
  BY DEF Play!Fetch
<1> DEFINE pairs == {<<i, library[i]>> : i \in found}
           left == IF op[c].kind # "nextup" THEN op[c].left
                   ELSE found \cup
                          {i \in op[c].left :
                             /\ Play!IsComplete(op[c].left, found)
                             /\ Play!NeedsMetadata(op[c].read[i])
                             /\ op[c].read[i].played \/ op[c].read[i].pos # 0}
           o == [op[c] EXCEPT !.found = pairs, !.pc = "load", !.left = left]
<1>3. ClientSound(op[c], guard, generation) /\ DOMAIN op = Clients
  BY DEF PlayInv
<1>4. DOMAIN op[c] = DOMAIN Play!NoOp /\ ListSound(op[c])
  BY <1>1, <1>3 DEF ClientSound
<1>5. op' = [op EXCEPT ![c] = o]
  BY <1>2, <1>3, <1>4, PlayNames
<1>6. left \subseteq op[c].left
  OBVIOUS
<1> HIDE DEF pairs, left
<1>7. /\ DOMAIN o = DOMAIN Play!NoOp /\ o.pc = "load" /\ o.left = left /\ o.read = op[c].read
      /\ o.kind = op[c].kind
  BY <1>4, PlayNames
<1> HIDE DEF o
<1>8. ListSound(o)
  BY <1>4, <1>6, <1>7 DEF ListSound
<1>9. ClientSound(o, guard, generation)
  BY <1>7, <1>8 DEF ClientSound
<1> QED BY <1>1, <1>5, <1>9, ClientChange

\* The next row that is left.
LEMMA StepLoadItem ==
  ASSUME Play!Assumption, PlayInv, NEW c \in Clients, Play!Load(c)
  PROVE  PlayInv'
<1>1. op[c].pc = "load" /\ UNCHANGED <<row, guard, generation>>
  BY DEF Play!Load
<1>2. ClientSound(op[c], guard, generation) /\ DOMAIN op = Clients
  BY DEF PlayInv
<1>3. DOMAIN op[c] = DOMAIN Play!NoOp /\ ListSound(op[c])
  BY <1>1, <1>2 DEF ClientSound
<1>4. CASE op[c].left = {}
  <2>1. op' = [op EXCEPT ![c] = Play!NoOp]
    BY <1>4 DEF Play!Load
  <2> QED BY <1>1, <2>1, NoOpSound, ClientChange
<1>5. CASE op[c].left # {}
  <2>1. PICK i \in op[c].left :
          op' = [op EXCEPT ![c].item = i, ![c].left = @ \ {i}, ![c].pc = "resolve",
                     ![c].state = IF op[c].kind = "nextup" THEN op[c].read[i]
                                  ELSE Play!StateForItem(i)]
    BY <1>5 DEF Play!Load
  <2> DEFINE s == IF op[c].kind = "nextup" THEN op[c].read[i] ELSE Play!StateForItem(i)
             left == op[c].left \ {i}
             o == [op[c] EXCEPT !.item = i, !.left = left, !.pc = "resolve", !.state = s]
  <2>2. op' = [op EXCEPT ![c] = o]
    BY <1>2, <1>3, <2>1, PlayNames
  <2>3. i \in Items /\ left \subseteq op[c].left
    BY <1>3 DEF ListSound
  <2>4. Columned(s)
    <3>1. CASE op[c].kind = "nextup"
      BY <1>3, <3>1 DEF ListSound
    <3>2. CASE op[c].kind # "nextup"
      BY <2>3, <3>2 DEF Play!StateForItem, PlayInv, Columned
    <3> QED BY <3>1, <3>2
  <2> HIDE DEF s, left
  <2>5. /\ DOMAIN o = DOMAIN Play!NoOp /\ o.pc = "resolve" /\ o.left = left
        /\ o.read = op[c].read /\ o.kind = op[c].kind /\ o.item = i /\ o.state = s
    BY <1>3, PlayNames
  <2> HIDE DEF o
  <2>6. ListSound(o)
    BY <1>3, <2>3, <2>4, <2>5 DEF ListSound
  <2>7. ClientSound(o, guard, generation)
    BY <2>5, <2>6 DEF ClientSound
  <2> QED BY <1>1, <2>2, <2>7, ClientChange
<1> QED BY <1>4, <1>5

\* A list that goes on with the row it has resolved or left.
LEMMA ResolvedSound ==
  ASSUME PlayInv, NEW c \in Clients, op[c].pc = "resolve", op' = [op EXCEPT ![c].pc = "load"]
  PROVE  DOMAIN op' = Clients /\ \A d \in Clients : ClientSound(op'[d], guard, generation)
<1> DEFINE o == [op[c] EXCEPT !.pc = "load"]
<1>1. DOMAIN op = Clients /\ \A d \in Clients : ClientSound(op[d], guard, generation)
  BY DEF PlayInv
<1>2. DOMAIN op[c] = DOMAIN Play!NoOp /\ ListSound(op[c])
  BY <1>1 DEF ClientSound
<1>3. op' = [op EXCEPT ![c] = o]
  BY <1>1
<1>4. /\ DOMAIN o = DOMAIN Play!NoOp /\ o.pc = "load" /\ o.left = op[c].left
      /\ o.read = op[c].read /\ o.kind = op[c].kind
  BY <1>2, PlayNames
<1> HIDE DEF o
<1>5. ListSound(o)
  BY <1>2, <1>4 DEF ListSound
<1>6. ClientSound(o, guard, generation)
  BY <1>4, <1>5 DEF ClientSound
<1> QED BY <1>1, <1>3, <1>6

\* What SavePlaybackResolution writes: the metadata, and a row if there was none.
LEMMA SavedResolutionFacts ==
  ASSUME NEW i \in Items, NEW s, Columned(s), row[i] # Nothing => Columned(row[i])
  PROVE  /\ Columned(Play!SavedResolution(i, s))
         /\ row[i] # Nothing =>
              \A f \in Play!UserColumns : Play!SavedResolution(i, s)[f] = row[i][f]
<1>1. CASE row[i] = Nothing
  BY <1>1 DEF Play!SavedResolution
<1>2. CASE row[i] # Nothing
  <2>1. Play!SavedResolution(i, s) =
          [f \in DOMAIN s |-> IF f \in Play!Metadata THEN s[f] ELSE row[i][f]]
    BY <1>2 DEF Play!SavedResolution
  <2>2. \A f \in Play!UserColumns : f \in DOMAIN s /\ f \notin Play!Metadata
    BY DEF Columned, Play!UserColumns
  <2> QED BY <2>1, <2>2 DEF Columned
<1> QED BY <1>1, <1>2

\* The row a list resolves is saved as the library has it, or is skipped.
LEMMA StepResolveItem ==
  ASSUME Play!Assumption, PlayInv, NEW c \in Clients, Play!Resolve(c) \/ Play!Skip(c)
  PROVE  PlayInv'
<1>1. op[c].pc = "resolve" /\ op' = [op EXCEPT ![c].pc = "load"] /\ UNCHANGED <<guard, generation>>
  BY DEF Play!Resolve, Play!Skip
<1>2. DOMAIN op' = Clients /\ \A d \in Clients : ClientSound(op'[d], guard, generation)
  BY <1>1, ResolvedSound
<1>3. /\ DOMAIN row = Items /\ \A i \in Items : row[i] # Nothing => Columned(row[i])
      /\ GuardsSound(guard, generation) /\ ClientSound(op[c], guard, generation)
  BY DEF PlayInv
<1>4. op[c].item \in Items /\ Columned(op[c].state)
  BY <1>1, <1>3 DEF ClientSound, ListSound
<1>5. DOMAIN row' = Items /\ \A i \in Items : row'[i] # Nothing => Columned(row'[i])
  <2>1. CASE Play!Skip(c)
    BY <1>3, <2>1 DEF Play!Skip
  <2>2. CASE Play!Resolve(c)
    <3> DEFINE i == op[c].item
               present == \E p \in op[c].found : p[1] = i
               identity == IF present THEN (CHOOSE p \in op[c].found : p[1] = i)[2] ELSE 0
               t == Play!SavedResolution(i, Play!Reconciled(op[c].state, present, identity))
    <3>1. row' = [row EXCEPT ![i] = t]
      BY <2>2 DEF Play!Resolve
    <3>2. Columned(Play!Reconciled(op[c].state, present, identity))
      BY <1>4, MergedFacts
    <3>3. Columned(t)
      BY <1>3, <1>4, <3>2, SavedResolutionFacts
    <3> HIDE DEF t, i
    <3> QED BY <1>3, <3>1, <3>3
  <2> QED BY <2>1, <2>2
<1> QED BY <1>1, <1>2, <1>3, <1>5 DEF PlayInv

-----------------------------------------------------------------------------
\* At the start there is no row, no request and no denial.
LEMMA PlayStarts ==
  ASSUME Play!Init
  PROVE  PlayInv
<1>1. /\ row = [i \in Items |-> Nothing] /\ op = [c \in Clients |-> Play!NoOp]
      /\ guard = [i \in Items |-> Nothing] /\ generation = 0
  BY DEF Play!Init
<1> QED BY <1>1, NoOpSound DEF PlayInv, GuardsSound

\* Every action keeps the invariant: one lemma above for each of them.
LEMMA StepPlay ==
  ASSUME Play!Assumption, PlayInv, [Play!Next]_(Play!vars)
  PROVE  PlayInv'
<1>1. CASE UNCHANGED Play!vars
  <2>1. UNCHANGED <<row, op, guard, generation>>
    BY <1>1 DEF Play!vars
  <2> QED BY <2>1 DEF PlayInv
<1>2. CASE \E c \in Clients, i \in Items : Play!InfoBegin(c, i)
  BY <1>2, StepInfoBegin
<1>3. CASE \E c \in Clients, i \in Items : \/ \E r \in Reports : Play!Report(c, i, r)
                                           \/ \E w \in Writes : Play!Write(c, i, w)
  BY <1>3, StepFindItem
<1>4. CASE \E c \in Clients : Play!InfoDenied(c)
  BY <1>4, StepInfoDenied
<1>5. CASE \E c \in Clients : Play!InfoGranted(c) \/ Play!InfoFailed(c)
  BY <1>5, StepInfoEnds
<1>6. CASE \E c \in Clients : Play!Find(c)
  BY <1>6, StepFind
<1>7. CASE \E c \in Clients : Play!Enrich(c)
  BY <1>7, StepEnrich
<1>8. CASE \E c \in Clients : Play!Stop(c)
  BY <1>8, StepStop
<1>9. CASE \E c \in Clients : Play!Save(c)
  BY <1>9, StepSave
<1>10. CASE \E c \in Clients : Play!StoreFails(c) \/ Play!FetchFails(c)
  BY <1>10, StepFails
<1>11. CASE \E c \in Clients, kind \in Play!Listed : Play!List(c, kind)
  BY <1>11, StepListItems
<1>12. CASE \E c \in Clients : Play!Fetch(c)
  BY <1>12, StepFetchItems
<1>13. CASE \E c \in Clients : Play!Load(c)
  BY <1>13, StepLoadItem
<1>14. CASE \E c \in Clients : Play!Resolve(c) \/ Play!Skip(c)
  BY <1>14, StepResolveItem
<1>15. CASE \E i \in Items : Play!Age(i)
  BY <1>15, StepAge
<1>16. CASE \E i \in Items : Play!Librarian(i)
  <2>1. UNCHANGED <<row, op, guard, generation>>
    BY <1>16 DEF Play!Librarian
  <2> QED BY <2>1 DEF PlayInv
<1> QED BY <1>1, <1>2, <1>3, <1>4, <1>5, <1>6, <1>7, <1>8, <1>9, <1>10, <1>11, <1>12, <1>13,
           <1>14, <1>15, <1>16 DEF Play!Next

\* Which steps change rows.
LEMMA RowChanges ==
  ASSUME [Play!Next]_(Play!vars)
  PROVE  \/ UNCHANGED row
         \/ \E c \in Clients : Play!Save(c) \/ Play!Resolve(c)
<1>1. CASE UNCHANGED Play!vars
  BY <1>1 DEF Play!vars
<1>2. CASE Play!Next
  <2>1. ASSUME NEW c \in Clients,
               \/ \E i \in Items : \/ Play!InfoBegin(c, i)
                                   \/ \E r \in Reports : Play!Report(c, i, r)
                                   \/ \E w \in Writes : Play!Write(c, i, w)
               \/ Play!InfoDenied(c) \/ Play!InfoGranted(c) \/ Play!InfoFailed(c)
               \/ Play!Find(c) \/ Play!Enrich(c) \/ Play!Stop(c) \/ Play!StoreFails(c)
               \/ \E kind \in Play!Listed : Play!List(c, kind)
               \/ Play!Fetch(c) \/ Play!FetchFails(c) \/ Play!Load(c) \/ Play!Skip(c)
        PROVE  UNCHANGED row
    BY <2>1 DEF Play!InfoBegin, Play!Report, Play!Write, Play!InfoDenied, Play!InfoGranted,
                Play!InfoFailed, Play!Find, Play!Enrich, Play!Stop, Play!StoreFails, Play!List,
                Play!Fetch, Play!FetchFails, Play!Load, Play!Skip
  <2>2. ASSUME NEW i \in Items, Play!Age(i) \/ Play!Librarian(i) PROVE UNCHANGED row
    BY <2>2 DEF Play!Age, Play!Librarian
  <2> QED BY <1>2, <2>1, <2>2 DEF Play!Next
<1> QED BY <1>1, <1>2

\* Whoever changes a column of the user is about it, or did not know what it was.
LEMMA UserDataKept ==
  ASSUME Play!Assumption, PlayInv, [Play!Next]_(Play!vars)
  PROVE  Play!KeepsUserData
<1>1. SUFFICES ASSUME NEW i \in Items, row[i] # Nothing, row'[i] # row[i],
                      NEW f \in Play!UserColumns, row'[i][f] # row[i][f]
               PROVE  \E c \in Clients : /\ op[c].pc = "save" /\ op[c].item = i
                                         /\ f \in Play!Columns(op[c]) \/ op[c].read[f] # row[i][f]
  BY DEF Play!KeepsUserData
<1>2. /\ DOMAIN row = Items /\ \A j \in Items : row[j] # Nothing => Columned(row[j])
      /\ \A c \in Clients : ClientSound(op[c], guard, generation)
  BY DEF PlayInv
<1>3. PICK c \in Clients : Play!Save(c) \/ Play!Resolve(c)
  BY <1>1, RowChanges
<1>4. CASE Play!Save(c)
  <2>1. op[c].pc = "save" /\ row' = [row EXCEPT ![op[c].item] = op[c].state]
    BY <1>4 DEF Play!Save
  <2>2. op[c].item = i /\ row'[i] = op[c].state
    BY <1>1, <1>2, <2>1
  <2>3. ChangeSound(op[c])
    BY <1>2, <2>1 DEF ClientSound
  <2>4. f \notin Play!Columns(op[c]) => op[c].state[f] = op[c].read[f]
    BY <1>1, <2>1, <2>3 DEF ChangeSound
  <2> QED BY <1>1, <2>1, <2>2, <2>4
<1>5. CASE Play!Resolve(c)
  <2> DEFINE k == op[c].item
             present == \E p \in op[c].found : p[1] = k
             identity == IF present THEN (CHOOSE p \in op[c].found : p[1] = k)[2] ELSE 0
             s == Play!Reconciled(op[c].state, present, identity)
             t == Play!SavedResolution(k, s)
  <2>1. op[c].pc = "resolve" /\ row' = [row EXCEPT ![k] = t]
    BY <1>5 DEF Play!Resolve
  <2>2. k \in Items /\ Columned(op[c].state)
    BY <1>2, <2>1 DEF ClientSound, ListSound
  <2>3. Columned(s)
    BY <2>2, MergedFacts
  <2> HIDE DEF s
  <2>4. row[k] # Nothing => t[f] = row[k][f]
    BY <1>1, <1>2, <2>2, <2>3, SavedResolutionFacts
  <2> HIDE DEF t, k
  <2>5. k = i /\ row'[i] = t
    BY <1>1, <1>2, <2>1
  <2> QED BY <1>1, <2>4, <2>5
<1> QED BY <1>3, <1>4, <1>5

\* A denial in force is taken back by a playback that began after it.
LEMMA DenialsKept ==
  ASSUME Play!Assumption, PlayInv, [Play!Next]_(Play!vars)
  PROVE  Play!KeepsDenials
<1>1. SUFFICES ASSUME NEW i \in Items, guard[i] # Nothing, ~guard[i].old, guard'[i] = Nothing
               PROVE  \E c \in Clients : op[c].pc = "info" /\ op[c].item = i /\ ~op[c].late
  BY DEF Play!KeepsDenials
<1>2. /\ DOMAIN guard = Items /\ guard[i] \in Play!GuardRecord /\ guard[i].gen \in Nat
      /\ DOMAIN Play!Swept = Items /\ Play!Swept[i] = guard[i]
      /\ \A c \in Clients : ClientSound(op[c], guard, generation)
      /\ generation \in Nat
  <2>1. GuardsSound(guard, generation) /\ \A c \in Clients : ClientSound(op[c], guard, generation)
    BY DEF PlayInv
  <2>2. guard[i] \in Play!GuardRecord /\ DOMAIN guard = Items /\ generation \in Nat
    BY <1>1, <2>1 DEF GuardsSound
  <2>3. DOMAIN Play!Swept = Items /\ Play!Swept[i] = guard[i]
    BY <1>1, SweptKept DEF GuardsSound
  <2> QED BY <2>1, <2>2, <2>3 DEF Play!GuardRecord
<1>3. guard' # guard /\ guard' # Play!Swept
  BY <1>1, <1>2
<1>4. ~ \E j \in Items : Play!Age(j)
  <2>1. SUFFICES ASSUME NEW j \in Items, Play!Age(j) PROVE FALSE
    OBVIOUS
  <2>2. guard[j] # Nothing /\ guard' = [guard EXCEPT ![j].old = TRUE]
    BY <2>1 DEF Play!Age
  <2>3. j = i
    BY <1>1, <1>2, <2>2
  <2>4. guard'[i] = [guard[i] EXCEPT !.old = TRUE]
    BY <1>2, <2>2, <2>3
  <2>5. guard'[i] \in Play!GuardRecord
    BY <1>2, <2>4 DEF Play!GuardRecord
  <2> QED BY <1>1, <2>5 DEF Play!Assumption
<1>5. ~ \E c \in Clients : Play!InfoDenied(c)
  <2>1. SUFFICES ASSUME NEW c \in Clients, Play!InfoDenied(c) PROVE FALSE
    OBVIOUS
  <2> DEFINE k == op[c].item
             t == [gen |-> generation + 1, old |-> FALSE]
  <2>2. guard' = [Play!Swept EXCEPT ![k] = t]
    BY <2>1 DEF Play!InfoDenied, Play!NextGeneration
  <2>3. t \in Play!GuardRecord
    BY <1>2 DEF Play!GuardRecord
  <2> HIDE DEF t, k
  <2>4. guard'[i] \in {t, guard[i]}
    BY <1>2, <2>2
  <2> QED BY <1>1, <2>3, <2>4 DEF Play!Assumption
<1>6. \E c \in Clients : Play!InfoGranted(c)
  <2>1. ~ UNCHANGED Play!vars
    BY <1>3 DEF Play!vars
  <2>2. ASSUME NEW c \in Clients,
               \/ \E j \in Items : \/ Play!InfoBegin(c, j)
                                   \/ \E r \in Reports : Play!Report(c, j, r)
                                   \/ \E w \in Writes : Play!Write(c, j, w)
               \/ Play!InfoFailed(c)
               \/ Play!Find(c) \/ Play!Enrich(c) \/ Play!Stop(c) \/ Play!Save(c)
               \/ Play!StoreFails(c)
               \/ \E kind \in Play!Listed : Play!List(c, kind)
               \/ Play!Fetch(c) \/ Play!FetchFails(c) \/ Play!Load(c) \/ Play!Resolve(c)
               \/ Play!Skip(c)
        PROVE  FALSE
    <3>1. guard' \in {guard, Play!Swept}
      BY <2>2 DEF Play!InfoBegin, Play!Report, Play!Write, Play!InfoFailed, Play!Find,
                  Play!Enrich, Play!Stop, Play!Save, Play!StoreFails, Play!List, Play!Fetch,
                  Play!FetchFails, Play!Load, Play!Resolve, Play!Skip
    <3> QED BY <1>3, <3>1
  <2>3. ASSUME NEW j \in Items, Play!Librarian(j) PROVE FALSE
    BY <1>3, <2>3 DEF Play!Librarian
  <2> QED BY <1>4, <1>5, <2>1, <2>2, <2>3 DEF Play!Next
<1>7. PICK c \in Clients : Play!InfoGranted(c)
  BY <1>6
<1> DEFINE k == op[c].item
<1>8. /\ op[c].pc = "info"
      /\ guard' = IF op[c].gen # 0 /\ Play!Swept[k] # Nothing /\ Play!Swept[k].gen = op[c].gen
                  THEN [Play!Swept EXCEPT ![k] = Nothing] ELSE Play!Swept
  BY <1>7 DEF Play!InfoGranted
<1>9. AskSound(op[c], guard, generation)
  BY <1>2, <1>8 DEF ClientSound
<1>10. k = i /\ Play!Swept[k].gen = op[c].gen
  BY <1>1, <1>2, <1>3, <1>8
<1>11. op[c].late => op[c].gen < guard[i].gen
  BY <1>1, <1>9, <1>10 DEF AskSound
<1> QED BY <1>2, <1>8, <1>9, <1>10, <1>11 DEF AskSound

\* Whatever else the clients, the library and the clock do meanwhile: a column of the
\* user changes by a request about it, or by one that overlapped another one's change,
\* and a denial in force is taken back only by a playback that began after it
\* (recordPlaybackRequest, handlePersonalStateWrite, SavePlaybackResolution,
\* playbackGuardTracker).
THEOREM PlaybackKeeps ==
  ASSUME Play!Assumption
  PROVE  Play!Spec => [][Play!KeepsUserData /\ Play!KeepsDenials]_(Play!vars)
<1>1. Play!Init => PlayInv
  BY PlayStarts
<1>2. PlayInv /\ [Play!Next]_(Play!vars) => PlayInv'
  BY StepPlay
<1>3. PlayInv /\ [Play!Next]_(Play!vars) => Play!KeepsUserData /\ Play!KeepsDenials
  BY UserDataKept, DenialsKept
<1> QED BY <1>1, <1>2, <1>3, PTL DEF Play!Spec

-----------------------------------------------------------------------------
(* The live record of a copy: what its observer counts, and what really was  *)

ProducerValues == {"idle", "reading", "waiting", "done"}
WordOf(V, n) == [value : V, at : 0..n]
Phases == {"idle", "reading", "asked", "waiting", "answered", "done"}
LookRecord ==
  [pc : {"none", "producer", "blocker", "begin", "end"},
   producer : WordOf(ProducerValues, clock) \cup {Nothing}, now : 0..clock, start : 0..clock]

WatchTyped ==
  /\ clock \in Nat /\ slack \in Nat /\ poolWait \in 0..(clock + 1)
  /\ producer \in WordOf(ProducerValues, clock)
  /\ consumer \in WordOf({"idle", "waiting", "writing", "done"}, clock)
  /\ lifecycle \in WordOf({"starting", "active", "closing"}, clock)
  /\ blocker \in WordOf({"pool_exhausted", "at_target", "none"}, clock)
  /\ phase \in Phases /\ terminal \in BOOLEAN
  /\ refresh \in [{"producer", "controller"} -> LookRecord]
  /\ total \in [Observer!Conditions -> Nat] /\ longest \in [Observer!Conditions -> Nat]
  /\ waited \in [Observer!Conditions -> Nat]
  /\ \A c \in Observer!Conditions : longest[c] <= total[c]

\* Where the producer is shows in its word; at the end nobody waits.
WatchPhases ==
  /\ producer.value = "reading" <=> phase = "reading"
  /\ producer.value = "waiting" <=> phase = "waiting"
  /\ consumer.value \in {"waiting", "writing"} => lifecycle.value = "active"
  /\ phase = "done" => lifecycle.value = "closing"
  /\ terminal => phase = "done"

Mine == refresh["producer"]
Other == refresh["controller"]

\* The refresh of the controller has found contention or will find it, and since when:
\* the blocker does not change while it is under way.
Contends ==
  \/ Other.pc = "begin"
  \/ Other.pc = "producer" /\ producer.value = "waiting" /\ blocker.value = "pool_exhausted"
  \/ /\ Other.pc = "blocker" /\ Other.producer.value = "waiting"
     /\ blocker.value = "pool_exhausted"
ContendsSince ==
  IF Other.pc = "begin" THEN Other.start
  ELSE IF Other.pc = "producer" THEN Observer!Larger(producer.at, blocker.at)
  ELSE Observer!Larger(Other.producer.at, blocker.at)

\* The refreshes: what the producer's has read is still true; what the controller's has
\* read is true of this wait or was true of the one that has been answered.
WatchLooks ==
  /\ Mine.pc # "none" => phase \in {"waiting", "answered"} /\ Mine.now = producer.at
  /\ Mine.pc = "blocker" => Mine.producer = producer
  /\ Mine.pc = "begin" => phase = "waiting" /\ producer.at <= Mine.start
  /\ Other.pc = "begin" =>
       /\ blocker.value = "pool_exhausted" /\ phase \in {"waiting", "answered"}
       /\ phase = "waiting" => producer.at <= Other.start
  /\ Other.pc = "blocker" =>
       /\ Other.producer \in WordOf(ProducerValues, clock)
       /\ Other.producer.value = "waiting" =>
            phase \in {"waiting", "answered"} /\ (phase = "waiting" => Other.producer = producer)
  /\ terminal => Other.pc = "none"

\* Where a contention may be open: while the producer waits, since it waits, or else
\* somebody is about to end it.
WatchOpen ==
  /\ phase = "waiting" /\ poolWait # 0 => producer.at <= poolWait - 1
  /\ phase = "asked" => poolWait = 0
  /\ phase \in {"idle", "reading", "done"} /\ Other.pc = "none" => poolWait = 0
  /\ phase = "answered" /\ Mine.pc = "none" /\ Contends => poolWait = 0
  /\ phase = "answered" /\ Mine.pc = "none" /\ Other.pc = "none" /\ blocker.value = "none" =>
       poolWait = 0

Open == IF poolWait = 0 THEN 0 ELSE clock - (poolWait - 1)
Counted == total["pool_contention"]
Bound == waited["buffer_acquire"] + slack

\* What is counted, with what is open and what a refresh under way will still open, is
\* within the time spent waiting and in refreshes.
WatchBooks ==
  /\ Counted + Open <= Bound
  /\ Mine.pc # "none" /\ phase = "waiting" =>
       Counted + (IF poolWait = 0 /\ Contends THEN clock - ContendsSince ELSE Open)
         + (clock - producer.at) <= Bound
  /\ phase = "waiting" /\ Contends => Counted + Open + (clock - ContendsSince) <= Bound
  /\ phase = "answered" /\ Contends =>
       Counted + (IF poolWait = 0 THEN 0 ELSE Observer!Larger(Mine.now - (poolWait - 1), 0))
         + (clock - ContendsSince) <= Bound

\* WaitsAreExact, of one wait: what is counted, with what is under way.
Exact(c, holds, since) ==
  waited[c] = total[c] + (IF holds /\ ~terminal THEN clock - since ELSE 0)
WatchWaits ==
  /\ Exact("close_join_stall", lifecycle.value = "closing", lifecycle.at)
  /\ Exact("downstream_stall", consumer.value = "writing", consumer.at)
  /\ Exact("consumer_starvation", consumer.value = "waiting", consumer.at)
  /\ Exact("upstream_stall", producer.value = "reading", producer.at)
  /\ Exact("buffer_acquire", producer.value = "waiting", producer.at)

WatchInv ==
  WatchTyped /\ WatchPhases /\ WatchLooks /\ WatchOpen /\ WatchBooks /\ WatchWaits
-----------------------------------------------------------------------------
\* The conditions, and what is added to a total.
LEMMA ConditionNames ==
  Observer!Conditions = {"buffer_acquire", "pool_contention", "consumer_starvation",
                         "upstream_stall", "downstream_stall", "close_join_stall"}
BY DEF Observer!Conditions

\* A wait of d ends: the total of its condition grows, and no other.
LEMMA WaitFinished ==
  ASSUME WatchTyped, NEW c \in Observer!Conditions, NEW d \in Int, Observer!FinishWait(c, d)
  PROVE  /\ total' \in [Observer!Conditions -> Nat] /\ longest' \in [Observer!Conditions -> Nat]
         /\ \A e \in Observer!Conditions : longest'[e] <= total'[e]
         /\ \A e \in Observer!Conditions \ {c} : total'[e] = total[e]
         /\ total'[c] = total[c] + (IF d > 0 THEN d ELSE 0)
<1> DEFINE x == IF d > 0 THEN d ELSE 0
<1>1. x \in Nat /\ Observer!Larger(d, 0) = x
  BY DEF Observer!Larger
<1>2. /\ total' = [total EXCEPT ![c] = total[c] + x]
      /\ longest' = [longest EXCEPT ![c] = IF longest[c] > d THEN longest[c] ELSE d]
  BY <1>1 DEF Observer!FinishWait, Observer!Larger
<1> HIDE DEF x
<1>3. /\ total \in [Observer!Conditions -> Nat] /\ longest \in [Observer!Conditions -> Nat]
      /\ \A e \in Observer!Conditions : longest[e] <= total[e]
  BY DEF WatchTyped
<1>4. /\ total'[c] = total[c] + x /\ total[c] + x \in Nat
      /\ longest'[c] \in Nat /\ longest'[c] <= total[c] + x
  <2>1. total[c] \in Nat /\ longest[c] \in Nat /\ longest[c] <= total[c]
    BY <1>3
  <2>2. longest'[c] = IF longest[c] > d THEN longest[c] ELSE d
    BY <1>2, <1>3
  <2>3. x = IF d > 0 THEN d ELSE 0
    BY DEF x
  <2>4. total'[c] = total[c] + x
    BY <1>2, <1>3
  <2> QED BY <2>1, <2>2, <2>3, <2>4
<1>5. \A e \in Observer!Conditions \ {c} : total'[e] = total[e] /\ longest'[e] = longest[e]
  BY <1>2, <1>3
<1>6. total' \in [Observer!Conditions -> Nat] /\ longest' \in [Observer!Conditions -> Nat]
  BY <1>1, <1>2, <1>3, <1>4
<1> QED BY <1>3, <1>4, <1>5, <1>6 DEF x

\* A refresh of a becomes r; the other one stays.
LEMMA LookChange ==
  ASSUME WatchTyped, NEW a \in Observer!Actors, NEW r \in LookRecord,
         refresh' = [refresh EXCEPT ![a] = r]
  PROVE  /\ refresh' \in [{"producer", "controller"} -> LookRecord]
         /\ a = "producer" => Mine' = r /\ Other' = Other
         /\ a = "controller" => Mine' = Mine /\ Other' = r
BY DEF WatchTyped, Observer!Actors, Mine, Other

\* A refresh begins at the present time.
LEMMA RefreshBegun ==
  ASSUME WatchTyped, NEW a
  PROVE  \E r \in LookRecord : /\ r.pc = "producer" /\ r.now = clock
                              /\ Observer!Refreshing(a) = [refresh EXCEPT ![a] = r]
<1> DEFINE n == Observer!NoRefresh
           r == [n EXCEPT !.pc = "producer", !.now = clock]
<1>1. clock \in Nat
  BY DEF WatchTyped
<1>2. n \in LookRecord
  <2>1. 0 \in 0..clock
    BY <1>1
  <2>2. n = [pc |-> "none", producer |-> Nothing, now |-> 0, start |-> 0]
    BY DEF Observer!NoRefresh
  <2> HIDE DEF n
  <2> QED BY <2>1, <2>2 DEF LookRecord
<1>3. Observer!Refreshing(a) = [refresh EXCEPT ![a] = r]
  BY DEF Observer!Refreshing
<1> HIDE DEF n
<1>4. r \in LookRecord
  <2>1. clock \in 0..clock
    BY <1>1
  <2> QED BY <1>2, <2>1 DEF LookRecord
<1>5. r.pc = "producer" /\ r.now = clock
  BY <1>2 DEF LookRecord
<1> QED BY <1>3, <1>4, <1>5

\* The refreshes are records, of words.
LEMMA LooksTyped ==
  ASSUME WatchTyped
  PROVE  Mine \in LookRecord /\ Other \in LookRecord
BY DEF WatchTyped, Mine, Other

\* Nothing but the words of the consumer and of the life of the copy changes, and what
\* is counted for them: the contention stays as it is.
LEMMA ContentionStays ==
  ASSUME WatchInv,
         UNCHANGED <<clock, producer, blocker, phase, refresh, poolWait, waited, slack, terminal>>,
         total'["pool_contention"] = total["pool_contention"]
  PROVE  WatchLooks' /\ WatchOpen' /\ WatchBooks'
<1>1. UNCHANGED <<Mine, Other, Contends, ContendsSince, Open, Counted, Bound>>
  BY DEF Mine, Other, Contends, ContendsSince, Open, Counted, Bound
<1>2. WatchLooks /\ WatchOpen /\ WatchBooks
  BY DEF WatchInv
<1> QED BY <1>1, <1>2 DEF WatchLooks, WatchOpen, WatchBooks

-----------------------------------------------------------------------------
\* A copy starts with nothing counted, nothing open and no refresh.
LEMMA WatchStarts ==
  ASSUME Observer!Init
  PROVE  WatchInv
<1>1. /\ clock = 0 /\ slack = 0 /\ poolWait = 0 /\ phase = "idle" /\ terminal = FALSE
      /\ producer = [value |-> "idle", at |-> 0] /\ consumer = [value |-> "idle", at |-> 0]
      /\ lifecycle = [value |-> "starting", at |-> 0] /\ blocker = [value |-> "none", at |-> 0]
      /\ refresh = [a \in {"producer", "controller"} |->
                      [pc |-> "none", producer |-> Nothing, now |-> 0, start |-> 0]]
      /\ total = [c \in Observer!Conditions |-> 0] /\ longest = [c \in Observer!Conditions |-> 0]
      /\ waited = [c \in Observer!Conditions |-> 0]
  BY DEF Observer!Init, Observer!Timed, Observer!NoRefresh, Observer!Actors
<1>2. WatchTyped
  <2>1. refresh \in [{"producer", "controller"} -> LookRecord]
    BY <1>1 DEF LookRecord
  <2>2. producer.value \in ProducerValues /\ phase \in Phases
    BY <1>1 DEF ProducerValues, Phases
  <2>3. /\ producer \in WordOf(ProducerValues, clock)
        /\ consumer \in WordOf({"idle", "waiting", "writing", "done"}, clock)
        /\ lifecycle \in WordOf({"starting", "active", "closing"}, clock)
        /\ blocker \in WordOf({"pool_exhausted", "at_target", "none"}, clock)
    BY <1>1, <2>2 DEF WordOf
  <2>4. clock \in Nat /\ slack \in Nat /\ poolWait \in 0..(clock + 1)
    BY <1>1
  <2>7. terminal \in BOOLEAN
    BY <1>1, Zenon
  <2>5. /\ total \in [Observer!Conditions -> Nat] /\ longest \in [Observer!Conditions -> Nat]
        /\ waited \in [Observer!Conditions -> Nat]
    BY <1>1
  <2>6. \A c \in Observer!Conditions : longest[c] <= total[c]
    BY <1>1
  <2> QED BY <2>1, <2>2, <2>3, <2>4, <2>5, <2>6, <2>7 DEF WatchTyped
<1>3. Mine.pc = "none" /\ Other.pc = "none" /\ ~Contends
  BY <1>1 DEF Mine, Other, Contends
<1>4. WatchPhases /\ WatchLooks /\ WatchOpen
  BY <1>1, <1>3 DEF WatchPhases, WatchLooks, WatchOpen
<1>5. Counted = 0 /\ Open = 0 /\ Bound = 0
  BY <1>1, ConditionNames DEF Counted, Open, Bound
<1>6. WatchBooks
  BY <1>1, <1>3, <1>5 DEF WatchBooks
<1>7. WatchWaits
  BY <1>1, ConditionNames DEF WatchWaits, Exact
<1> QED BY <1>2, <1>4, <1>6, <1>7 DEF WatchInv

-----------------------------------------------------------------------------
(* The consumer, and the life of the copy *)

\* The consumer begins a wait, or the copy is activated or starts to close.
LEMMA WatchLives ==
  ASSUME WatchInv,
         \/ Observer!Activate \/ Observer!Closing
         \/ \E v \in {"waiting", "writing"} : Observer!BeginConsume(v)
  PROVE  WatchInv'
<1>1. /\ UNCHANGED <<clock, producer, blocker, phase, refresh, poolWait, waited, slack, terminal>>
      /\ UNCHANGED <<total, longest>>
  BY DEF Observer!Activate, Observer!Closing, Observer!BeginConsume, Observer!ConsumerOnly,
         Observer!ghosts
<1>2. \/ /\ lifecycle.value = "starting" /\ lifecycle' = [value |-> "active", at |-> clock]
         /\ consumer' = consumer
      \/ /\ lifecycle.value = "active" /\ lifecycle' = [value |-> "closing", at |-> clock]
         /\ consumer' = consumer /\ consumer.value = "idle"
      \/ /\ lifecycle.value = "active" /\ lifecycle' = lifecycle /\ consumer.value = "idle"
         /\ \E v \in {"waiting", "writing"} : consumer' = [value |-> v, at |-> clock]
  BY DEF Observer!Activate, Observer!Closing, Observer!BeginConsume, Observer!Timed
<1>3. WatchLooks' /\ WatchOpen' /\ WatchBooks'
  BY <1>1, ContentionStays
<1>4. WatchTyped' 
  BY <1>1, <1>2 DEF WatchInv, WatchTyped, WordOf, LookRecord
<1>5. WatchPhases'
  BY <1>1, <1>2 DEF WatchInv, WatchPhases
<1>6. WatchWaits'
  BY <1>1, <1>2, ConditionNames DEF WatchInv, WatchWaits, Exact, WatchTyped, WordOf
<1> QED BY <1>3, <1>4, <1>5, <1>6 DEF WatchInv

\* The consumer's wait ends and is counted.
LEMMA WatchEndConsume ==
  ASSUME WatchInv, Observer!EndConsume
  PROVE  WatchInv'
<1> DEFINE c == IF consumer.value = "waiting" THEN "consumer_starvation" ELSE "downstream_stall"
           d == clock - consumer.at
<1>1. /\ UNCHANGED <<clock, producer, blocker, phase, refresh, poolWait, waited, slack, terminal>>
      /\ UNCHANGED lifecycle /\ consumer' = [value |-> "idle", at |-> clock]
      /\ consumer.value \in {"waiting", "writing"} /\ Observer!FinishWait(c, d)
  BY DEF Observer!EndConsume, Observer!ConsumerOnly, Observer!ghosts, Observer!Timed
<1>2. d \in Nat /\ c \in {"consumer_starvation", "downstream_stall"} /\ c \in Observer!Conditions
  BY ConditionNames DEF WatchInv, WatchTyped, WordOf
<1>3. consumer.value = "waiting" <=> c = "consumer_starvation"
  OBVIOUS
<1>4. clock \in Nat /\ consumer.at \in 0..clock /\ WatchTyped
  BY DEF WatchInv, WatchTyped, WordOf
<1>5. d = clock - consumer.at
  OBVIOUS
<1> HIDE DEF c, d
<1>6. /\ total' \in [Observer!Conditions -> Nat] /\ longest' \in [Observer!Conditions -> Nat]
      /\ \A e \in Observer!Conditions : longest'[e] <= total'[e]
      /\ \A e \in Observer!Conditions \ {c} : total'[e] = total[e]
      /\ total'[c] = total[c] + d
  BY <1>1, <1>2, <1>4, WaitFinished
<1>7. /\ total'["pool_contention"] = total["pool_contention"]
      /\ total'["buffer_acquire"] = total["buffer_acquire"]
      /\ total'["upstream_stall"] = total["upstream_stall"]
      /\ total'["close_join_stall"] = total["close_join_stall"]
  BY <1>2, <1>6, ConditionNames
<1>8. WatchLooks' /\ WatchOpen' /\ WatchBooks'
  BY <1>1, <1>7, ContentionStays
<1>9. WatchTyped'
  BY <1>1, <1>4, <1>6 DEF WatchTyped, WordOf, LookRecord
<1>10. WatchPhases'
  BY <1>1 DEF WatchInv, WatchPhases
<1>11. WatchWaits'
  <2>1. /\ Exact("close_join_stall", lifecycle.value = "closing", lifecycle.at)'
        /\ Exact("upstream_stall", producer.value = "reading", producer.at)'
        /\ Exact("buffer_acquire", producer.value = "waiting", producer.at)'
    BY <1>1, <1>7 DEF WatchInv, WatchWaits, Exact
  <2>2. ~terminal
    BY <1>1 DEF WatchInv, WatchPhases
  <2>5. total["consumer_starvation"] \in Nat /\ total["downstream_stall"] \in Nat
    BY <1>4, ConditionNames DEF WatchTyped
  <2>3. /\ waited["consumer_starvation"] = total'["consumer_starvation"]
        /\ waited["downstream_stall"] = total'["downstream_stall"]
    <3>1. CASE c = "consumer_starvation"
      <4>1. /\ total'["downstream_stall"] = total["downstream_stall"]
            /\ total'["consumer_starvation"] = total["consumer_starvation"] + d
        BY <3>1, <1>6, ConditionNames
      <4> QED BY <4>1, <3>1, <1>3, <1>5, <2>2, <2>5, <1>4 DEF WatchInv, WatchWaits, Exact
    <3>2. CASE c = "downstream_stall"
      <4>1. /\ total'["consumer_starvation"] = total["consumer_starvation"]
            /\ total'["downstream_stall"] = total["downstream_stall"] + d
        BY <3>2, <1>6, ConditionNames
      <4>2. consumer.value = "writing"
        BY <3>2, <1>3, <1>1
      <4> QED BY <4>1, <4>2, <1>5, <2>2, <2>5, <1>4 DEF WatchInv, WatchWaits, Exact
    <3> QED BY <3>1, <3>2, <1>2
  <2>4. /\ total'["consumer_starvation"] + 0 = total'["consumer_starvation"]
        /\ total'["downstream_stall"] + 0 = total'["downstream_stall"]
    BY <1>6, ConditionNames
  <2> QED BY <1>1, <2>1, <2>3, <2>4 DEF WatchWaits, Exact
<1> QED BY <1>8, <1>9, <1>10, <1>11 DEF WatchInv

-----------------------------------------------------------------------------
(* The producer *)

\* The producer is not at a wait, before and after: the contention that the controller's
\* refresh is about to find is none, and whatever is open it will end.
LEMMA ProducerElsewhere ==
  ASSUME WatchInv, phase \in {"idle", "reading", "done"}, phase' \in {"idle", "reading", "done"},
         producer.value # "waiting", producer'.value # "waiting",
         UNCHANGED <<clock, blocker, refresh, poolWait, waited, slack, terminal>>,
         total'["pool_contention"] = total["pool_contention"]
  PROVE  WatchLooks' /\ WatchOpen' /\ WatchBooks'
<1>1. UNCHANGED <<Mine, Other, Open, Counted, Bound>>
  BY DEF Mine, Other, Open, Counted, Bound
<1>2. WatchLooks /\ WatchOpen /\ WatchBooks
  BY DEF WatchInv
<1>3. Mine.pc = "none" /\ Other.pc # "begin"
  BY <1>2 DEF WatchLooks
<1>4. ~(Other.pc = "blocker" /\ Other.producer.value = "waiting")
  BY <1>2 DEF WatchLooks
<1>5. ~Contends'
  BY <1>1, <1>3, <1>4 DEF Contends
<1>6. WatchLooks'
  BY <1>1, <1>2, <1>3, <1>4 DEF WatchLooks
<1>7. WatchOpen'
  BY <1>1, <1>2, <1>3 DEF WatchOpen
<1>8. WatchBooks'
  BY <1>1, <1>2, <1>3, <1>5 DEF WatchBooks
<1> QED BY <1>6, <1>7, <1>8

\* A read of the source begins, or the producer is done.
LEMMA WatchProduces ==
  ASSUME WatchInv, Observer!BeginRead \/ Observer!ProducerDone
  PROVE  WatchInv'
<1>1. /\ UNCHANGED <<clock, blocker, refresh, poolWait, waited, slack, terminal>>
      /\ UNCHANGED <<total, longest, consumer, lifecycle>>
      /\ phase = "idle"
      /\ \/ phase' = "reading" /\ producer' = [value |-> "reading", at |-> clock]
         \/ /\ phase' = "done" /\ producer' = [value |-> "done", at |-> clock]
            /\ lifecycle.value = "closing"
  BY DEF Observer!BeginRead, Observer!ProducerDone, Observer!Timed, Observer!ConsumerParts,
         Observer!waits, Observer!ghosts
<1>2. WatchTyped /\ WatchPhases /\ WatchWaits /\ clock \in Nat
  BY DEF WatchInv, WatchTyped
<1>3. producer.value # "reading" /\ producer.value # "waiting"
  BY <1>1, <1>2 DEF WatchPhases
<1>4. producer'.value # "waiting" /\ phase' \in {"idle", "reading", "done"}
  BY <1>1
<1>5. WatchLooks' /\ WatchOpen' /\ WatchBooks'
  BY <1>1, <1>3, <1>4, ProducerElsewhere
<1>6. WatchTyped'
  BY <1>1, <1>2 DEF WatchTyped, WordOf, LookRecord, ProducerValues, Phases
<1>7. WatchPhases'
  BY <1>1, <1>2 DEF WatchPhases
<1>8. WatchWaits'
  BY <1>1, <1>2, <1>3, ConditionNames DEF WatchWaits, Exact, WatchTyped
<1> QED BY <1>5, <1>6, <1>7, <1>8 DEF WatchInv

\* A read of the source ends and is counted.
LEMMA WatchEndRead ==
  ASSUME WatchInv, Observer!EndRead
  PROVE  WatchInv'
<1> DEFINE d == clock - producer.at
<1>1. /\ UNCHANGED <<clock, blocker, refresh, poolWait, waited, slack, terminal>>
      /\ UNCHANGED <<consumer, lifecycle>>
      /\ phase = "reading" /\ phase' = "idle" /\ producer' = [value |-> "idle", at |-> clock]
      /\ Observer!FinishWait("upstream_stall", d)
  BY DEF Observer!EndRead, Observer!Timed, Observer!ConsumerParts, Observer!ghosts
<1>2. WatchTyped /\ WatchPhases /\ WatchWaits /\ clock \in Nat /\ producer.at \in 0..clock
  BY DEF WatchInv, WatchTyped, WordOf
<1>3. d \in Nat /\ d = clock - producer.at
  BY <1>2
<1> HIDE DEF d
<1>4. /\ total' \in [Observer!Conditions -> Nat] /\ longest' \in [Observer!Conditions -> Nat]
      /\ \A e \in Observer!Conditions : longest'[e] <= total'[e]
      /\ \A e \in Observer!Conditions \ {"upstream_stall"} : total'[e] = total[e]
      /\ total'["upstream_stall"] = total["upstream_stall"] + d
  BY <1>1, <1>2, <1>3, ConditionNames, WaitFinished
<1>5. /\ total'["pool_contention"] = total["pool_contention"]
      /\ total'["buffer_acquire"] = total["buffer_acquire"]
      /\ total'["close_join_stall"] = total["close_join_stall"]
      /\ total'["downstream_stall"] = total["downstream_stall"]
      /\ total'["consumer_starvation"] = total["consumer_starvation"]
  BY <1>4, ConditionNames
<1>6. producer.value = "reading"
  BY <1>1, <1>2 DEF WatchPhases
<1>7. WatchLooks' /\ WatchOpen' /\ WatchBooks'
  BY <1>1, <1>5, <1>6, ProducerElsewhere
<1>8. WatchTyped'
  BY <1>1, <1>2, <1>4 DEF WatchTyped, WordOf, LookRecord, ProducerValues, Phases
<1>9. WatchPhases'
  BY <1>1, <1>2 DEF WatchPhases
<1>10. ~terminal
  BY <1>1, <1>2 DEF WatchPhases
<1>11. waited["upstream_stall"] = total'["upstream_stall"] + 0 /\ total'["upstream_stall"] \in Nat
  BY <1>2, <1>3, <1>4, <1>6, <1>10, ConditionNames DEF WatchWaits, Exact, WatchTyped
<1>12. WatchWaits'
  BY <1>1, <1>2, <1>5, <1>6, <1>11 DEF WatchWaits, Exact
<1> QED BY <1>7, <1>8, <1>9, <1>12 DEF WatchInv

-----------------------------------------------------------------------------
(* The blocker *)

\* The controller projects a blocker: nothing changes, or the word does and a refresh
\* begins that will look at it.
LEMMA Projected ==
  ASSUME WatchInv, NEW b \in {"pool_exhausted", "at_target", "none"}, Observer!Project(b)
  PROVE  /\ Other.pc = "none" /\ ~terminal /\ Mine' = Mine
         /\ refresh' \in [{"producer", "controller"} -> LookRecord]
         /\ blocker' \in WordOf({"pool_exhausted", "at_target", "none"}, clock)
         /\ blocker'.value = b
         /\ \/ blocker' = blocker /\ refresh' = refresh /\ Other' = Other
            \/ /\ blocker'.at = clock /\ Other'.pc = "producer" /\ blocker.value # b
               /\ Other'.now = clock
<1>1. WatchTyped /\ clock \in Nat /\ Other.pc = "none" /\ ~terminal
  BY DEF WatchInv, WatchTyped, Observer!Project, Observer!Quiet, Other
<1>2. CASE blocker.value = b
  BY <1>1, <1>2 DEF Observer!Project, WatchTyped, Mine, Other
<1>3. CASE blocker.value # b
  <2>1. /\ blocker' = [value |-> b, at |-> clock]
        /\ refresh' = Observer!Refreshing("controller")
    BY <1>3 DEF Observer!Project, Observer!Timed
  <2>2. PICK r \in LookRecord : /\ r.pc = "producer" /\ r.now = clock
                                /\ refresh' = [refresh EXCEPT !["controller"] = r]
    BY <1>1, <2>1, RefreshBegun
  <2>3. /\ refresh' \in [{"producer", "controller"} -> LookRecord]
        /\ Mine' = Mine /\ Other' = r
    BY <1>1, <2>2, LookChange DEF Observer!Actors
  <2>4. blocker' \in WordOf({"pool_exhausted", "at_target", "none"}, clock)
    BY <1>1, <2>1 DEF WordOf
  <2> QED BY <1>1, <1>3, <2>1, <2>2, <2>3, <2>4
<1> QED BY <1>2, <1>3

\* Other copies come and go while the producer has asked, waits or has its answer.
LEMMA WatchReconsider ==
  ASSUME WatchInv, NEW b \in {"pool_exhausted", "at_target", "none"}, Observer!Reconsider(b)
  PROVE  WatchInv'
<1>1. /\ UNCHANGED <<clock, producer, phase, consumer, lifecycle, terminal, poolWait, total,
                     longest, waited, slack>>
      /\ phase \in {"asked", "waiting", "answered"} /\ blocker.value # b
      /\ Observer!Project(b)
  BY DEF Observer!Reconsider, Observer!ConsumerParts, Observer!waits, Observer!ghosts
<1>2. /\ Other.pc = "none" /\ ~terminal /\ Mine' = Mine
      /\ refresh' \in [{"producer", "controller"} -> LookRecord]
      /\ blocker' \in WordOf({"pool_exhausted", "at_target", "none"}, clock)
      /\ blocker'.value = b /\ blocker'.at = clock /\ Other'.pc = "producer"
  BY <1>1, Projected
<1>3. UNCHANGED <<Open, Counted, Bound>>
  BY <1>1 DEF Open, Counted, Bound
<1>4. WatchTyped /\ WatchPhases /\ WatchLooks /\ WatchOpen /\ WatchBooks /\ WatchWaits
  BY DEF WatchInv
<1>5. clock \in Nat /\ producer.at \in 0..clock /\ poolWait \in 0..(clock + 1)
  BY <1>4 DEF WatchTyped, WordOf
<1>6. WatchTyped'
  BY <1>1, <1>2, <1>4 DEF WatchTyped, WordOf, LookRecord
<1>7. WatchPhases' /\ WatchWaits'
  BY <1>1, <1>4 DEF WatchPhases, WatchWaits, Exact
<1>8. WatchLooks'
  BY <1>1, <1>2, <1>4 DEF WatchLooks
<1>9. /\ ~Contends
      /\ Contends' <=> (producer.value = "waiting" /\ b = "pool_exhausted")
  BY <1>1, <1>2 DEF Contends
<1>10. WatchOpen'
  <2>1. phase = "answered" => ~Contends'
    BY <1>4, <1>9 DEF WatchPhases
  <2> QED BY <1>1, <1>2, <1>4, <2>1 DEF WatchOpen
<1>11. Contends' => ContendsSince' = clock
  BY <1>1, <1>2, <1>5 DEF ContendsSince, Observer!Larger
<1>12. Open \in Int /\ Counted \in Int /\ Bound \in Int /\ (poolWait = 0 => Open = 0)
  BY <1>4, <1>5, ConditionNames DEF Open, Counted, Bound, WatchTyped
<1>13. WatchBooks'
  <2>1. phase = "answered" => ~Contends'
    BY <1>4, <1>9 DEF WatchPhases
  <2>2. /\ Counted' + Open' <= Bound'
        /\ Mine'.pc # "none" /\ phase' = "waiting" =>
             Counted' + (IF poolWait' = 0 /\ Contends' THEN clock' - ContendsSince' ELSE Open')
               + (clock' - producer'.at) <= Bound'
        /\ phase' = "waiting" /\ Contends' =>
             Counted' + Open' + (clock' - ContendsSince') <= Bound'
    <3>1. Counted + Open <= Bound
      BY <1>4 DEF WatchBooks
    <3>2. Mine.pc # "none" /\ phase = "waiting" =>
            Counted + Open + (clock - producer.at) <= Bound
      BY <1>4, <1>9 DEF WatchBooks
    <3> HIDE <1>9
    <3> QED BY <1>1, <1>2, <1>3, <1>5, <1>11, <1>12, <3>1, <3>2
  <2> QED BY <1>1, <2>1, <2>2 DEF WatchBooks
<1> QED BY <1>6, <1>7, <1>8, <1>10, <1>13 DEF WatchInv

\* The producer asks for a buffer, and has it or is a waiter.
LEMMA WatchRequest ==
  ASSUME WatchInv, NEW b \in {"pool_exhausted", "at_target", "none"}, Observer!Request(b)
  PROVE  WatchInv'
<1>1. /\ UNCHANGED <<clock, producer, consumer, lifecycle, terminal, poolWait, total,
                     longest, waited, slack>>
      /\ phase = "idle" /\ phase' \in {"idle", "asked"}
      /\ Observer!Project(b)
  BY DEF Observer!Request, Observer!ConsumerParts, Observer!waits, Observer!ghosts
<1>2. /\ Other.pc = "none" /\ ~terminal /\ Mine' = Mine
      /\ refresh' \in [{"producer", "controller"} -> LookRecord]
      /\ blocker' \in WordOf({"pool_exhausted", "at_target", "none"}, clock)
      /\ Other'.pc \in {"none", "producer"}
  BY <1>1, Projected
<1>3. UNCHANGED <<Open, Counted, Bound>>
  BY <1>1 DEF Open, Counted, Bound
<1>4. WatchTyped /\ WatchPhases /\ WatchLooks /\ WatchOpen /\ WatchBooks /\ WatchWaits
  BY DEF WatchInv
<1>5. WatchTyped'
  BY <1>1, <1>2, <1>4 DEF WatchTyped, WordOf, LookRecord, Phases
<1>6. WatchPhases' /\ WatchWaits'
  BY <1>1, <1>2, <1>4 DEF WatchPhases, WatchWaits, Exact
<1>7. Mine.pc = "none" /\ poolWait = 0
  BY <1>1, <1>2, <1>4 DEF WatchLooks, WatchOpen
<1>8. WatchLooks'
  BY <1>1, <1>2, <1>4, <1>7 DEF WatchLooks
<1>9. WatchOpen'
  BY <1>1, <1>7 DEF WatchOpen
<1>10. WatchBooks'
  BY <1>1, <1>2, <1>3, <1>4, <1>7 DEF WatchBooks
<1> QED BY <1>5, <1>6, <1>8, <1>9, <1>10 DEF WatchInv

\* The producer accepts its buffer, or has given the request up.
LEMMA WatchSettle ==
  ASSUME WatchInv, Observer!Settle
  PROVE  WatchInv'
<1>1. /\ UNCHANGED <<clock, producer, consumer, lifecycle, terminal, poolWait, total,
                     longest, waited, slack>>
      /\ phase = "answered" /\ phase' = "idle" /\ Mine.pc = "none"
      /\ Observer!Project("none")
  BY DEF Observer!Settle, Observer!ConsumerParts, Observer!waits, Observer!ghosts, Observer!Quiet,
         Mine
<1>2. /\ Other.pc = "none" /\ ~terminal /\ Mine' = Mine
      /\ refresh' \in [{"producer", "controller"} -> LookRecord]
      /\ blocker' \in WordOf({"pool_exhausted", "at_target", "none"}, clock)
      /\ blocker'.value = "none"
      /\ \/ blocker' = blocker /\ Other'.pc = "none"
         \/ Other'.pc = "producer"
  BY <1>1, Projected
<1>3. UNCHANGED <<Open, Counted, Bound>>
  BY <1>1 DEF Open, Counted, Bound
<1>4. WatchTyped /\ WatchPhases /\ WatchLooks /\ WatchOpen /\ WatchBooks /\ WatchWaits
  BY DEF WatchInv
<1>5. WatchTyped'
  BY <1>1, <1>2, <1>4 DEF WatchTyped, WordOf, LookRecord, Phases
<1>6. WatchPhases' /\ WatchWaits'
  BY <1>1, <1>2, <1>4 DEF WatchPhases, WatchWaits, Exact
<1>7. WatchLooks'
  BY <1>1, <1>2, <1>4 DEF WatchLooks
<1>8. WatchOpen'
  BY <1>1, <1>2, <1>4 DEF WatchOpen
<1>9. WatchBooks'
  BY <1>1, <1>2, <1>3, <1>4 DEF WatchBooks
<1> QED BY <1>5, <1>6, <1>7, <1>8, <1>9 DEF WatchInv

-----------------------------------------------------------------------------
(* Waits of the producer *)

\* The contention of the controller's refresh is not of the future.
LEMMA SinceTyped ==
  ASSUME WatchInv
  PROVE  /\ clock \in Nat /\ poolWait \in 0..(clock + 1) /\ producer.at \in 0..clock
         /\ Contends => ContendsSince \in 0..clock
         /\ Counted \in Nat /\ Bound \in Nat /\ Open \in 0..clock
         /\ Open = IF poolWait = 0 THEN 0 ELSE clock - (poolWait - 1)
<1>1. WatchTyped /\ WatchLooks /\ Mine \in LookRecord /\ Other \in LookRecord
  BY LooksTyped DEF WatchInv
<1>2. /\ clock \in Nat /\ poolWait \in 0..(clock + 1) /\ producer.at \in 0..clock
      /\ blocker.at \in 0..clock
  BY <1>1 DEF WatchTyped, WordOf
<1>3. Other.start \in 0..clock /\ (Other.pc = "blocker" => Other.producer.at \in 0..clock)
  BY <1>1 DEF LookRecord, WordOf, WatchLooks
<1>4. Contends => ContendsSince \in 0..clock
  BY <1>2, <1>3 DEF Contends, ContendsSince, Observer!Larger
<1>5. Counted \in Nat /\ Bound \in Nat
  BY <1>1, ConditionNames DEF Counted, Bound, WatchTyped
<1>6. Open \in 0..clock
  BY <1>2 DEF Open
<1> QED BY <1>2, <1>4, <1>5, <1>6 DEF Open

\* The producer becomes a waiter that waits.
LEMMA WatchBeginWait ==
  ASSUME WatchInv, Observer!BeginWait
  PROVE  WatchInv'
<1>1. /\ UNCHANGED <<clock, blocker, consumer, lifecycle, terminal, poolWait, total, longest,
                     waited, slack>>
      /\ phase = "asked" /\ phase' = "waiting" /\ producer' = [value |-> "waiting", at |-> clock]
      /\ refresh' = Observer!Refreshing("producer")
  BY DEF Observer!BeginWait, Observer!ConsumerParts, Observer!waits,
         Observer!ghosts, Observer!Timed
<1>2. WatchTyped /\ WatchPhases /\ WatchLooks /\ WatchOpen /\ WatchBooks /\ WatchWaits
  BY DEF WatchInv
<1>3. clock \in Nat /\ blocker.at \in 0..clock
  BY <1>2 DEF WatchTyped, WordOf
<1>4. PICK r \in LookRecord : /\ r.pc = "producer" /\ r.now = clock
                              /\ refresh' = [refresh EXCEPT !["producer"] = r]
  BY <1>1, <1>2, RefreshBegun
<1>5. /\ refresh' \in [{"producer", "controller"} -> LookRecord]
      /\ Mine' = r /\ Other' = Other
  BY <1>2, <1>4, LookChange DEF Observer!Actors
<1>6. Mine'.pc = "producer" /\ Mine'.now = clock
  BY <1>4, <1>5
<1>7. /\ Other.pc # "begin" /\ poolWait = 0
      /\ ~(Other.pc = "blocker" /\ Other.producer.value = "waiting")
  BY <1>1, <1>2 DEF WatchLooks, WatchOpen
<1>8. Contends' => ContendsSince' = clock
  BY <1>1, <1>3, <1>5, <1>7 DEF Contends, ContendsSince, Observer!Larger
<1>9. UNCHANGED <<Open, Counted, Bound>>
  BY <1>1 DEF Open, Counted, Bound
<1>10. WatchTyped'
  BY <1>1, <1>2, <1>5 DEF WatchTyped, WordOf, LookRecord, ProducerValues, Phases
<1>11. WatchPhases'
  BY <1>1, <1>2 DEF WatchPhases
<1>12. producer.value # "waiting" /\ producer.value # "reading" /\ ~terminal
  BY <1>1, <1>2 DEF WatchPhases
<1>13. WatchWaits'
  BY <1>1, <1>2, <1>3, <1>12, ConditionNames DEF WatchWaits, Exact, WatchTyped
<1>14. WatchLooks'
  BY <1>1, <1>2, <1>5, <1>6, <1>7 DEF WatchLooks
<1>15. WatchOpen'
  BY <1>1, <1>7 DEF WatchOpen
<1>16. Counted \in Nat /\ Bound \in Nat /\ Open = 0
  BY <1>7, SinceTyped
<1>17. WatchBooks'
  <2>1. Counted <= Bound
    BY <1>2, <1>16 DEF WatchBooks
  <2> QED BY <1>1, <1>3, <1>7, <1>8, <1>9, <1>16, <2>1 DEF WatchBooks
<1> QED BY <1>10, <1>11, <1>13, <1>14, <1>15, <1>17 DEF WatchInv

\* The wait ends and is counted; whether its contention does, a refresh will see.
LEMMA WatchEndWait ==
  ASSUME WatchInv, Observer!EndWait
  PROVE  WatchInv'
<1> DEFINE d == clock - producer.at
<1>1. /\ UNCHANGED <<clock, blocker, consumer, lifecycle, terminal, poolWait, waited, slack>>
      /\ phase = "waiting" /\ phase' = "answered" /\ producer' = [value |-> "idle", at |-> clock]
      /\ refresh' = Observer!Refreshing("producer")
      /\ Observer!FinishWait("buffer_acquire", d) /\ Mine.pc = "none"
  BY DEF Observer!EndWait, Observer!ConsumerParts, Observer!ghosts,
         Observer!Quiet, Mine, Observer!Timed
<1>2. WatchTyped /\ WatchPhases /\ WatchLooks /\ WatchOpen /\ WatchBooks /\ WatchWaits
  BY DEF WatchInv
<1>3. clock \in Nat /\ producer.at \in 0..clock /\ poolWait \in 0..(clock + 1)
  BY SinceTyped
<1>4. PICK r \in LookRecord : /\ r.pc = "producer" /\ r.now = clock
                              /\ refresh' = [refresh EXCEPT !["producer"] = r]
  BY <1>1, <1>2, RefreshBegun
<1>5. /\ refresh' \in [{"producer", "controller"} -> LookRecord]
      /\ Mine' = r /\ Other' = Other
  BY <1>2, <1>4, LookChange DEF Observer!Actors
<1>6. Mine'.pc = "producer" /\ Mine'.now = clock
  BY <1>4, <1>5
<1>7. d \in Nat /\ d = clock - producer.at
  BY <1>3
<1> HIDE DEF d
<1>8. /\ total' \in [Observer!Conditions -> Nat] /\ longest' \in [Observer!Conditions -> Nat]
      /\ \A e \in Observer!Conditions : longest'[e] <= total'[e]
      /\ \A e \in Observer!Conditions \ {"buffer_acquire"} : total'[e] = total[e]
      /\ total'["buffer_acquire"] = total["buffer_acquire"] + d
  BY <1>1, <1>2, <1>7, ConditionNames, WaitFinished
<1>9. /\ total'["pool_contention"] = total["pool_contention"]
      /\ total'["upstream_stall"] = total["upstream_stall"]
      /\ total'["close_join_stall"] = total["close_join_stall"]
      /\ total'["downstream_stall"] = total["downstream_stall"]
      /\ total'["consumer_starvation"] = total["consumer_starvation"]
  BY <1>8, ConditionNames
<1>10. producer.value = "waiting" /\ ~terminal
  BY <1>1, <1>2 DEF WatchPhases
<1>11. Contends' => Contends /\ ContendsSince' = ContendsSince
  BY <1>1, <1>5 DEF Contends, ContendsSince
<1>12. UNCHANGED <<Open, Counted, Bound>>
  BY <1>1, <1>9 DEF Open, Counted, Bound
<1>13. WatchTyped'
  BY <1>1, <1>2, <1>5, <1>8 DEF WatchTyped, WordOf, LookRecord, ProducerValues, Phases
<1>14. WatchPhases'
  BY <1>1, <1>2 DEF WatchPhases
<1>15. waited["buffer_acquire"] = total'["buffer_acquire"] + 0 /\ total'["buffer_acquire"] \in Nat
  BY <1>2, <1>7, <1>8, <1>10, ConditionNames DEF WatchWaits, Exact, WatchTyped
<1>16. WatchWaits'
  BY <1>1, <1>2, <1>9, <1>10, <1>15 DEF WatchWaits, Exact
<1>17. WatchLooks'
  BY <1>1, <1>2, <1>5, <1>6 DEF WatchLooks
<1>18. WatchOpen'
  BY <1>1, <1>6 DEF WatchOpen
<1>19. WatchBooks'
  <2>1. /\ Counted + Open <= Bound
        /\ Contends => Counted + Open + (clock - ContendsSince) <= Bound
    BY <1>1, <1>2 DEF WatchBooks
  <2>2. (IF poolWait = 0 THEN 0 ELSE Observer!Larger(clock - (poolWait - 1), 0)) = Open
    BY <1>3 DEF Open, Observer!Larger
  <2>3. Contends' => Counted + (IF poolWait = 0 THEN 0 ELSE Observer!Larger(clock - (poolWait - 1), 0))
          + (clock - ContendsSince') <= Bound
    BY <1>11, <2>1, <2>2
  <2> QED BY <1>1, <1>6, <1>12, <2>1, <2>3 DEF WatchBooks
<1> QED BY <1>13, <1>14, <1>16, <1>17, <1>18, <1>19 DEF WatchInv

-----------------------------------------------------------------------------
(* Refreshes *)

\* A refresh looks at a word: nothing else changes.
LEMMA WatchReads ==
  ASSUME WatchInv, NEW a \in {"producer", "controller"},
         Observer!ReadProducer(a) \/ Observer!ReadBlocker(a)
  PROVE  WatchInv'
<1>1. /\ UNCHANGED <<clock, producer, phase, blocker, consumer, lifecycle, terminal, poolWait,
                     total, longest, waited, slack>>
      /\ refresh[a].pc \in {"producer", "blocker"}
  BY DEF Observer!ReadProducer, Observer!ReadBlocker, Observer!words, Observer!waits,
         Observer!ghosts
<1>2. WatchTyped /\ WatchPhases /\ WatchLooks /\ WatchOpen /\ WatchBooks /\ WatchWaits
  BY DEF WatchInv
<1>3. /\ clock \in Nat /\ poolWait \in 0..(clock + 1) /\ producer.at \in 0..clock
      /\ blocker.at \in 0..clock /\ producer \in WordOf(ProducerValues, clock)
  BY <1>2 DEF WatchTyped, WordOf
<1> DEFINE reads == [refresh[a] EXCEPT !.pc = "blocker", !.producer = producer]
           waits == refresh[a].producer.value = "waiting" /\ blocker.value = "pool_exhausted"
           decides == [refresh[a] EXCEPT !.pc = IF waits THEN "begin" ELSE "end",
                         !.start = Observer!Larger(refresh[a].producer.at, blocker.at)]
           r == IF refresh[a].pc = "producer" THEN reads ELSE decides
<1>4. refresh' = [refresh EXCEPT ![a] = r]
  <2>1. refresh[a] \in LookRecord
    BY <1>2 DEF WatchTyped
  <2>2. CASE Observer!ReadProducer(a)
    <3>1. /\ refresh[a].pc = "producer"
          /\ refresh' = [refresh EXCEPT ![a].pc = "blocker", ![a].producer = producer]
      BY <2>2 DEF Observer!ReadProducer
    <3>2. [refresh EXCEPT ![a].pc = "blocker", ![a].producer = producer]
            = [refresh EXCEPT ![a] = reads]
      BY <1>2, <2>1 DEF WatchTyped, LookRecord
    <3> QED BY <3>1, <3>2
  <2>3. CASE Observer!ReadBlocker(a)
    <3>1. /\ refresh[a].pc = "blocker"
          /\ refresh' = [refresh EXCEPT ![a].pc = IF waits THEN "begin" ELSE "end",
                           ![a].start = Observer!Larger(refresh[a].producer.at, blocker.at)]
      BY <2>3 DEF Observer!ReadBlocker
    <3>2. [refresh EXCEPT ![a].pc = IF waits THEN "begin" ELSE "end",
                    ![a].start = Observer!Larger(refresh[a].producer.at, blocker.at)]
            = [refresh EXCEPT ![a] = decides]
      BY <1>2, <2>1 DEF WatchTyped, LookRecord
    <3> QED BY <3>1, <3>2
  <2> QED BY <2>2, <2>3
<1>5. /\ refresh[a] \in LookRecord
      /\ refresh[a].pc = "blocker" =>
           /\ refresh[a].producer.at \in 0..clock
           /\ refresh[a].producer.value \in ProducerValues
  <2>1. refresh[a] \in LookRecord
    BY <1>2 DEF WatchTyped
  <2>2. refresh[a].pc = "blocker" =>
          refresh[a].producer \in WordOf(ProducerValues, clock)
    BY <1>2, <1>3 DEF WatchLooks, Mine, Other
  <2> QED BY <1>3, <2>1, <2>2 DEF LookRecord, WordOf
<1>6. /\ refresh[a].pc = "producer" =>
           r.pc = "blocker" /\ r.producer = producer /\ r.now = refresh[a].now
      /\ refresh[a].pc = "blocker" =>
           /\ r.pc = IF waits THEN "begin" ELSE "end"
           /\ r.producer = refresh[a].producer /\ r.now = refresh[a].now
           /\ r.start = Observer!Larger(refresh[a].producer.at, blocker.at)
  BY <1>1, <1>5 DEF LookRecord
<1>7. r \in LookRecord
  BY <1>1, <1>3, <1>5 DEF LookRecord, Observer!Larger
<1> HIDE DEF r
<1>8. refresh' \in [{"producer", "controller"} -> LookRecord]
  BY <1>2, <1>4, <1>7, LookChange DEF Observer!Actors
<1>9. WatchTyped'
  BY <1>1, <1>2, <1>8 DEF WatchTyped, WordOf, LookRecord
<1>10. WatchPhases' /\ WatchWaits'
  BY <1>1, <1>2 DEF WatchPhases, WatchWaits, Exact
<1>11. UNCHANGED <<Open, Counted, Bound>>
  BY <1>1 DEF Open, Counted, Bound
<1>12. CASE a = "producer"
  <2>1. Mine' = r /\ Other' = Other /\ refresh[a] = Mine
    BY <1>2, <1>4, <1>7, <1>12, LookChange DEF Observer!Actors, Mine
  <2>2. UNCHANGED <<Contends, ContendsSince>>
    BY <1>1, <2>1 DEF Contends, ContendsSince
  <2>3. Mine.pc # "none" /\ r.pc # "none" /\ Mine'.now = Mine.now
    BY <1>1, <1>6, <2>1
  <2>4. WatchLooks'
    <3>1. Mine'.pc = "blocker" => Mine'.producer = producer'
      BY <1>1, <1>6, <2>1
    <3>2. Mine'.pc = "begin" => phase' = "waiting" /\ producer'.at <= Mine'.start
      <4> SUFFICES ASSUME Mine'.pc = "begin" PROVE phase = "waiting" /\ producer.at <= Mine'.start
        BY <1>1
      <4>1. Mine.pc = "blocker" /\ waits /\ Mine'.start = Observer!Larger(Mine.producer.at, blocker.at)
        BY <1>1, <1>6, <2>1
      <4>2. Mine.producer = producer /\ producer.value = "waiting"
        BY <1>2, <2>1, <4>1 DEF WatchLooks
      <4> QED BY <1>2, <1>3, <4>1, <4>2 DEF WatchPhases, Observer!Larger
    <3>3. phase' \in {"waiting", "answered"} /\ Mine'.now = producer'.at
      BY <1>1, <1>2, <2>3 DEF WatchLooks
    <3> QED BY <1>1, <1>2, <2>1, <3>1, <3>2, <3>3 DEF WatchLooks
  <2>5. WatchOpen'
    BY <1>1, <1>2, <2>1, <2>2, <2>3 DEF WatchOpen, WatchLooks
  <2>6. WatchBooks'
    BY <1>1, <1>2, <1>11, <2>1, <2>2, <2>3 DEF WatchBooks
  <2> QED BY <1>9, <1>10, <2>4, <2>5, <2>6 DEF WatchInv
<1>13. CASE a = "controller"
  <2>1. Mine' = Mine /\ Other' = r /\ refresh[a] = Other
    BY <1>2, <1>4, <1>7, <1>13, LookChange DEF Observer!Actors, Other
  <2>2. Contends' <=> Contends
    BY <1>1, <1>3, <1>5, <1>6, <2>1 DEF Contends, WordOf
  <2>3. Contends => ContendsSince' = ContendsSince
    BY <1>1, <1>3, <1>5, <1>6, <2>1 DEF Contends, ContendsSince
  <2>4. Other.pc # "none" /\ Other'.pc # "none"
    BY <1>1, <1>6, <2>1
  <2>5. WatchLooks'
    <3>1. Other'.pc = "begin" =>
            /\ blocker.value = "pool_exhausted" /\ phase \in {"waiting", "answered"}
            /\ phase = "waiting" => producer.at <= Other'.start
      <4> SUFFICES ASSUME Other'.pc = "begin"
                   PROVE  /\ blocker.value = "pool_exhausted" /\ phase \in {"waiting", "answered"}
                          /\ phase = "waiting" => producer.at <= Other'.start
        OBVIOUS
      <4>1. /\ Other.pc = "blocker" /\ waits
            /\ Other'.start = Observer!Larger(Other.producer.at, blocker.at)
        BY <1>1, <1>6, <2>1
      <4>2. phase \in {"waiting", "answered"} /\ (phase = "waiting" => Other.producer = producer)
        BY <1>2, <2>1, <4>1 DEF WatchLooks
      <4>3. Other.producer.at \in 0..clock
        BY <1>5, <2>1, <4>1
      <4> QED BY <1>3, <4>1, <4>2, <4>3 DEF Observer!Larger
    <3>2. Other'.pc = "blocker" =>
            /\ Other'.producer \in WordOf(ProducerValues, clock)
            /\ Other'.producer.value = "waiting" =>
                 phase = "waiting" /\ Other'.producer = producer
      <4> SUFFICES ASSUME Other'.pc = "blocker"
                   PROVE  /\ Other'.producer \in WordOf(ProducerValues, clock)
                          /\ Other'.producer.value = "waiting" =>
                               phase = "waiting" /\ Other'.producer = producer
        OBVIOUS
      <4>1. Other'.producer = producer
        BY <1>1, <1>6, <2>1
      <4> QED BY <1>2, <1>3, <4>1 DEF WatchPhases
    <3>3. ~terminal
      BY <1>2, <2>4 DEF WatchLooks
    <3>4. UNCHANGED <<clock, phase, producer, blocker, terminal>>
      BY <1>1
    <3> QED BY <1>2, <2>1, <3>1, <3>2, <3>3, <3>4 DEF WatchLooks
  <2>6. WatchOpen'
    BY <1>1, <1>2, <2>1, <2>2, <2>4 DEF WatchOpen
  <2>7. WatchBooks'
    BY <1>1, <1>2, <1>11, <2>1, <2>2, <2>3 DEF WatchBooks
  <2> QED BY <1>9, <1>10, <2>5, <2>6, <2>7 DEF WatchInv
<1> QED BY <1>12, <1>13

\* The producer's refresh ends: it opens a contention of this wait, or closes one.
LEMMA WatchExchangeMine ==
  ASSUME WatchInv, Observer!Exchange("producer")
  PROVE  WatchInv'
<1> DEFINE r == [pc |-> "none", producer |-> Nothing, now |-> 0, start |-> 0]
<1>1. /\ UNCHANGED <<clock, producer, phase, blocker, consumer, lifecycle, terminal, waited, slack>>
      /\ Mine.pc \in {"begin", "end"} /\ refresh' = [refresh EXCEPT !["producer"] = r]
  BY DEF Observer!Exchange, Observer!words, Observer!ghosts, Observer!NoRefresh, Mine
<1>2. WatchTyped /\ WatchPhases /\ WatchLooks /\ WatchOpen /\ WatchBooks /\ WatchWaits
  BY DEF WatchInv
<1>3. /\ clock \in Nat /\ poolWait \in 0..(clock + 1) /\ producer.at \in 0..clock
      /\ Contends => ContendsSince \in 0..clock
      /\ Counted \in Nat /\ Bound \in Nat /\ Open \in 0..clock
      /\ Open = IF poolWait = 0 THEN 0 ELSE clock - (poolWait - 1)
  BY SinceTyped
<1>4. r \in LookRecord
  BY <1>3 DEF LookRecord
<1>5. /\ refresh' \in [{"producer", "controller"} -> LookRecord]
      /\ Mine' = r /\ Other' = Other
  BY <1>1, <1>2, <1>4, LookChange DEF Observer!Actors
<1>6. Mine'.pc = "none"
  BY <1>5
<1> HIDE DEF r
<1>7. UNCHANGED <<Contends, ContendsSince, Bound>>
  BY <1>1, <1>5 DEF Contends, ContendsSince, Bound
<1>8. Mine.start \in 0..clock /\ Mine.now = producer.at /\ phase \in {"waiting", "answered"}
  BY <1>1, <1>2, LooksTyped DEF LookRecord, WatchLooks
<1>9. WatchPhases'
  BY <1>1, <1>2 DEF WatchPhases
<1>10. WatchLooks'
  BY <1>1, <1>2, <1>5, <1>6 DEF WatchLooks
<1>11. CASE Mine.pc = "begin"
  <2>1. /\ poolWait' = IF poolWait = 0 THEN Mine.start + 1 ELSE poolWait
        /\ UNCHANGED <<total, longest>>
    BY <1>11 DEF Observer!Exchange, Mine
  <2>2. phase = "waiting" /\ producer.at <= Mine.start
    BY <1>2, <1>11 DEF WatchLooks
  <2>3. WatchTyped'
    BY <1>1, <1>2, <1>3, <1>5, <1>8, <2>1 DEF WatchTyped, WordOf, LookRecord
  <2>4. WatchWaits'
    BY <1>1, <1>2, <2>1 DEF WatchWaits, Exact
  <2>5. poolWait' # 0 /\ producer.at <= poolWait' - 1
    BY <1>2, <1>3, <1>8, <2>1, <2>2 DEF WatchOpen
  <2>6. WatchOpen'
    BY <1>1, <2>2, <2>5 DEF WatchOpen
  <2>7. /\ Counted' = Counted
        /\ Open' = IF poolWait = 0 THEN clock - Mine.start ELSE Open
    BY <1>1, <1>3, <1>8, <2>1 DEF Counted, Open
  <2>8. Counted + (IF poolWait = 0 /\ Contends THEN clock - ContendsSince ELSE Open)
          + (clock - producer.at) <= Bound
    BY <1>2, <1>11, <2>2 DEF WatchBooks
  <2>9. /\ Counted + Open <= Bound
        /\ Contends => Counted + Open + (clock - ContendsSince) <= Bound
    BY <1>2, <2>2 DEF WatchBooks
  <2>10. /\ Counted' + Open' <= Bound
         /\ Contends => Counted' + Open' + (clock - ContendsSince) <= Bound
    BY <1>3, <1>8, <2>2, <2>7, <2>8, <2>9
  <2>11. WatchBooks'
    BY <1>1, <1>6, <1>7, <2>2, <2>10 DEF WatchBooks
  <2> QED BY <1>9, <1>10, <2>3, <2>4, <2>6, <2>11 DEF WatchInv
<1>12. CASE Mine.pc = "end"
  <2> DEFINE x == IF poolWait = 0 THEN 0
                  ELSE IF producer.at - (poolWait - 1) > 0 THEN producer.at - (poolWait - 1) ELSE 0
  <2>1. /\ poolWait' = 0 /\ x \in Nat
        /\ total' \in [Observer!Conditions -> Nat] /\ longest' \in [Observer!Conditions -> Nat]
        /\ \A e \in Observer!Conditions : longest'[e] <= total'[e]
        /\ \A e \in Observer!Conditions \ {"pool_contention"} : total'[e] = total[e]
        /\ Counted' = Counted + x
    <3>0. Observer!FinishPool(Mine.now)
      BY <1>12 DEF Observer!Exchange, Mine
    <3>1. CASE poolWait = 0
      <4>1. UNCHANGED <<poolWait, total, longest>>
        BY <3>0, <3>1 DEF Observer!FinishPool, Observer!waits
      <4> QED BY <1>2, <1>3, <3>1, <4>1 DEF WatchTyped, Counted
    <3>2. CASE poolWait # 0
      <4>1. poolWait' = 0 /\ Observer!FinishWait("pool_contention", producer.at - (poolWait - 1))
        BY <1>8, <3>0, <3>2 DEF Observer!FinishPool
      <4>2. producer.at - (poolWait - 1) \in Int
        BY <1>3
      <4> QED BY <1>2, <1>3, <3>2, <4>1, <4>2, WaitFinished, ConditionNames DEF Counted
    <3> QED BY <3>1, <3>2
  <2>2. /\ x <= Open /\ (phase = "waiting" => x = 0)
        /\ x = IF poolWait = 0 THEN 0 ELSE Observer!Larger(Mine.now - (poolWait - 1), 0)
    BY <1>2, <1>3, <1>8 DEF WatchOpen, Observer!Larger
  <2> HIDE DEF x
  <2>3. WatchTyped'
    BY <1>1, <1>2, <1>3, <1>5, <2>1 DEF WatchTyped, WordOf, LookRecord
  <2>4. WatchWaits'
    <3>1. /\ total'["buffer_acquire"] = total["buffer_acquire"]
          /\ total'["upstream_stall"] = total["upstream_stall"]
          /\ total'["close_join_stall"] = total["close_join_stall"]
          /\ total'["downstream_stall"] = total["downstream_stall"]
          /\ total'["consumer_starvation"] = total["consumer_starvation"]
      BY <2>1, ConditionNames
    <3> QED BY <1>1, <1>2, <3>1 DEF WatchWaits, Exact
  <2>5. WatchOpen'
    BY <2>1 DEF WatchOpen
  <2>6. Open' = 0
    BY <2>1 DEF Open
  <2>7. /\ Counted + Open <= Bound
        /\ phase = "waiting" /\ Contends => Counted + Open + (clock - ContendsSince) <= Bound
        /\ phase = "answered" /\ Contends => Counted + x + (clock - ContendsSince) <= Bound
    BY <1>2, <2>2 DEF WatchBooks
  <2>8. /\ Counted' + Open' <= Bound
        /\ Contends => Counted' + Open' + (clock - ContendsSince) <= Bound
    BY <1>3, <1>8, <2>1, <2>2, <2>6, <2>7
  <2>9. /\ Counted' + Open' <= Bound'
        /\ phase' = "waiting" /\ Contends' =>
             Counted' + Open' + (clock' - ContendsSince') <= Bound'
        /\ phase' = "answered" /\ Contends' => Counted' + 0 + (clock' - ContendsSince') <= Bound'
    BY <1>1, <1>7, <2>6, <2>8
  <2>10. WatchBooks'
    BY <1>6, <2>1, <2>9 DEF WatchBooks
  <2> QED BY <1>9, <1>10, <2>3, <2>4, <2>5, <2>10 DEF WatchInv
<1> QED BY <1>1, <1>11, <1>12

\* The controller's refresh ends, in the same way; it may be late.
LEMMA WatchExchangeOther ==
  ASSUME WatchInv, Observer!Exchange("controller")
  PROVE  WatchInv'
<1> DEFINE r == [pc |-> "none", producer |-> Nothing, now |-> 0, start |-> 0]
<1>1. /\ UNCHANGED <<clock, producer, phase, blocker, consumer, lifecycle, terminal, waited, slack>>
      /\ Other.pc \in {"begin", "end"} /\ refresh' = [refresh EXCEPT !["controller"] = r]
  BY DEF Observer!Exchange, Observer!words, Observer!ghosts, Observer!NoRefresh, Other
<1>2. WatchTyped /\ WatchPhases /\ WatchLooks /\ WatchOpen /\ WatchBooks /\ WatchWaits
  BY DEF WatchInv
<1>3. /\ clock \in Nat /\ poolWait \in 0..(clock + 1) /\ producer.at \in 0..clock
      /\ Contends => ContendsSince \in 0..clock
      /\ Counted \in Nat /\ Bound \in Nat /\ Open \in 0..clock
      /\ Open = IF poolWait = 0 THEN 0 ELSE clock - (poolWait - 1)
  BY SinceTyped
<1>4. r \in LookRecord
  BY <1>3 DEF LookRecord
<1>5. /\ refresh' \in [{"producer", "controller"} -> LookRecord]
      /\ Mine' = Mine /\ Other' = r
  BY <1>1, <1>2, <1>4, LookChange DEF Observer!Actors
<1>6. Other'.pc = "none"
  BY <1>5
<1> HIDE DEF r
<1>7. Bound' = Bound /\ ~Contends'
  BY <1>1, <1>6 DEF Contends, Bound
<1>8. Other.start \in 0..clock /\ Other.now \in 0..clock
  BY LooksTyped, <1>2 DEF LookRecord
<1>9. WatchPhases'
  BY <1>1, <1>2 DEF WatchPhases
<1>10. WatchLooks'
  BY <1>1, <1>2, <1>5, <1>6 DEF WatchLooks
<1>11. CASE Other.pc = "begin"
  <2>1. /\ poolWait' = IF poolWait = 0 THEN Other.start + 1 ELSE poolWait
        /\ UNCHANGED <<total, longest>>
    BY <1>11 DEF Observer!Exchange, Other
  <2>2. /\ blocker.value = "pool_exhausted" /\ phase \in {"waiting", "answered"}
        /\ phase = "waiting" => producer.at <= Other.start
    BY <1>2, <1>11 DEF WatchLooks
  <2>3. WatchTyped'
    BY <1>1, <1>2, <1>3, <1>5, <1>8, <2>1 DEF WatchTyped, WordOf, LookRecord
  <2>4. WatchWaits'
    BY <1>1, <1>2, <2>1 DEF WatchWaits, Exact
  <2>5. phase = "waiting" => producer.at <= poolWait' - 1
    BY <1>2, <1>3, <1>8, <2>1, <2>2 DEF WatchOpen
  <2>6. WatchOpen'
    BY <1>1, <1>7, <2>2, <2>5 DEF WatchOpen
  <2>7. Contends /\ ContendsSince = Other.start
    BY <1>11 DEF Contends, ContendsSince
  <2>8. /\ Counted' = Counted
        /\ Open' = IF poolWait = 0 THEN clock - Other.start ELSE Open
    BY <1>1, <1>3, <1>8, <2>1 DEF Counted, Open
  <2>9. /\ Counted + Open <= Bound
        /\ Mine.pc # "none" /\ phase = "waiting" =>
             Counted + (IF poolWait = 0 THEN clock - Other.start ELSE Open)
               + (clock - producer.at) <= Bound
        /\ phase = "waiting" => Counted + Open + (clock - Other.start) <= Bound
        /\ phase = "answered" /\ poolWait = 0 => Counted + 0 + (clock - Other.start) <= Bound
    BY <1>2, <2>7 DEF WatchBooks
  <2>10. Counted' + Open' <= Bound
    BY <1>3, <1>8, <2>2, <2>8, <2>9
  <2>11. Mine.pc # "none" /\ phase = "waiting" => Counted' + Open' + (clock - producer.at) <= Bound
    BY <2>8, <2>9
  <2>12. WatchBooks'
    BY <1>1, <1>5, <1>7, <2>10, <2>11 DEF WatchBooks
  <2> QED BY <1>9, <1>10, <2>3, <2>4, <2>6, <2>12 DEF WatchInv
<1>12. CASE Other.pc = "end"
  <2> DEFINE x == IF poolWait = 0 THEN 0
                  ELSE IF Other.now - (poolWait - 1) > 0 THEN Other.now - (poolWait - 1) ELSE 0
  <2>1. /\ poolWait' = 0 /\ x \in Nat
        /\ total' \in [Observer!Conditions -> Nat] /\ longest' \in [Observer!Conditions -> Nat]
        /\ \A e \in Observer!Conditions : longest'[e] <= total'[e]
        /\ \A e \in Observer!Conditions \ {"pool_contention"} : total'[e] = total[e]
        /\ Counted' = Counted + x
    <3>0. Observer!FinishPool(Other.now)
      BY <1>12 DEF Observer!Exchange, Other
    <3>1. CASE poolWait = 0
      <4>1. UNCHANGED <<poolWait, total, longest>>
        BY <3>0, <3>1 DEF Observer!FinishPool, Observer!waits
      <4> QED BY <1>2, <1>3, <3>1, <4>1 DEF WatchTyped, Counted
    <3>2. CASE poolWait # 0
      <4>1. poolWait' = 0 /\ Observer!FinishWait("pool_contention", Other.now - (poolWait - 1))
        BY <3>0, <3>2 DEF Observer!FinishPool
      <4>2. Other.now - (poolWait - 1) \in Int
        BY <1>3, <1>8
      <4> QED BY <1>2, <1>3, <1>8, <3>2, <4>1, <4>2, WaitFinished, ConditionNames DEF Counted
    <3> QED BY <3>1, <3>2
  <2>2. x <= Open
    BY <1>3, <1>8
  <2> HIDE DEF x
  <2>3. WatchTyped'
    BY <1>1, <1>2, <1>3, <1>5, <2>1 DEF WatchTyped, WordOf, LookRecord
  <2>4. WatchWaits'
    <3>1. /\ total'["buffer_acquire"] = total["buffer_acquire"]
          /\ total'["upstream_stall"] = total["upstream_stall"]
          /\ total'["close_join_stall"] = total["close_join_stall"]
          /\ total'["downstream_stall"] = total["downstream_stall"]
          /\ total'["consumer_starvation"] = total["consumer_starvation"]
      BY <2>1, ConditionNames
    <3> QED BY <1>1, <1>2, <3>1 DEF WatchWaits, Exact
  <2>5. WatchOpen'
    BY <2>1 DEF WatchOpen
  <2>6. Open' = 0
    BY <2>1 DEF Open
  <2>7. ~Contends
    BY <1>12 DEF Contends
  <2>8. /\ Counted + Open <= Bound
        /\ Mine.pc # "none" /\ phase = "waiting" =>
             Counted + Open + (clock - producer.at) <= Bound
    BY <1>2, <2>7 DEF WatchBooks
  <2>9. /\ Counted' + Open' <= Bound
        /\ Mine.pc # "none" /\ phase = "waiting" =>
             Counted' + Open' + (clock - producer.at) <= Bound
    BY <1>3, <2>1, <2>2, <2>6, <2>8
  <2>10. WatchBooks'
    BY <1>1, <1>5, <1>7, <2>9 DEF WatchBooks
  <2> QED BY <1>9, <1>10, <2>3, <2>4, <2>5, <2>10 DEF WatchInv
<1> QED BY <1>1, <1>11, <1>12

-----------------------------------------------------------------------------
(* The end, and time *)

\* The producer was joined: nothing is open, and the time of closing is counted.
LEMMA WatchMarkTerminal ==
  ASSUME WatchInv, Observer!MarkTerminal
  PROVE  WatchInv'
<1> DEFINE d == clock - lifecycle.at
<1>1. /\ UNCHANGED <<clock, producer, phase, blocker, lifecycle, refresh, waited, slack>>
      /\ phase = "done" /\ ~terminal /\ Other.pc = "none" /\ poolWait' = 0 /\ terminal' = TRUE
      /\ consumer' = [value |-> "done", at |-> clock]
  BY DEF Observer!MarkTerminal, Observer!ghosts, Observer!Quiet, Observer!Timed, Other
<1>2. WatchTyped /\ WatchPhases /\ WatchLooks /\ WatchOpen /\ WatchBooks /\ WatchWaits
  BY DEF WatchInv
<1>3. poolWait = 0
  BY <1>1, <1>2 DEF WatchOpen
<1>4. clock \in Nat /\ lifecycle.at \in 0..clock /\ lifecycle.value = "closing"
  BY <1>1, <1>2 DEF WatchTyped, WordOf, WatchPhases
<1>5. /\ total' = [total EXCEPT !["close_join_stall"] = @ + d, !["pool_contention"] = @ + 0]
      /\ longest' = [longest EXCEPT !["close_join_stall"] = IF @ > d THEN @ ELSE d,
                                    !["pool_contention"] = IF @ > 0 THEN @ ELSE 0]
  BY <1>3 DEF Observer!MarkTerminal, Observer!Larger
<1>6. d \in Nat /\ d = clock - lifecycle.at
  BY <1>4
<1> HIDE DEF d
<1>7. /\ total \in [Observer!Conditions -> Nat] /\ longest \in [Observer!Conditions -> Nat]
      /\ \A e \in Observer!Conditions : longest[e] <= total[e]
  BY <1>2 DEF WatchTyped
<1>8. /\ total'["close_join_stall"] = total["close_join_stall"] + d
      /\ longest'["close_join_stall"] =
           IF longest["close_join_stall"] > d THEN longest["close_join_stall"] ELSE d
      /\ \A e \in Observer!Conditions \ {"close_join_stall"} :
           total'[e] = total[e] /\ longest'[e] = longest[e]
  BY <1>5, <1>7, ConditionNames
<1>9. /\ DOMAIN total' = Observer!Conditions /\ DOMAIN longest' = Observer!Conditions
      /\ total' = [e \in Observer!Conditions |-> total'[e]]
      /\ longest' = [e \in Observer!Conditions |-> longest'[e]]
  BY <1>5, <1>7
<1>10. \A e \in Observer!Conditions :
         total'[e] \in Nat /\ longest'[e] \in Nat /\ longest'[e] <= total'[e]
  <2> TAKE e \in Observer!Conditions
  <2>1. total[e] \in Nat /\ longest[e] \in Nat /\ longest[e] <= total[e]
    BY <1>7
  <2>2. CASE e = "close_join_stall"
    BY <1>6, <1>8, <2>1, <2>2
  <2>3. CASE e # "close_join_stall"
    BY <1>8, <2>1, <2>3
  <2> QED BY <2>2, <2>3
<1>11. total' \in [Observer!Conditions -> Nat] /\ longest' \in [Observer!Conditions -> Nat]
  BY <1>9, <1>10
<1>12. WatchTyped'
  BY <1>1, <1>2, <1>4, <1>10, <1>11 DEF WatchTyped, WordOf, LookRecord
<1>13. WatchPhases'
  BY <1>1, <1>2 DEF WatchPhases
<1>14. UNCHANGED <<Mine, Other, Counted, Bound, Open>>
  BY <1>1, <1>3, <1>8, ConditionNames DEF Mine, Other, Counted, Bound, Open
<1>15. Mine.pc = "none" /\ ~Contends'
  BY <1>1, <1>2, <1>14 DEF WatchLooks, Contends
<1>16. WatchLooks'
  BY <1>1, <1>2, <1>14, <1>15 DEF WatchLooks
<1>17. WatchOpen'
  BY <1>1 DEF WatchOpen
<1>18. WatchBooks'
  BY <1>1, <1>2, <1>14, <1>15 DEF WatchBooks
<1>19. WatchWaits'
  <2>1. /\ producer.value # "reading" /\ producer.value # "waiting"
        /\ consumer.value # "writing" /\ consumer.value # "waiting"
    BY <1>1, <1>2, <1>4 DEF WatchPhases
  <2>2. /\ total'["buffer_acquire"] = total["buffer_acquire"]
        /\ total'["upstream_stall"] = total["upstream_stall"]
        /\ total'["downstream_stall"] = total["downstream_stall"]
        /\ total'["consumer_starvation"] = total["consumer_starvation"]
    BY <1>8, ConditionNames
  <2>3. waited["close_join_stall"] = total'["close_join_stall"] + 0
    BY <1>1, <1>2, <1>4, <1>6, <1>7, <1>8, ConditionNames DEF WatchWaits, Exact
  <2> QED BY <1>1, <1>2, <1>4, <2>1, <2>2, <2>3 DEF WatchWaits, Exact
<1> QED BY <1>12, <1>13, <1>16, <1>17, <1>18, <1>19 DEF WatchInv

\* Time passes, for those who wait and those who are late.
LEMMA WatchTick ==
  ASSUME WatchInv, Observer!Tick
  PROVE  WatchInv'
<1>1. /\ UNCHANGED <<producer, phase, blocker, consumer, lifecycle, terminal, refresh, poolWait,
                     total, longest>>
      /\ clock' = clock + 1 /\ ~terminal
      /\ slack' = IF phase = "answered" \/ Mine.pc # "none" \/ Other.pc # "none"
                  THEN slack + 1 ELSE slack
  BY DEF Observer!Tick, Observer!words, Observer!waits, Observer!Quiet, Observer!Actors, Mine, Other
<1>2. waited' = [c \in Observer!Conditions |->
                   IF Observer!Holds(Observer!Now, c) THEN waited[c] + 1 ELSE waited[c]]
  BY DEF Observer!Tick
<1>3. WatchTyped /\ WatchPhases /\ WatchLooks /\ WatchOpen /\ WatchBooks /\ WatchWaits
  BY DEF WatchInv
<1>4. /\ waited'["close_join_stall"] =
           waited["close_join_stall"] + (IF lifecycle.value = "closing" THEN 1 ELSE 0)
      /\ waited'["downstream_stall"] =
           waited["downstream_stall"] + (IF consumer.value = "writing" THEN 1 ELSE 0)
      /\ waited'["consumer_starvation"] =
           waited["consumer_starvation"] + (IF consumer.value = "waiting" THEN 1 ELSE 0)
      /\ waited'["upstream_stall"] =
           waited["upstream_stall"] + (IF producer.value = "reading" THEN 1 ELSE 0)
      /\ waited'["buffer_acquire"] =
           waited["buffer_acquire"] + (IF producer.value = "waiting" THEN 1 ELSE 0)
  <2>1. \A c \in Observer!Conditions : waited[c] \in Nat
    BY <1>3 DEF WatchTyped
  <2> QED BY <1>2, <2>1, ConditionNames DEF Observer!Holds, Observer!Now
<1>5. waited' \in [Observer!Conditions -> Nat]
  BY <1>2, <1>3 DEF WatchTyped
<1>6. /\ clock \in Nat /\ poolWait \in 0..(clock + 1) /\ producer.at \in 0..clock
      /\ Contends => ContendsSince \in 0..clock
      /\ Counted \in Nat /\ Bound \in Nat /\ Open \in 0..clock
      /\ Open = IF poolWait = 0 THEN 0 ELSE clock - (poolWait - 1)
  BY SinceTyped
<1>7. WatchTyped'
  BY <1>1, <1>3, <1>5, <1>6 DEF WatchTyped, WordOf, LookRecord
<1>8. WatchPhases'
  BY <1>1, <1>3 DEF WatchPhases
<1>9. UNCHANGED <<Mine, Other, Contends, ContendsSince, Counted>>
  BY <1>1 DEF Mine, Other, Contends, ContendsSince, Counted
<1>10. WatchLooks'
  BY <1>1, <1>3, <1>6, <1>9 DEF WatchLooks, WordOf
<1>11. WatchOpen'
  BY <1>1, <1>3, <1>9 DEF WatchOpen
<1>12. WatchWaits'
  <2>1. /\ lifecycle.at \in 0..clock /\ consumer.at \in 0..clock
        /\ \A c \in Observer!Conditions : total[c] \in Nat /\ waited[c] \in Nat
    BY <1>3 DEF WatchTyped, WordOf
  <2> QED BY <1>1, <1>3, <1>4, <1>6, <2>1, ConditionNames DEF WatchWaits, Exact
<1>13. Open' = IF poolWait = 0 THEN Open ELSE Open + 1
  BY <1>1, <1>6 DEF Open
<1>14. Bound' = Bound + (IF phase = "waiting" THEN 1 ELSE 0)
                  + (IF phase = "answered" \/ Mine.pc # "none" \/ Other.pc # "none" THEN 1 ELSE 0)
  <2>1. slack \in Nat /\ waited["buffer_acquire"] \in Nat
    BY <1>3, ConditionNames DEF WatchTyped
  <2> QED BY <1>1, <1>3, <1>4, <2>1 DEF Bound, WatchPhases
<1>15. Contends => Other.pc # "none"
  BY DEF Contends
<1>16. poolWait # 0 => phase \in {"waiting", "answered"} \/ Other.pc # "none"
  BY <1>3 DEF WatchOpen, WatchTyped, Phases
<1>17. Counted' + Open' <= Bound'
  <2>1. Counted + Open <= Bound
    BY <1>3 DEF WatchBooks
  <2> QED BY <1>6, <1>9, <1>13, <1>14, <1>16, <2>1
<1>18. Mine.pc # "none" /\ phase = "waiting" =>
         Counted' + (IF poolWait = 0 /\ Contends THEN clock' - ContendsSince ELSE Open')
           + (clock' - producer.at) <= Bound'
  <2>1. Mine.pc # "none" /\ phase = "waiting" =>
          Counted + (IF poolWait = 0 /\ Contends THEN clock - ContendsSince ELSE Open)
            + (clock - producer.at) <= Bound
    BY <1>3 DEF WatchBooks
  <2> QED BY <1>1, <1>6, <1>9, <1>13, <1>14, <2>1
<1>19. phase = "waiting" /\ Contends => Counted' + Open' + (clock' - ContendsSince) <= Bound'
  <2>1. phase = "waiting" /\ Contends => Counted + Open + (clock - ContendsSince) <= Bound
    BY <1>3 DEF WatchBooks
  <2> QED BY <1>1, <1>6, <1>9, <1>13, <1>14, <1>15, <2>1
<1>20. phase = "answered" /\ Contends =>
         Counted' + (IF poolWait = 0 THEN 0 ELSE Observer!Larger(Mine.now - (poolWait - 1), 0))
           + (clock' - ContendsSince) <= Bound'
  <2> DEFINE x == IF poolWait = 0 THEN 0 ELSE Observer!Larger(Mine.now - (poolWait - 1), 0)
  <2>1. phase = "answered" /\ Contends => Counted + x + (clock - ContendsSince) <= Bound
    BY <1>3 DEF WatchBooks
  <2>2. x \in Int
    BY <1>3, <1>6, LooksTyped DEF LookRecord, Observer!Larger
  <2> HIDE DEF x
  <2>3. phase = "answered" /\ Contends => Counted' + x + (clock' - ContendsSince) <= Bound'
    BY <1>1, <1>6, <1>9, <1>14, <2>1, <2>2
  <2> QED BY <2>3 DEF x
<1>21. WatchBooks'
  BY <1>1, <1>9, <1>17, <1>18, <1>19, <1>20 DEF WatchBooks
<1> QED BY <1>7, <1>8, <1>10, <1>11, <1>12, <1>21 DEF WatchInv

\* Every action keeps the invariant: one lemma above for each of them.
LEMMA WatchNext ==
  ASSUME WatchInv, [Observer!Next]_(Observer!vars)
  PROVE  WatchInv'
<1>1. CASE UNCHANGED Observer!vars
  <2>1. UNCHANGED <<clock, turns, producer, consumer, lifecycle, blocker, terminal, phase, refresh,
                    poolWait, total, longest, waited, slack>>
    BY <1>1 DEF Observer!vars, Observer!words, Observer!waits, Observer!ghosts
  <2>2. UNCHANGED <<Mine, Other, Contends, ContendsSince, Open, Counted, Bound>>
    BY <2>1 DEF Mine, Other, Contends, ContendsSince, Open, Counted, Bound
  <2>3. WatchTyped /\ WatchPhases /\ WatchLooks /\ WatchOpen /\ WatchBooks /\ WatchWaits
    BY DEF WatchInv
  <2>4. WatchTyped' /\ WatchPhases'
    BY <2>1, <2>3 DEF WatchTyped, WordOf, LookRecord, WatchPhases
  <2>5. WatchLooks' /\ WatchOpen' /\ WatchBooks'
    BY <2>1, <2>2, <2>3 DEF WatchLooks, WatchOpen, WatchBooks
  <2>6. WatchWaits'
    BY <2>1, <2>3 DEF WatchWaits, Exact
  <2> QED BY <2>4, <2>5, <2>6 DEF WatchInv
<1>2. CASE \E a \in Observer!Actors : \/ Observer!ReadProducer(a) \/ Observer!ReadBlocker(a)
                                      \/ Observer!Exchange(a)
  <2>1. PICK a \in {"producer", "controller"} :
               Observer!ReadProducer(a) \/ Observer!ReadBlocker(a) \/ Observer!Exchange(a)
    BY <1>2 DEF Observer!Actors
  <2>2. CASE Observer!ReadProducer(a) \/ Observer!ReadBlocker(a)
    BY <2>2, WatchReads
  <2>3. CASE a = "producer" /\ Observer!Exchange(a)
    BY <2>3, WatchExchangeMine
  <2>4. CASE a = "controller" /\ Observer!Exchange(a)
    BY <2>4, WatchExchangeOther
  <2> QED BY <2>1, <2>2, <2>3, <2>4
<1>3. CASE Observer!BeginRead \/ Observer!ProducerDone
  BY <1>3, WatchProduces
<1>4. CASE Observer!EndRead
  BY <1>4, WatchEndRead
<1>5. CASE \E b \in Observer!Blockers \cup {"none"} : Observer!Request(b)
  <2>1. \E b \in {"pool_exhausted", "at_target", "none"} : Observer!Request(b)
    BY <1>5 DEF Observer!Blockers
  <2> QED BY <2>1, WatchRequest
<1>6. CASE Observer!BeginWait
  BY <1>6, WatchBeginWait
<1>7. CASE Observer!EndWait
  BY <1>7, WatchEndWait
<1>8. CASE Observer!Settle
  BY <1>8, WatchSettle
<1>9. CASE \E b \in Observer!Blockers \cup {"none"} : Observer!Reconsider(b)
  <2>1. \E b \in {"pool_exhausted", "at_target", "none"} : Observer!Reconsider(b)
    BY <1>9 DEF Observer!Blockers
  <2> QED BY <2>1, WatchReconsider
<1>10. CASE \/ Observer!Activate \/ Observer!Closing
            \/ \E v \in {"waiting", "writing"} : Observer!BeginConsume(v)
  BY <1>10, WatchLives
<1>11. CASE Observer!EndConsume
  BY <1>11, WatchEndConsume
<1>12. CASE Observer!MarkTerminal
  BY <1>12, WatchMarkTerminal
<1>13. CASE Observer!Tick
  BY <1>13, WatchTick
<1> QED BY <1>1, <1>2, <1>3, <1>4, <1>5, <1>6, <1>7, <1>8, <1>9, <1>10, <1>11, <1>12, <1>13
        DEF Observer!Next

-----------------------------------------------------------------------------
(* What is shown *)

\* How long each wait has lasted at time n, and from when on it counts.
LEMMA DurationFacts ==
  ASSUME Observer!Assumption, WatchTyped, NEW n \in Nat
  PROVE  \A c \in Observer!Conditions : /\ Observer!Duration(Observer!Now, c, n) \in 0..n
                                        /\ Observer!Threshold(c) \in Nat
<1>1. \A c \in Observer!Conditions : Observer!Since(Observer!Now, c) \in Nat
  <2>1. producer.at \in Nat /\ consumer.at \in Nat /\ lifecycle.at \in Nat /\ blocker.at \in Nat
    BY DEF WatchTyped, WordOf
  <2> QED BY <2>1, ConditionNames DEF Observer!Since, Observer!Now, Observer!Larger
<1>2. ASSUME NEW c \in Observer!Conditions
      PROVE  Observer!Duration(Observer!Now, c, n) \in 0..n
  <2>1. Observer!Since(Observer!Now, c) \in Nat
    BY <1>1
  <2> HIDE <1>1
  <2> QED BY <2>1 DEF Observer!Duration, Observer!Larger
<1>3. \A c \in Observer!Conditions : Observer!Threshold(c) \in Nat
  BY DEF Observer!Threshold, Observer!Assumption
<1> QED BY <1>2, <1>3

\* The wait that is shown is one of those that hold, and the longest.
LEMMA SelectedLongest ==
  ASSUME Observer!Assumption, WatchTyped, NEW n \in Nat
  PROVE  LET c == Observer!Selected(Observer!Now, n) IN
         \/ /\ c = "none"
            /\ \A d \in Observer!Conditions : ~Observer!Holds(Observer!Now, d)
         \/ /\ c \in Observer!Conditions /\ c # "none" /\ Observer!Holds(Observer!Now, c)
            /\ \A d \in Observer!Conditions : Observer!Holds(Observer!Now, d) =>
                 Observer!Duration(Observer!Now, d, n) <= Observer!Duration(Observer!Now, c, n)
<1> DEFINE H(c) == Observer!Holds(Observer!Now, c)
           D(c) == Observer!Duration(Observer!Now, c, n)
           O(i) == Observer!Order[i]
           candidates == {i \in 1..6 : H(O(i))}
           best == {i \in candidates : \A j \in candidates : D(O(i)) >= D(O(j))}
           c == Observer!Selected(Observer!Now, n)
<1>1. DOMAIN Observer!Order = 1..6
  BY DEF Observer!Order
<1>2. \A i \in 1..6 : O(i) \in Observer!Conditions /\ O(i) # "none"
  BY ConditionNames DEF Observer!Order
<1>3. \A d \in Observer!Conditions : \E i \in 1..6 : O(i) = d
  <2>1. /\ O(1) = "close_join_stall" /\ O(2) = "downstream_stall" /\ O(3) = "upstream_stall"
        /\ O(4) = "pool_contention" /\ O(5) = "buffer_acquire" /\ O(6) = "consumer_starvation"
    BY DEF Observer!Order
  <2> QED BY <2>1, ConditionNames
<1>4. \A d \in Observer!Conditions : D(d) \in 0..n
  BY DurationFacts
<1>5. c = IF candidates = {} THEN "none" ELSE O(Observer!Min(best))
  BY <1>1 DEF Observer!Selected
<1> HIDE DEF H, D, O, c
<1>6. CASE candidates = {}
  <2>1. c = "none"
    BY <1>5, <1>6
  <2>2. \A i \in 1..6 : ~H(O(i))
    BY <1>6
  <2>3. \A d \in Observer!Conditions : ~H(d)
    BY <1>3, <2>2
  <2> QED BY <2>1, <2>3 DEF c, H
<1>7. CASE candidates # {}
  <2> DEFINE S == {n - D(O(i)) : i \in candidates}
  <2>1. S \in SUBSET Nat /\ S # {}
    BY <1>2, <1>4, <1>7
  <2>2. PICK x \in S : \A y \in S : x <= y
    BY <2>1, LeastNumber
  <2>3. PICK i \in candidates : x = n - D(O(i))
    BY <2>2
  <2>4. ASSUME NEW j \in candidates PROVE D(O(i)) >= D(O(j))
    <3>1. n - D(O(i)) <= n - D(O(j))
      BY <2>2, <2>3
    <3>2. D(O(i)) \in Int /\ D(O(j)) \in Int
      BY <1>2, <1>4
    <3> QED BY <3>1, <3>2
  <2>5. i \in best
    BY <2>4
  <2>6. best \in SUBSET Nat /\ best # {}
    BY <2>5
  <2>7. Observer!Min(best) \in best
    <3>1. \E b \in best : \A y \in best : b <= y
      BY <2>6, LeastNumber
    <3> QED BY <3>1 DEF Observer!Min
  <2>8. PICK k \in best : c = O(k)
    BY <1>5, <1>7, <2>7
  <2>9. /\ k \in 1..6 /\ H(O(k))
        /\ \A j \in candidates : D(O(k)) >= D(O(j))
    BY <2>8
  <2>10. ASSUME NEW d \in Observer!Conditions, H(d) PROVE D(d) <= D(c)
    <3>1. PICK j \in 1..6 : O(j) = d
      BY <1>3
    <3>2. j \in candidates
      BY <2>10, <3>1
    <3>3. D(O(k)) >= D(O(j))
      BY <2>9, <3>2
    <3> QED BY <1>4, <2>8, <2>9, <1>2, <3>1, <3>3
  <2> QED BY <1>2, <2>8, <2>9, <2>10 DEF c, H, D
<1> QED BY <1>6, <1>7 DEF c

\* Of any words, at any later time: the health has its reasons, and they show.
LEMMA HealthTells ==
  ASSUME Observer!Assumption, WatchTyped
  PROVE  Observer!HealthHasReasons
<1> SUFFICES ASSUME NEW n \in clock..MaxTime
             PROVE  LET r == Observer!Reasons(Observer!Now, n)
                        h == Observer!StreamHealth(Observer!Now, n)
                        c == Observer!Selected(Observer!Now, n)
                    IN /\ h = "critical" <=> "close_join_stall" \in r
                       /\ h = "healthy" <=> r = {}
                       /\ c = "none" => /\ r = {}
                                        /\ \A d \in Observer!Conditions :
                                             ~Observer!Holds(Observer!Now, d)
                       /\ c # "none" =>
                            /\ Observer!Holds(Observer!Now, c)
                            /\ \A d \in Observer!Conditions :
                                 Observer!Holds(Observer!Now, d) =>
                                   Observer!Duration(Observer!Now, d, n)
                                     <= Observer!Duration(Observer!Now, c, n)
  BY DEF Observer!HealthHasReasons
<1>1. n \in Nat
  BY DEF WatchTyped, Observer!Assumption
<1> DEFINE H(c) == Observer!Holds(Observer!Now, c)
           D(c) == Observer!Duration(Observer!Now, c, n)
           r == Observer!Reasons(Observer!Now, n)
           h == Observer!StreamHealth(Observer!Now, n)
           c == Observer!Selected(Observer!Now, n)
           Four == {"pool_contention", "consumer_starvation", "upstream_stall", "downstream_stall"}
           T(x) == Observer!Threshold(x)
<1>2. r = {x \in Observer!Conditions \ {"buffer_acquire"} : H(x) /\ D(x) >= T(x)}
  BY DEF Observer!Reasons
<1>3. h = IF H("close_join_stall") /\ D("close_join_stall") >= Long THEN "critical"
          ELSE IF \E x \in Four : H(x) /\ D(x) >= T(x) THEN "warning" ELSE "healthy"
  BY DEF Observer!StreamHealth
<1>4. T("close_join_stall") = Long
  BY DEF Observer!Threshold
<1>5. Observer!Conditions \ {"buffer_acquire"} = Four \cup {"close_join_stall"}
  BY ConditionNames
<1>6. \/ c = "none" /\ \A d \in Observer!Conditions : ~H(d)
      \/ /\ c # "none" /\ H(c)
         /\ \A d \in Observer!Conditions : H(d) => D(d) <= D(c)
  BY <1>1, SelectedLongest
<1> HIDE DEF H, D, T, r, h, c, Four
<1>7. h = "critical" <=> "close_join_stall" \in r
  BY <1>2, <1>3, <1>4, <1>5
<1>8. h = "healthy" <=> r = {}
  BY <1>2, <1>3, <1>4, <1>5
<1>9. (\A d \in Observer!Conditions : ~H(d)) => r = {}
  BY <1>2
<1> QED BY <1>6, <1>7, <1>8, <1>9 DEF H, D, r, h, c

\* The invariant says what the console relies on.
LEMMA WatchEnough ==
  ASSUME Observer!Assumption, WatchInv
  PROVE  Observer!ObserverSound
<1>1. WatchTyped /\ WatchPhases /\ WatchLooks /\ WatchOpen /\ WatchBooks /\ WatchWaits
  BY DEF WatchInv
<1>2. Observer!TypeOK
  BY <1>1 DEF Observer!TypeOK, WatchTyped, WordOf, ProducerValues, Observer!Blockers
<1>3. Observer!WaitsAreExact
  <2>1. \A c \in Observer!Conditions \ {"pool_contention"} :
          waited[c] = total[c] + (IF Observer!Holds(Observer!Now, c) /\ ~terminal
                                  THEN clock - Observer!Since(Observer!Now, c) ELSE 0)
    <3> SUFFICES ASSUME NEW c \in Observer!Conditions \ {"pool_contention"}
                 PROVE  waited[c] = total[c] + (IF Observer!Holds(Observer!Now, c) /\ ~terminal
                                                THEN clock - Observer!Since(Observer!Now, c) ELSE 0)
      OBVIOUS
    <3>1. CASE c = "close_join_stall"
      BY <1>1, <3>1 DEF WatchWaits, Exact, Observer!Holds, Observer!Since, Observer!Now
    <3>2. CASE c = "downstream_stall"
      BY <1>1, <3>2 DEF WatchWaits, Exact, Observer!Holds, Observer!Since, Observer!Now
    <3>3. CASE c = "consumer_starvation"
      BY <1>1, <3>3 DEF WatchWaits, Exact, Observer!Holds, Observer!Since, Observer!Now
    <3>4. CASE c = "upstream_stall"
      BY <1>1, <3>4 DEF WatchWaits, Exact, Observer!Holds, Observer!Since, Observer!Now
    <3>5. CASE c = "buffer_acquire"
      BY <1>1, <3>5 DEF WatchWaits, Exact, Observer!Holds, Observer!Since, Observer!Now
    <3> QED BY <3>1, <3>2, <3>3, <3>4, <3>5, ConditionNames
  <2> QED BY <2>1 DEF Observer!WaitsAreExact
<1>4. Observer!PoolWaitEnds
  <2>1. Counted + Open <= Bound /\ Counted \in Nat /\ Open \in Nat /\ Bound \in Nat
    BY <1>1, SinceTyped DEF WatchBooks
  <2>2. total["pool_contention"] <= waited["buffer_acquire"] + slack
    BY <2>1 DEF Counted, Bound
  <2>3. (phase \in {"idle", "reading", "done"} /\ \A a \in Observer!Actors : Observer!Quiet(a))
          => poolWait = 0
    BY <1>1 DEF WatchOpen, Observer!Actors, Observer!Quiet, Other
  <2>4. terminal => poolWait = 0
    BY <1>1 DEF WatchOpen, WatchPhases, WatchLooks
  <2> QED BY <2>2, <2>3, <2>4 DEF Observer!PoolWaitEnds
<1>5. Observer!HealthHasReasons
  BY <1>1, HealthTells
<1> QED BY <1>2, <1>3, <1>4, <1>5 DEF Observer!ObserverSound

\* For every length of the thresholds and however the producer, the consumer and the
\* controller interleave their changes of the words: each wait is counted to the moment,
\* contention within the time spent waiting and in refreshes, and not left open; and
\* the health shown has its reasons (mediaBufferLiveStream, refreshPoolContention).
THEOREM ObserverStaysSound ==
  ASSUME Observer!Assumption
  PROVE  Observer!Spec => []Observer!ObserverSound
<1>1. Observer!Init => WatchInv
  BY WatchStarts
<1>2. WatchInv /\ [Observer!Next]_(Observer!vars) => WatchInv'
  BY WatchNext
<1>3. WatchInv => Observer!ObserverSound
  BY WatchEnough
<1> QED BY <1>1, <1>2, <1>3, PTL DEF Observer!Spec

-----------------------------------------------------------------------------
(* Policies and routes: the rows administrators save, and what requests find *)

Segments == Words \cup {Rules!Parameter}
Pattern == [segs : Seq(Segments), star : BOOLEAN]

\* A row at its place, at time n after v saves: it is not younger, and has the numbers
\* that order it.
RowSound(r, i, n, v) ==
  /\ r.id = i /\ r.updated \in Int /\ r.updated <= n /\ r.version \in Int /\ r.version <= v
  /\ r.priority \in Int /\ Rank[r.path] \in Int

\* A policy has a path without slashes at its end; a rule has a length.
PolicySound(r, i, n, v) ==
  RowSound(r, i, n, v) /\ r.path \in Pattern /\ Rules!NormalPath(r.path) = r.path
RouteSound(r, i, n, v) == RowSound(r, i, n, v) /\ Length[r.path] \in Int

PolicyTyped ==
  /\ now \in Nat /\ version \in Nat /\ DOMAIN policies = Ids /\ DOMAIN rules = Ids
  /\ \A i \in Ids : policies[i] # Nothing => PolicySound(policies[i], i, now, version)
  /\ \A i \in Ids : rules[i] # Nothing => RouteSound(rules[i], i, now, version)

PolicyInv ==
  /\ PolicyTyped
  /\ \A b \in blind : b[1].updated = b[2].updated
  /\ Rules!DefaultsOnce

-----------------------------------------------------------------------------
\* A set of numbers with a bound has a greatest one.
LEMMA GreatestNumber ==
  ASSUME NEW n \in Nat, NEW S \in SUBSET 1..n, S # {}
  PROVE  \E x \in S : \A y \in S : x >= y
<1> DEFINE T == {n - x : x \in S}
<1>1. T \in SUBSET Nat /\ T # {}
  <2>1. \A x \in S : n - x \in Nat
    OBVIOUS
  <2> QED BY <2>1
<1> HIDE DEF T
<1>2. PICK t \in T : \A y \in T : t <= y
  BY <1>1, LeastNumber
<1>3. PICK x \in S : t = n - x
  BY DEF T
<1>4. ASSUME NEW y \in S PROVE x >= y
  <2>1. n - y \in T
    BY DEF T
  <2>2. t <= n - y
    BY <1>2, <2>1
  <2> QED BY <1>3, <2>2
<1> QED BY <1>4

\* What a pattern or a path is without the slashes at its end.
NormalSegs(s) == s = <<Rules!NoWord>> \/ Len(s) = 0 \/ s[Len(s)] # Rules!NoWord

\* It is one of the beginnings of the sequence, and ends in a word unless it is the root.
LEMMA NormalizedForm ==
  ASSUME NEW S, NEW s \in Seq(S)
  PROVE  /\ Rules!Normalized(s) \in Seq(S)
         /\ NormalSegs(Rules!Normalized(s))
         /\ NormalSegs(s) => Rules!Normalized(s) = s
<1>1. CASE s = <<Rules!NoWord>>
  BY <1>1 DEF Rules!Normalized, NormalSegs
<1>2. CASE s # <<Rules!NoWord>>
  <2> DEFINE I == {i \in 1..Len(s) : s[i] # Rules!NoWord}
  <2>0. Len(s) \in Nat /\ \A i \in 1..Len(s) : s[i] \in S
    OBVIOUS
  <2>1. Rules!Normalized(s) = SubSeq(s, 1, IF I # {} THEN Rules!Max(I) ELSE 0)
    BY <1>2 DEF Rules!Normalized, Rules!SelectLastInSeq
  <2>2. PICK stop : stop = (IF I # {} THEN Rules!Max(I) ELSE 0)
                    /\ Rules!Normalized(s) = SubSeq(s, 1, stop)
    BY <2>1
  <2>3. /\ stop \in 0..Len(s)
        /\ stop # 0 => stop \in I
        /\ \A i \in I : i <= stop
    <3>1. CASE I = {}
      <4>1. stop = 0
        BY <3>1, <2>2
      <4> QED BY <2>0, <3>1, <4>1
    <3>2. CASE I # {}
      <4>1. I \in SUBSET 1..Len(s)
        OBVIOUS
      <4>2. \E x \in I : \A y \in I : x >= y
        <5> HIDE DEF I
        <5> QED BY <2>0, <3>2, <4>1, GreatestNumber
      <4>3. Rules!Max(I) \in I /\ \A y \in I : Rules!Max(I) >= y
        <5> HIDE DEF I
        <5> QED BY <4>2 DEF Rules!Max
      <4>4. stop = Rules!Max(I)
        BY <2>2, <3>2
      <4>5. stop \in I /\ \A y \in I : stop >= y
        BY <4>3, <4>4
      <4>6. stop \in 1..Len(s) /\ \A y \in I : y \in Int
        BY <4>1, <4>5
      <4> HIDE DEF I
      <4> QED BY <2>0, <4>5, <4>6
    <3> QED BY <3>1, <3>2
  <2>4. /\ SubSeq(s, 1, stop) \in Seq(S)
        /\ Len(SubSeq(s, 1, stop)) = stop
        /\ \A i \in 1..stop : SubSeq(s, 1, stop)[i] = s[i]
    <3>1. stop \in Int /\ \A i \in 1..stop : s[i] \in S
      BY <2>0, <2>3
    <3>2. /\ SubSeq(s, 1, stop) \in Seq(S)
          /\ Len(SubSeq(s, 1, stop)) = IF 1 <= stop THEN stop - 1 + 1 ELSE 0
          /\ \A i \in 1..stop - 1 + 1 : SubSeq(s, 1, stop)[i] = s[1 + i - 1]
      BY <3>1, SubSeqProperties
    <3> QED BY <2>3, <3>2
  <2>5. NormalSegs(SubSeq(s, 1, stop))
    BY <2>3, <2>4 DEF NormalSegs
  <2>6. ASSUME NormalSegs(s) PROVE SubSeq(s, 1, stop) = s
    <3>1. stop = Len(s)
      BY <1>2, <2>0, <2>3, <2>6 DEF NormalSegs
    <3> QED BY <3>1, SubSeqFull
  <2> QED BY <2>2, <2>4, <2>5, <2>6
<1> QED BY <1>1, <1>2

\* A pattern that was normalized once is normalized.
LEMMA NormalPathForm ==
  ASSUME NEW p \in Pattern
  PROVE  /\ Rules!NormalPath(p) \in Pattern
         /\ Rules!NormalPath(Rules!NormalPath(p)) = Rules!NormalPath(p)
<1>1. CASE p.star
  BY <1>1 DEF Rules!NormalPath
<1>2. CASE ~p.star
  <2> DEFINE n == Rules!Normalized(p.segs)
             q == [p EXCEPT !.segs = n]
  <2>1. p.segs \in Seq(Segments)
    BY DEF Pattern
  <2>2. n \in Seq(Segments) /\ NormalSegs(n)
    BY <2>1, NormalizedForm
  <2>3. Rules!Normalized(n) = n
    BY <2>2, NormalizedForm
  <2> HIDE DEF n
  <2>4. q \in Pattern /\ q.segs = n /\ q.star = FALSE
    BY <1>2, <2>2 DEF Pattern
  <2>5. Rules!NormalPath(p) = q
    BY <1>2 DEF Rules!NormalPath, n
  <2>6. Rules!NormalPath(q) = [q EXCEPT !.segs = n]
    BY <2>3, <2>4 DEF Rules!NormalPath
  <2>7. [q EXCEPT !.segs = n] = q
    BY <2>4 DEF Pattern
  <2> QED BY <2>4, <2>5, <2>6, <2>7
<1> QED BY <1>1, <1>2

-----------------------------------------------------------------------------
\* The order of two rows by n numbers of each, the first that differs decides.
Above(x, y, n) == \E i \in 1..n : x[i] > y[i] /\ \A j \in 1..(i - 1) : x[j] = y[j]

\* It is the order that the differences of the numbers give.
LEMMA PrecedesMeans ==
  ASSUME NEW n \in Nat, NEW x \in [1..n -> Int], NEW y \in [1..n -> Int], NEW d \in Seq(Int),
         Len(d) = n, \A i \in 1..n : d[i] = x[i] - y[i]
  PROVE  Rules!Precedes(d) <=> Above(x, y, n)
<1> DEFINE I == {i \in 1..Len(d) : d[i] # 0}
<1>1. \A i \in 1..n : /\ d[i] \in Int /\ x[i] \in Int /\ y[i] \in Int
                      /\ d[i] > 0 <=> x[i] > y[i]
                      /\ d[i] = 0 <=> x[i] = y[i]
  OBVIOUS
<1>2. PICK i : /\ i = (IF I # {} THEN Rules!Min(I) ELSE 0)
               /\ Rules!Precedes(d) <=> i # 0 /\ d[i] > 0
  BY DEF Rules!Precedes, Rules!SelectInSeq
<1>3. CASE I = {}
  <2>1. i = 0 /\ \A k \in 1..n : d[k] = 0
    BY <1>2, <1>3
  <2>2. \A k \in 1..n : ~(x[k] > y[k])
    BY <2>1, <1>1
  <2> QED BY <2>1, <2>2, <1>2 DEF Above
<1>4. CASE I # {}
  <2>1. I \in SUBSET Nat
    OBVIOUS
  <2>2. \E k \in I : \A l \in I : k <= l
    <3> HIDE DEF I
    <3> QED BY <1>4, <2>1, LeastNumber
  <2>3. Rules!Min(I) \in I /\ \A l \in I : Rules!Min(I) <= l
    <3> HIDE DEF I
    <3> QED BY <2>2 DEF Rules!Min
  <2>4. i = Rules!Min(I)
    BY <1>2, <1>4
  <2>5. i \in I /\ \A l \in I : i <= l
    BY <2>3, <2>4
  <2>6. i \in 1..n /\ x[i] # y[i] /\ \A j \in 1..(i - 1) : x[j] = y[j]
    <3>1. i \in 1..n /\ d[i] # 0
      BY <2>5
    <3>2. ASSUME NEW j \in 1..(i - 1) PROVE d[j] = 0
      <4>1. j \in 1..n /\ ~(i <= j)
        BY <3>1
      <4> QED BY <2>5, <4>1
    <3> QED BY <3>1, <3>2, <1>1
  <2>7. Rules!Precedes(d) <=> x[i] > y[i]
    <3>1. i # 0
      BY <2>6
    <3>2. d[i] > 0 <=> x[i] > y[i]
      BY <1>1, <2>6
    <3> QED BY <1>2, <3>1, <3>2, Zenon
  <2>8. ASSUME Above(x, y, n) PROVE x[i] > y[i]
    <3>1. PICK k \in 1..n : x[k] > y[k] /\ \A j \in 1..(k - 1) : x[j] = y[j]
      BY <2>8 DEF Above
    <3>2. ~(k < i)
      BY <3>1, <2>6, <1>1
    <3>3. ~(i < k)
      BY <3>1, <2>6
    <3>4. i = k
      BY <3>2, <3>3, <2>6
    <3> QED BY <3>1, <3>4
  <2>9. ASSUME x[i] > y[i] PROVE Above(x, y, n)
    BY <2>6, <2>9 DEF Above
  <2> QED BY <2>7, <2>8, <2>9
<1> QED BY <1>3, <1>4

\* Of two that differ one is above the other.
LEMMA AboveTotal ==
  ASSUME NEW n \in Nat, NEW x \in [1..n -> Int], NEW y \in [1..n -> Int],
         \E i \in 1..n : x[i] # y[i]
  PROVE  Above(x, y, n) \/ Above(y, x, n)
<1> DEFINE I == {i \in 1..n : x[i] # y[i]}
<1>1. I \in SUBSET Nat /\ I # {}
  OBVIOUS
<1>2. PICK i \in I : \A k \in I : i <= k
  <2> HIDE DEF I
  <2> QED BY <1>1, LeastNumber
<1>3. i \in 1..n /\ x[i] # y[i] /\ x[i] \in Int /\ y[i] \in Int
  BY <1>2
<1>4. ASSUME NEW j \in 1..(i - 1) PROVE x[j] = y[j]
  <2>1. j \in 1..n /\ ~(i <= j)
    BY <1>3
  <2> QED BY <1>2, <2>1
<1>5. x[i] > y[i] \/ y[i] > x[i]
  BY <1>3
<1> QED BY <1>3, <1>4, <1>5 DEF Above

\* What is above one that is above a third is above the third.
LEMMA AboveTransitive ==
  ASSUME NEW n \in Nat, NEW x \in [1..n -> Int], NEW y \in [1..n -> Int], NEW z \in [1..n -> Int],
         Above(x, y, n), Above(y, z, n)
  PROVE  Above(x, z, n)
<1>1. PICK i \in 1..n : x[i] > y[i] /\ \A j \in 1..(i - 1) : x[j] = y[j]
  BY DEF Above
<1>2. PICK k \in 1..n : y[k] > z[k] /\ \A j \in 1..(k - 1) : y[j] = z[j]
  BY DEF Above
<1>3. \A j \in 1..n : x[j] \in Int /\ y[j] \in Int /\ z[j] \in Int
  OBVIOUS
<1>4. CASE i <= k
  <2>1. x[i] > z[i]
    <3>1. y[i] > z[i] \/ y[i] = z[i]
      <4>1. CASE i = k
        BY <1>2, <4>1
      <4>2. CASE i # k
        <5>1. i \in 1..(k - 1)
          BY <1>4, <4>2
        <5> QED BY <1>2, <5>1
      <4> QED BY <4>1, <4>2
    <3>2. x[i] \in Int /\ y[i] \in Int /\ z[i] \in Int /\ x[i] > y[i]
      BY <1>1, <1>3
    <3> QED BY <3>1, <3>2
  <2>2. \A j \in 1..(i - 1) : x[j] = z[j]
    BY <1>1, <1>2, <1>4
  <2> QED BY <2>1, <2>2 DEF Above
<1>5. CASE k < i
  <2>1. x[k] > z[k]
    BY <1>1, <1>2, <1>3, <1>5
  <2>2. \A j \in 1..(k - 1) : x[j] = z[j]
    BY <1>1, <1>2, <1>5
  <2> QED BY <2>1, <2>2 DEF Above
<1> QED BY <1>4, <1>5

\* A finite set that an order compares has a first.
LEMMA FirstExists ==
  ASSUME NEW S, IsFiniteSet(S), S # {}, NEW R,
         \A a, b \in S : a = b \/ <<a, b>> \in R \/ <<b, a>> \in R,
         \A a, b, c \in S : <<a, b>> \in R /\ <<b, c>> \in R => <<a, c>> \in R
  PROVE  \E a \in S : \A b \in S \ {a} : <<a, b>> \in R
<1> DEFINE HasFirst(T) == \E a \in T : \A b \in T \ {a} : <<a, b>> \in R
           B == {T \in SUBSET S : T # {} /\ ~HasFirst(T)}
<1>1. SUFFICES ASSUME B # {} PROVE FALSE
  OBVIOUS
<1>2. PICK T \in B : \A x \in T : T \ {x} \notin B
  <2>1. B \subseteq FiniteSubsetsOf(S)
    BY FS_FiniteSubsetsOfFinite
  <2>2. \E T \in B : \A W \in B : ~ (<<W, T>> \in StrictSubsetOrdering(S))
    <3> HIDE DEF B
    <3> QED BY <1>1, <2>1, FS_StrictSubsetOrderingWellFounded, WFMin
  <2>3. PICK T \in B : \A W \in B : ~ (<<W, T>> \in StrictSubsetOrdering(S))
    BY <2>2
  <2>4. \A x \in T : <<T \ {x}, T>> \in StrictSubsetOrdering(S)
    BY DEF StrictSubsetOrdering
  <2>5. \A x \in T : T \ {x} \notin B
    <3> HIDE DEF B
    <3> QED BY <2>3, <2>4
  <2> HIDE DEF B
  <2> QED BY <2>5
<1>3. T \in SUBSET S /\ T # {} /\ ~HasFirst(T)
  OBVIOUS
<1>4. PICK x \in T : TRUE
  BY <1>3
<1>5. T \ {x} \notin B /\ T \ {x} \in SUBSET S /\ x \in S
  BY <1>2, <1>3
<1>6. CASE T \ {x} = {}
  BY <1>3, <1>4, <1>6
<1>7. CASE T \ {x} # {}
  <2>1. PICK a \in T \ {x} : \A b \in (T \ {x}) \ {a} : <<a, b>> \in R
    BY <1>5, <1>7
  <2>2. a \in S /\ a # x
    BY <1>3
  <2>3. CASE <<a, x>> \in R
    <3>1. \A b \in T \ {a} : <<a, b>> \in R
      BY <2>1, <2>3
    <3> QED BY <1>3, <2>1, <3>1
  <2>4. CASE <<x, a>> \in R
    <3>1. ASSUME NEW b \in T \ {x} PROVE <<x, b>> \in R
      <4>1. b = a \/ <<a, b>> \in R
        BY <2>1, <3>1
      <4>2. b \in S
        BY <1>3
      <4> QED BY <4>1, <4>2, <2>2, <2>4, <1>5
    <3> QED BY <1>3, <1>4, <3>1
  <2> QED BY <2>2, <2>3, <2>4, <1>5
<1> QED BY <1>6, <1>7

-----------------------------------------------------------------------------
\* The numbers that order policies, and those that order rules.
PolicyKey(r) ==
  <<Rules!Bit(r.action = "deny"), r.priority, 0 - Rules!MethodRank(r.method),
    0 - Rank[r.path], 0 - r.id>>
RuleKey(r) ==
  <<r.priority, Rules!Bit(r.transport # "any"), Rules!MethodRank(r.method),
    Length[r.path], 0 - Rank[r.path], 0 - r.id>>

\* Each row of a table is at its place.
LEMMA RowsSound ==
  ASSUME Rules!Assumption, PolicyTyped
  PROVE  /\ \A r \in Rules!Rows(policies) : /\ PolicySound(r, r.id, now, version) /\ r.id \in Ids
                                            /\ r.id \in Int /\ r # Nothing
         /\ \A r \in Rules!Rows(rules) : /\ RouteSound(r, r.id, now, version) /\ r.id \in Ids
                                         /\ r.id \in Int /\ r # Nothing
         /\ \A r, s \in Rules!Rows(policies) : r.id = s.id => r = s
         /\ \A r, s \in Rules!Rows(rules) : r.id = s.id => r = s
         /\ IsFiniteSet(Rules!Rows(policies)) /\ IsFiniteSet(Rules!Rows(rules))
<1>1. Ids \subseteq Nat /\ IsFiniteSet(Ids)
  BY DEF Rules!Assumption, Rules!IsFiniteSet, IsFiniteSet
<1>2. ASSUME NEW r \in Rules!Rows(policies)
      PROVE  /\ r.id \in Ids /\ r = policies[r.id] /\ PolicySound(r, r.id, now, version) /\ r # Nothing
             /\ r.id \in Int
  <2>1. PICK i \in Ids : policies[i] # Nothing /\ r = policies[i]
    BY DEF Rules!Rows
  <2>2. PolicySound(r, i, now, version)
    BY <2>1 DEF PolicyTyped
  <2>3. r.id = i
    BY <2>2 DEF PolicySound, RowSound
  <2> QED BY <1>1, <2>1, <2>2, <2>3
<1>3. ASSUME NEW r \in Rules!Rows(rules)
      PROVE  /\ r.id \in Ids /\ r = rules[r.id] /\ RouteSound(r, r.id, now, version) /\ r # Nothing
             /\ r.id \in Int
  <2>1. PICK i \in Ids : rules[i] # Nothing /\ r = rules[i]
    BY DEF Rules!Rows
  <2>2. RouteSound(r, i, now, version)
    BY <2>1 DEF PolicyTyped
  <2>3. r.id = i
    BY <2>2 DEF RouteSound, RowSound
  <2> QED BY <1>1, <2>1, <2>2, <2>3
<1>4. ASSUME NEW t PROVE IsFiniteSet(Rules!Rows(t))
  <2> DEFINE I == {j \in Ids : t[j] # Nothing}
             f == [i \in I |-> t[i]]
  <2>1. IsFiniteSet(I)
    BY <1>1, FS_Subset
  <2>2. Rules!Rows(t) = {f[i] : i \in I}
    BY DEF Rules!Rows
  <2> HIDE DEF I, f
  <2> DEFINE T == {f[i] : i \in I}
  <2>3. IsFiniteSet(T)
    <3>1. f \in Surjection(I, T)
      BY DEF Surjection, f
    <3> HIDE DEF T
    <3> QED BY <2>1, <3>1, FS_Surjection
  <2> QED BY <2>2, <2>3
<1>5. \A r, s \in Rules!Rows(policies) : r.id = s.id => r = s
  <2> TAKE r, s \in Rules!Rows(policies)
  <2>1. r = policies[r.id] /\ s = policies[s.id]
    BY <1>2
  <2> QED BY <2>1
<1>6. \A r, s \in Rules!Rows(rules) : r.id = s.id => r = s
  <2> TAKE r, s \in Rules!Rows(rules)
  <2>1. r = rules[r.id] /\ s = rules[s.id]
    BY <1>3
  <2> QED BY <2>1
<1> QED BY <1>2, <1>3, <1>4, <1>5, <1>6

\* The order of policies is the order of their numbers.
LEMMA PolicyOrder ==
  ASSUME NEW r, NEW s, r.priority \in Int, s.priority \in Int, r.id \in Int, s.id \in Int,
         Rank[r.path] \in Int, Rank[s.path] \in Int
  PROVE  /\ PolicyKey(r) \in [1..5 -> Int] /\ PolicyKey(s) \in [1..5 -> Int]
         /\ Rules!PolicyBefore(r, s) <=> Above(PolicyKey(r), PolicyKey(s), 5)
<1> DEFINE d == <<Rules!Bit(r.action = "deny") - Rules!Bit(s.action = "deny"),
                  r.priority - s.priority, Rules!MethodRank(s.method) - Rules!MethodRank(r.method),
                  Rank[s.path] - Rank[r.path], s.id - r.id>>
           x == PolicyKey(r)
           y == PolicyKey(s)
<1>1. /\ Rules!Bit(r.action = "deny") \in Int /\ Rules!Bit(s.action = "deny") \in Int
      /\ Rules!MethodRank(r.method) \in Int /\ Rules!MethodRank(s.method) \in Int
  BY DEF Rules!Bit, Rules!MethodRank
<1>2. d \in Seq(Int) /\ Len(d) = 5
  BY <1>1
<1>3. x \in [1..5 -> Int] /\ y \in [1..5 -> Int]
  BY <1>1 DEF PolicyKey
<1>4. \A i \in 1..5 : d[i] = x[i] - y[i]
  BY <1>1 DEF PolicyKey
<1>5. Rules!PolicyBefore(r, s) <=> Rules!Precedes(d)
  BY DEF Rules!PolicyBefore
<1> HIDE DEF d, x, y
<1>6. Rules!Precedes(d) <=> Above(x, y, 5)
  <2>1. 5 \in Nat
    OBVIOUS
  <2> QED BY <1>2, <1>3, <1>4, <2>1, PrecedesMeans
<1>7. Rules!PolicyBefore(r, s) <=> Above(x, y, 5)
  BY <1>5, <1>6, Zenon
<1> QED BY <1>3, <1>7 DEF x, y

\* The order of rules is the order of their numbers.
LEMMA RuleOrder ==
  ASSUME NEW r, NEW s, r.priority \in Int, s.priority \in Int, r.id \in Int, s.id \in Int,
         Rank[r.path] \in Int, Rank[s.path] \in Int, Length[r.path] \in Int, Length[s.path] \in Int
  PROVE  /\ RuleKey(r) \in [1..6 -> Int] /\ RuleKey(s) \in [1..6 -> Int]
         /\ Rules!RuleBefore(r, s) <=> Above(RuleKey(r), RuleKey(s), 6)
<1> DEFINE d == <<r.priority - s.priority,
                  Rules!Bit(r.transport # "any") - Rules!Bit(s.transport # "any"),
                  Rules!MethodRank(r.method) - Rules!MethodRank(s.method),
                  Length[r.path] - Length[s.path], Rank[s.path] - Rank[r.path], s.id - r.id>>
           x == RuleKey(r)
           y == RuleKey(s)
<1>1. /\ Rules!Bit(r.transport # "any") \in Int /\ Rules!Bit(s.transport # "any") \in Int
      /\ Rules!MethodRank(r.method) \in Int /\ Rules!MethodRank(s.method) \in Int
  BY DEF Rules!Bit, Rules!MethodRank
<1>2. d \in Seq(Int) /\ Len(d) = 6
  BY <1>1
<1>3. x \in [1..6 -> Int] /\ y \in [1..6 -> Int]
  BY <1>1 DEF RuleKey
<1>4. \A i \in 1..6 : d[i] = x[i] - y[i]
  BY <1>1 DEF RuleKey
<1>5. Rules!RuleBefore(r, s) <=> Rules!Precedes(d)
  BY DEF Rules!RuleBefore
<1> HIDE DEF d, x, y
<1>6. Rules!Precedes(d) <=> Above(x, y, 6)
  <2>1. 6 \in Nat
    OBVIOUS
  <2> QED BY <1>2, <1>3, <1>4, <2>1, PrecedesMeans
<1>7. Rules!RuleBefore(r, s) <=> Above(x, y, 6)
  BY <1>5, <1>6, Zenon
<1> QED BY <1>3, <1>7 DEF x, y

\* Of the policies and of the rules for a request one comes first.
LEMMA FirstPolicy ==
  ASSUME Rules!Assumption, PolicyTyped, NEW S \in SUBSET Rules!Rows(policies), S # {}
  PROVE  \E p \in S : \A s \in S \ {p} : Rules!PolicyBefore(p, s)
<1> DEFINE R == {w \in S \X S : Rules!PolicyBefore(w[1], w[2])}
<1>1. IsFiniteSet(S)
  BY RowsSound, FS_Subset
<1>2. \A r \in S : r.priority \in Int /\ r.id \in Int /\ Rank[r.path] \in Int
  BY RowsSound DEF PolicySound, RowSound
<1>3. \A r, s \in S : <<r, s>> \in R <=> Above(PolicyKey(r), PolicyKey(s), 5)
  <2> TAKE r, s \in S
  <2>1. Rules!PolicyBefore(r, s) <=> Above(PolicyKey(r), PolicyKey(s), 5)
    BY <1>2, PolicyOrder, Zenon
  <2>2. <<r, s>> \in R <=> Rules!PolicyBefore(r, s)
    BY Zenon
  <2> QED BY <2>1, <2>2, Zenon
<1>4. \A r \in S : PolicyKey(r) \in [1..5 -> Int]
  BY <1>2, PolicyOrder
<1>5. ASSUME NEW r \in S, NEW s \in S, r # s
      PROVE  Above(PolicyKey(r), PolicyKey(s), 5) \/ Above(PolicyKey(s), PolicyKey(r), 5)
  <2>1. PolicyKey(r)[5] # PolicyKey(s)[5]
    <3>1. r.id # s.id
      BY <1>5, RowsSound
    <3> QED BY <3>1, <1>2 DEF PolicyKey
  <2>2. 5 \in Nat /\ \E i \in 1..5 : PolicyKey(r)[i] # PolicyKey(s)[i]
    BY <2>1
  <2> QED BY <1>4, <2>2, AboveTotal
<1>6. ASSUME NEW r \in S, NEW s \in S, NEW q \in S,
             Above(PolicyKey(r), PolicyKey(s), 5), Above(PolicyKey(s), PolicyKey(q), 5)
      PROVE  Above(PolicyKey(r), PolicyKey(q), 5)
  <2>1. 5 \in Nat
    OBVIOUS
  <2> QED BY <2>1, <1>4, <1>6, AboveTransitive
<1> HIDE DEF R
<1>7. \E a \in S : \A b \in S \ {a} : <<a, b>> \in R
  <2>1. \A a, b \in S : a = b \/ <<a, b>> \in R \/ <<b, a>> \in R
    BY <1>3, <1>5
  <2>2. \A a, b, c \in S : <<a, b>> \in R /\ <<b, c>> \in R => <<a, c>> \in R
    BY <1>3, <1>6
  <2> QED BY <1>1, <2>1, <2>2, FirstExists
<1>8. \A r, s \in S : <<r, s>> \in R => Rules!PolicyBefore(r, s)
  BY Zenon DEF R
<1> QED BY <1>7, <1>8

\* Of the rules for a request one comes first.
LEMMA FirstRule ==
  ASSUME Rules!Assumption, PolicyTyped, NEW S \in SUBSET Rules!Rows(rules), S # {}
  PROVE  \E p \in S : \A s \in S \ {p} : Rules!RuleBefore(p, s)
<1> DEFINE R == {w \in S \X S : Rules!RuleBefore(w[1], w[2])}
<1>1. IsFiniteSet(S)
  BY RowsSound, FS_Subset
<1>2. \A r \in S : /\ r.priority \in Int /\ r.id \in Int
                   /\ Rank[r.path] \in Int /\ Length[r.path] \in Int
  BY RowsSound DEF RouteSound, RowSound
<1>3. \A r, s \in S : <<r, s>> \in R <=> Above(RuleKey(r), RuleKey(s), 6)
  <2> TAKE r, s \in S
  <2>1. Rules!RuleBefore(r, s) <=> Above(RuleKey(r), RuleKey(s), 6)
    BY <1>2, RuleOrder, Zenon
  <2>2. <<r, s>> \in R <=> Rules!RuleBefore(r, s)
    BY Zenon
  <2> QED BY <2>1, <2>2, Zenon
<1>4. \A r \in S : RuleKey(r) \in [1..6 -> Int]
  BY <1>2, RuleOrder
<1>5. ASSUME NEW r \in S, NEW s \in S, r # s
      PROVE  Above(RuleKey(r), RuleKey(s), 6) \/ Above(RuleKey(s), RuleKey(r), 6)
  <2>1. RuleKey(r)[6] # RuleKey(s)[6]
    <3>1. r.id # s.id
      BY <1>5, RowsSound
    <3> QED BY <3>1, <1>2 DEF RuleKey
  <2>2. 6 \in Nat /\ \E i \in 1..6 : RuleKey(r)[i] # RuleKey(s)[i]
    BY <2>1
  <2> QED BY <1>4, <2>2, AboveTotal
<1>6. ASSUME NEW r \in S, NEW s \in S, NEW q \in S,
             Above(RuleKey(r), RuleKey(s), 6), Above(RuleKey(s), RuleKey(q), 6)
      PROVE  Above(RuleKey(r), RuleKey(q), 6)
  <2>1. 6 \in Nat
    OBVIOUS
  <2> QED BY <2>1, <1>4, <1>6, AboveTransitive
<1> HIDE DEF R
<1>7. \E a \in S : \A b \in S \ {a} : <<a, b>> \in R
  <2>1. \A a, b \in S : a = b \/ <<a, b>> \in R \/ <<b, a>> \in R
    BY <1>3, <1>5
  <2>2. \A a, b, c \in S : <<a, b>> \in R /\ <<b, c>> \in R => <<a, c>> \in R
    BY <1>3, <1>6
  <2> QED BY <1>1, <2>1, <2>2, FirstExists
<1>8. \A r, s \in S : <<r, s>> \in R => Rules!RuleBefore(r, s)
  BY Zenon DEF R
<1> QED BY <1>7, <1>8

\* Which rows are for a request does not depend on the disabled ones being read.
LEMMA EnabledSuffice ==
  ASSUME NEW t
  PROVE  /\ \A m, p : Rules!PoliciesFor(Rules!OnlyEnabled(t), m, p) = Rules!PoliciesFor(t, m, p)
         /\ \A m, p, k : Rules!RulesFor(Rules!OnlyEnabled(t), m, p, k) = Rules!RulesFor(t, m, p, k)
<1> DEFINE e == Rules!OnlyEnabled(t)
<1>1. \A i \in Ids : e[i] = IF t[i] # Nothing /\ t[i].enabled THEN t[i] ELSE Nothing
  BY DEF Rules!OnlyEnabled
<1> HIDE DEF e
<1>2. ASSUME NEW r PROVE r \in Rules!Rows(e) /\ r.enabled <=> r \in Rules!Rows(t) /\ r.enabled
  <2>1. ASSUME r \in Rules!Rows(e), r.enabled PROVE r \in Rules!Rows(t)
    <3>1. PICK i \in Ids : e[i] # Nothing /\ r = e[i]
      BY <2>1 DEF Rules!Rows
    <3>2. r = t[i] /\ t[i] # Nothing
      BY <3>1, <1>1
    <3> QED BY <3>2 DEF Rules!Rows
  <2>2. ASSUME r \in Rules!Rows(t), r.enabled PROVE r \in Rules!Rows(e)
    <3>1. PICK i \in Ids : t[i] # Nothing /\ r = t[i]
      BY <2>2 DEF Rules!Rows
    <3>2. e[i] = r /\ e[i] # Nothing
      BY <3>1, <2>2, <1>1
    <3> QED BY <3>2 DEF Rules!Rows
  <2> QED BY <2>1, <2>2, Zenon
<1>3. ASSUME NEW m, NEW p PROVE Rules!PoliciesFor(e, m, p) = Rules!PoliciesFor(t, m, p)
  BY <1>2, Zenon DEF Rules!PoliciesFor
<1>4. ASSUME NEW m, NEW p, NEW k PROVE Rules!RulesFor(e, m, p, k) = Rules!RulesFor(t, m, p, k)
  BY <1>2, Zenon DEF Rules!RulesFor
<1> QED BY <1>3, <1>4, Zenon DEF e

\* What is decided is what the first of the policies for the request says.
LEMMA DecideMeans ==
  ASSUME Rules!Assumption, PolicyTyped, NEW t, NEW m, NEW path,
         Rules!PoliciesFor(t, m, path) \in SUBSET Rules!Rows(policies)
  PROVE  \E p : /\ Rules!PoliciesFor(t, m, path) = {} => p = Nothing
                /\ Rules!PoliciesFor(t, m, path) # {} =>
                     /\ p \in Rules!PoliciesFor(t, m, path)
                     /\ \A s \in Rules!PoliciesFor(t, m, path) \ {p} : Rules!PolicyBefore(p, s)
                /\ Rules!Decide(t, m, path) <=> (p # Nothing => p.action # "deny")
<1> DEFINE S == Rules!PoliciesFor(t, m, path)
           firsts == {r \in S : \A s \in S \ {r} : Rules!PolicyBefore(r, s)}
           p == IF S = {} THEN Nothing
                ELSE IF firsts = {} THEN Nothing ELSE CHOOSE r \in firsts : TRUE
<1>1. Rules!Decide(t, m, path) <=> (p # Nothing => p.action # "deny")
  BY DEF Rules!Decide, Rules!FirstOf
<1>2. S # {} => p \in S /\ \A s \in S \ {p} : Rules!PolicyBefore(p, s)
  <2>1. ASSUME S # {} PROVE firsts # {}
    <3>1. \E r \in S : \A s \in S \ {r} : Rules!PolicyBefore(r, s)
      <4> HIDE DEF S
      <4> QED BY <2>1, FirstPolicy DEF S
    <3> QED BY <3>1
  <2>2. ASSUME S # {} PROVE p \in firsts
    <3> HIDE DEF firsts
    <3> QED BY <2>1, <2>2
  <2> QED BY <2>2
<1>3. S = {} => p = Nothing
  OBVIOUS
<1> HIDE DEF p
<1> QED BY <1>1, <1>2, <1>3

\* The rule that is selected is the first of those for the request.
LEMMA SelectMeans ==
  ASSUME Rules!Assumption, PolicyTyped, NEW t, NEW m, NEW path, NEW k,
         Rules!RulesFor(t, m, path, k) \in SUBSET Rules!Rows(rules)
  PROVE  /\ Rules!RulesFor(t, m, path, k) = {} => Rules!SelectRule(t, m, path, k) = Nothing
         /\ Rules!RulesFor(t, m, path, k) # {} =>
              /\ Rules!SelectRule(t, m, path, k) \in Rules!RulesFor(t, m, path, k)
              /\ \A s \in Rules!RulesFor(t, m, path, k) \ {Rules!SelectRule(t, m, path, k)} :
                   Rules!RuleBefore(Rules!SelectRule(t, m, path, k), s)
<1> DEFINE S == Rules!RulesFor(t, m, path, k)
           firsts == {r \in S : \A s \in S \ {r} : Rules!RuleBefore(r, s)}
           p == Rules!SelectRule(t, m, path, k)
<1>1. p = IF S = {} THEN Nothing
          ELSE IF firsts = {} THEN Nothing ELSE CHOOSE r \in firsts : TRUE
  BY DEF Rules!SelectRule, Rules!FirstOf
<1> HIDE DEF p
<1>2. ASSUME S # {} PROVE p \in S /\ \A s \in S \ {p} : Rules!RuleBefore(p, s)
  <2>1. firsts # {}
    <3>1. \E r \in S : \A s \in S \ {r} : Rules!RuleBefore(r, s)
      <4> HIDE DEF S
      <4> QED BY <1>2, FirstRule DEF S
    <3> QED BY <3>1
  <2>2. p \in firsts
    <3> HIDE DEF firsts
    <3> QED BY <1>1, <1>2, <2>1
  <2> QED BY <2>2
<1>3. S = {} => p = Nothing
  BY <1>1
<1> QED BY <1>2, <1>3 DEF p

-----------------------------------------------------------------------------
\* The rows for a request are rows, and none of them is nothing.
LEMMA ForSubset ==
  ASSUME NEW t
  PROVE  /\ \A m, p : Rules!PoliciesFor(t, m, p) \in SUBSET Rules!Rows(t)
         /\ \A m, p, k : Rules!RulesFor(t, m, p, k) \in SUBSET Rules!Rows(t)
BY DEF Rules!PoliciesFor, Rules!RulesFor

\* A policy that comes before a denial is a denial.
LEMMA DenialsFirst ==
  ASSUME PolicyTyped, Rules!Assumption, NEW r \in Rules!Rows(policies),
         NEW s \in Rules!Rows(policies), Rules!PolicyBefore(r, s), s.action = "deny"
  PROVE  r.action = "deny"
<1>1. /\ r.priority \in Int /\ s.priority \in Int /\ r.id \in Int /\ s.id \in Int
      /\ Rank[r.path] \in Int /\ Rank[s.path] \in Int
  BY RowsSound DEF PolicySound, RowSound
<1>2. Above(PolicyKey(r), PolicyKey(s), 5)
  BY <1>1, PolicyOrder, Zenon
<1>3. PICK i \in 1..5 : /\ PolicyKey(r)[i] > PolicyKey(s)[i]
                        /\ \A j \in 1..(i - 1) : PolicyKey(r)[j] = PolicyKey(s)[j]
  BY <1>2 DEF Above
<1>4. /\ PolicyKey(r)[1] = Rules!Bit(r.action = "deny")
      /\ PolicyKey(s)[1] = Rules!Bit(s.action = "deny")
  BY DEF PolicyKey
<1>5. Rules!Bit(s.action = "deny") = 1
  BY DEF Rules!Bit
<1>6. PolicyKey(r)[1] >= 1
  <2>1. CASE i = 1
    <3>1. Rules!Bit(r.action = "deny") \in Int
      BY DEF Rules!Bit
    <3> QED BY <1>3, <1>4, <1>5, <2>1, <3>1
  <2>2. CASE i # 1
    <3>1. 1 \in 1..(i - 1)
      BY <2>2
    <3> QED BY <1>3, <1>4, <1>5, <3>1
  <2> QED BY <2>1, <2>2
<1> QED BY <1>4, <1>6 DEF Rules!Bit

\* A rule that comes before one has its priority or a higher one, and when it has the
\* same it names the transport if that one does.
LEMMA PriorityFirst ==
  ASSUME PolicyTyped, Rules!Assumption, NEW r \in Rules!Rows(rules),
         NEW s \in Rules!Rows(rules), Rules!RuleBefore(r, s)
  PROVE  /\ s.priority <= r.priority
         /\ s.priority = r.priority /\ s.transport # "any" => r.transport # "any"
<1>1. /\ r.priority \in Int /\ s.priority \in Int /\ r.id \in Int /\ s.id \in Int
      /\ Rank[r.path] \in Int /\ Rank[s.path] \in Int
      /\ Length[r.path] \in Int /\ Length[s.path] \in Int
  BY RowsSound DEF RouteSound, RowSound
<1>2. Above(RuleKey(r), RuleKey(s), 6)
  BY <1>1, RuleOrder, Zenon
<1>3. PICK i \in 1..6 : /\ RuleKey(r)[i] > RuleKey(s)[i]
                        /\ \A j \in 1..(i - 1) : RuleKey(r)[j] = RuleKey(s)[j]
  BY <1>2 DEF Above
<1> DEFINE a == Rules!Bit(r.transport # "any")
           b == Rules!Bit(s.transport # "any")
<1>4. /\ RuleKey(r)[1] = r.priority /\ RuleKey(s)[1] = s.priority
      /\ RuleKey(r)[2] = a /\ RuleKey(s)[2] = b
  BY DEF RuleKey
<1>5. /\ a \in {0, 1} /\ b \in {0, 1}
      /\ a = 1 <=> r.transport # "any"
      /\ b = 1 <=> s.transport # "any"
  BY DEF Rules!Bit
<1> HIDE DEF a, b
<1>6. r.priority > s.priority \/ (r.priority = s.priority /\ a >= b)
  <2>1. CASE i = 1
    BY <1>3, <1>4, <2>1
  <2>2. CASE i = 2
    <3>1. 1 \in 1..(i - 1)
      BY <2>2
    <3> QED BY <1>3, <1>4, <1>5, <2>2, <3>1
  <2>3. CASE i # 1 /\ i # 2
    <3>1. 1 \in 1..(i - 1) /\ 2 \in 1..(i - 1)
      BY <2>3
    <3> QED BY <1>3, <1>4, <1>5, <3>1
  <2> QED BY <2>1, <2>2, <2>3
<1> QED BY <1>1, <1>5, <1>6

\* A request is refused just when one of the policies for it denies it.
LEMMA DenialHolds == ASSUME Rules!Assumption, PolicyTyped PROVE Rules!DenialWins
<1> SUFFICES ASSUME NEW m \in Rules!Methods, NEW path \in Paths
             PROVE  Rules!CheckPathPolicy(m, path) <=>
                      \A r \in Rules!PoliciesFor(policies, m, path) : r.action # "deny"
  BY Zenon DEF Rules!DenialWins
<1> DEFINE S == Rules!PoliciesFor(policies, m, path)
           t == Rules!OnlyEnabled(policies)
<1>1. Rules!PoliciesFor(t, m, path) = S
  BY EnabledSuffice
<1>2. S \in SUBSET Rules!Rows(policies)
  BY ForSubset
<1>3. Rules!CheckPathPolicy(m, path) <=> Rules!Decide(t, m, path)
  BY DEF Rules!CheckPathPolicy
<1> HIDE DEF t, S
<1>4. PICK p : /\ S = {} => p = Nothing
               /\ S # {} => p \in S /\ \A s \in S \ {p} : Rules!PolicyBefore(p, s)
               /\ Rules!Decide(t, m, path) <=> (p # Nothing => p.action # "deny")
  BY <1>1, <1>2, DecideMeans
<1>5. (p # Nothing => p.action # "deny") <=> \A r \in S : r.action # "deny"
  <2>1. CASE S = {}
    BY <1>4, <2>1
  <2>2. CASE S # {}
    <3>1. p \in S /\ p # Nothing
      BY <1>2, <1>4, <2>2, RowsSound
    <3>2. ASSUME NEW r \in S, r.action = "deny" PROVE p.action = "deny"
      <4>1. CASE r = p
        BY <3>2, <4>1
      <4>2. CASE r # p
        <5>1. Rules!PolicyBefore(p, r)
          BY <1>4, <2>2, <4>2
        <5> QED BY <1>2, <3>1, <3>2, <5>1, DenialsFirst
      <4> QED BY <4>1, <4>2
    <3> QED BY <3>1, <3>2
  <2> QED BY <2>1, <2>2
<1> QED BY <1>3, <1>4, <1>5, Zenon DEF S

\* The rule for a request is the first of those for it.
LEMMA RuleHolds == ASSUME Rules!Assumption, PolicyTyped PROVE Rules!RuleIsFirst
<1> SUFFICES ASSUME NEW m \in Rules!Methods, NEW path \in Paths, NEW k \in Rules!Transports
             PROVE  LET all == Rules!RulesFor(rules, m, path, k)
                        r == Rules!Routed(m, path, k)
                    IN /\ r = Nothing <=> all = {}
                       /\ \A s \in all :
                            /\ s.priority <= r.priority
                            /\ (s.priority = r.priority /\ s.transport = k) => r.transport = k
  BY Zenon DEF Rules!RuleIsFirst
<1> DEFINE S == Rules!RulesFor(rules, m, path, k)
           t == Rules!OnlyEnabled(rules)
           r == Rules!SelectRule(t, m, path, k)
<1>1. Rules!RulesFor(t, m, path, k) = S
  BY EnabledSuffice
<1>2. S \in SUBSET Rules!Rows(rules)
  BY ForSubset
<1>3. Rules!Routed(m, path, k) = r
  BY DEF Rules!Routed
<1>4. /\ S = {} => r = Nothing
      /\ S # {} => r \in S /\ \A s \in S \ {r} : Rules!RuleBefore(r, s)
  <2> HIDE DEF t, S
  <2> QED BY <1>1, <1>2, SelectMeans
<1>5. \A s \in S : s.transport \in {"any", k}
  BY DEF Rules!RulesFor, Rules!TransportMatches
<1>6. k # "any"
  BY DEF Rules!Transports
<1> HIDE DEF S, t, r
<1>7. r = Nothing <=> S = {}
  <2>1. S # {} => r # Nothing
    BY <1>2, <1>4, RowsSound
  <2> QED BY <1>4, <2>1
<1>8. ASSUME NEW s \in S
      PROVE  /\ s.priority <= r.priority
             /\ (s.priority = r.priority /\ s.transport = k) => r.transport = k
  <2>1. r \in S
    BY <1>4, <1>8
  <2>2. CASE s = r
    <3>1. r.priority \in Int
      BY <1>2, <2>1, RowsSound DEF RouteSound, RowSound
    <3> QED BY <2>2, <3>1
  <2>3. CASE s # r
    <3>1. Rules!RuleBefore(r, s)
      BY <1>4, <1>8, <2>3
    <3>2. /\ s.priority <= r.priority
          /\ s.priority = r.priority /\ s.transport # "any" => r.transport # "any"
      BY <1>2, <1>8, <2>1, <3>1, PriorityFirst
    <3> QED BY <1>5, <1>6, <2>1, <3>2
  <2> QED BY <2>2, <2>3
<1> QED BY <1>3, <1>7, <1>8 DEF S

\* The previews read the disabled rows as well, and find the same.
LEMMA PreviewsHold == Rules!PreviewsTell
<1>1. ASSUME NEW m, NEW p PROVE Rules!PreviewPolicy(m, p) <=> Rules!CheckPathPolicy(m, p)
  <2>1. Rules!PoliciesFor(Rules!OnlyEnabled(policies), m, p) = Rules!PoliciesFor(policies, m, p)
    BY EnabledSuffice
  <2> QED BY <2>1, Zenon DEF Rules!PreviewPolicy, Rules!CheckPathPolicy, Rules!Decide
<1>2. ASSUME NEW m, NEW p, NEW k \in Rules!Transports
      PROVE  Rules!PreviewRouteRule(m, p, k) = Rules!Routed(m, p, k)
  <2>1. Rules!RulesFor(Rules!OnlyEnabled(rules), m, p, k) = Rules!RulesFor(rules, m, p, k)
    BY EnabledSuffice
  <2>2. k # "any"
    BY DEF Rules!Transports
  <2>3. Rules!PreviewRouteRule(m, p, k) = Rules!SelectRule(rules, m, p, k)
    BY <2>2 DEF Rules!PreviewRouteRule
  <2> QED BY <2>1, <2>3, Zenon DEF Rules!Routed, Rules!SelectRule
<1> QED BY <1>1, <1>2, Zenon DEF Rules!PreviewsTell

\* The parameters of a pattern, and the pattern with words for them.
Holes(p) == {i \in DOMAIN p : p[i] = Rules!Parameter}
Filled(p, fill) == [i \in DOMAIN p |-> IF i \in Holes(p) THEN fill[i] ELSE p[i]]

\* A pattern with words for its parameters is normal like the pattern.
LEMMA FilledForm ==
  ASSUME NEW p \in Seq(Segments), NormalSegs(p),
         NEW fill \in [Holes(p) -> Words \ {Rules!NoWord}], NEW g, g = Filled(p, fill)
  PROVE  /\ g \in Seq(Segments) /\ Len(g) = Len(p) /\ NormalSegs(g)
         /\ \A i \in 1..Len(p) : IF p[i] = Rules!Parameter
                                 THEN g[i] = fill[i] /\ g[i] \in Words /\ g[i] # Rules!NoWord
                                 ELSE g[i] = p[i]
<1>1. Len(p) \in Nat /\ DOMAIN p = 1..Len(p) /\ \A i \in 1..Len(p) : p[i] \in Segments
  BY LenProperties
<1>2. \A i \in 1..Len(p) : IF p[i] = Rules!Parameter
                           THEN g[i] = fill[i] /\ g[i] \in Words /\ g[i] # Rules!NoWord
                           ELSE g[i] = p[i]
  BY <1>1 DEF Filled, Holes
<1>3. g \in [1..Len(p) -> Segments]
  BY <1>1, <1>2 DEF Segments, Filled
<1>4. g \in Seq(Segments) /\ Len(g) = Len(p)
  BY <1>1, <1>3
<1>5. NormalSegs(g)
  <2>1. CASE p = <<Rules!NoWord>>
    <3>1. Len(p) = 1 /\ p[1] = Rules!NoWord
      BY <2>1
    <3>2. Rules!NoWord # Rules!Parameter
      BY Zenon DEF Rules!NoWord, Rules!Parameter
    <3>3. g[1] = Rules!NoWord
      BY <1>2, <3>1, <3>2
    <3>4. g = <<Rules!NoWord>>
      BY <1>4, <3>1, <3>3
    <3> QED BY <3>4 DEF NormalSegs
  <2>2. CASE p # <<Rules!NoWord>> /\ Len(p) # 0
    <3>1. p[Len(p)] # Rules!NoWord /\ Len(p) \in 1..Len(p)
      BY <1>1, <2>2 DEF NormalSegs
    <3>2. g[Len(p)] # Rules!NoWord
      BY <1>2, <3>1
    <3> QED BY <1>4, <3>2 DEF NormalSegs
  <2>3. CASE Len(p) = 0
    BY <1>4, <2>3 DEF NormalSegs
  <2> QED BY <2>1, <2>2, <2>3
<1> QED BY <1>2, <1>4, <1>5

\* An exact pattern matches the paths that are it with words for its parameters.
LEMMA PatternsHold == ASSUME Rules!Assumption PROVE Rules!PatternsMeanWords
<1> SUFFICES ASSUME NEW f \in PolicyForms \cup Defaults, NEW path \in Paths, ~f.path.star
             PROVE  LET p == Rules!Normalized(f.path.segs)
                        holes == {i \in DOMAIN p : p[i] = Rules!Parameter}
                    IN Rules!MatchPath(f.path, path) <=>
                         \E fill \in [holes -> Words \ {Rules!NoWord}] :
                           Rules!Normalized([i \in DOMAIN p |-> IF i \in holes THEN fill[i] ELSE p[i]])
                             = Rules!Normalized(path)
  BY Zenon DEF Rules!PatternsMeanWords
<1> DEFINE p == Rules!Normalized(f.path.segs)
           r == Rules!Normalized(path)
           Match == /\ Len(p) = Len(r)
                    /\ \A i \in DOMAIN p : IF p[i] = Rules!Parameter THEN r[i] # Rules!NoWord
                                           ELSE p[i] = r[i]
<1>1. Rules!MatchPath(f.path, path) <=> Match
  BY DEF Rules!MatchPath
<1>2. f.path.segs \in Seq(Segments) /\ path \in Seq(Words)
  BY DEF Rules!Assumption, Segments
<1>3. /\ p \in Seq(Segments) /\ NormalSegs(p)
      /\ r \in Seq(Words) /\ NormalSegs(r) /\ Rules!Normalized(r) = r
  <2>1. p \in Seq(Segments) /\ NormalSegs(p)
    BY <1>2, NormalizedForm
  <2>2. r \in Seq(Words) /\ NormalSegs(r)
    BY <1>2, NormalizedForm
  <2>3. Rules!Normalized(r) = r
    <3> HIDE DEF r
    <3> QED BY <2>2, NormalizedForm
  <2> QED BY <2>1, <2>2, <2>3
<1> HIDE DEF p, r
<1>4. /\ Len(p) \in Nat /\ DOMAIN p = 1..Len(p) /\ \A i \in 1..Len(p) : p[i] \in Segments
      /\ Len(r) \in Nat /\ DOMAIN r = 1..Len(r) /\ \A i \in 1..Len(r) : r[i] \in Words
  BY <1>3, LenProperties
<1>5. ASSUME Match
      PROVE  \E fill \in [Holes(p) -> Words \ {Rules!NoWord}] : Rules!Normalized(Filled(p, fill)) = r
  <2> DEFINE fill == [i \in Holes(p) |-> r[i]]
             g == Filled(p, fill)
  <2>1. fill \in [Holes(p) -> Words \ {Rules!NoWord}]
    BY <1>4, <1>5 DEF Holes
  <2>2. \A i \in 1..Len(p) : g[i] = r[i]
    BY <1>4, <1>5 DEF Holes, Filled
  <2>3. DOMAIN g = 1..Len(r) /\ g = [i \in 1..Len(r) |-> g[i]]
    BY <1>4, <1>5 DEF Filled
  <2>4. r = [i \in 1..Len(r) |-> r[i]]
    BY <1>3, <1>4, LenProperties
  <2> HIDE DEF g
  <2>5. g = r
    BY <1>5, <2>2, <2>3, <2>4
  <2> QED BY <1>3, <2>1, <2>5 DEF g
<1>6. ASSUME NEW fill \in [Holes(p) -> Words \ {Rules!NoWord}], Rules!Normalized(Filled(p, fill)) = r
      PROVE  Match
  <2> DEFINE g == Filled(p, fill)
  <2>1. g = Filled(p, fill)
    OBVIOUS
  <2> HIDE DEF g
  <2>2. /\ g \in Seq(Segments) /\ Len(g) = Len(p) /\ NormalSegs(g)
        /\ \A i \in 1..Len(p) : IF p[i] = Rules!Parameter
                                THEN g[i] = fill[i] /\ g[i] \in Words /\ g[i] # Rules!NoWord
                                ELSE g[i] = p[i]
    BY <1>3, <2>1, FilledForm
  <2>3. Rules!Normalized(g) = g
    BY <2>2, NormalizedForm
  <2>4. g = r
    BY <1>6, <2>3 DEF g
  <2> QED BY <1>4, <2>2, <2>4
<1> HIDE DEF Match
<1>7. Match <=> \E fill \in [Holes(p) -> Words \ {Rules!NoWord}] : Rules!Normalized(Filled(p, fill)) = r
  BY <1>5, <1>6, Zenon
<1> QED BY <1>1, <1>7, Zenon DEF p, r, Holes, Filled

-----------------------------------------------------------------------------
\* Rows grow old.
LEMMA RowLasts ==
  ASSUME NEW r, NEW i, NEW n \in Nat, NEW n2 \in Nat, NEW v \in Nat, NEW v2 \in Nat,
         n <= n2, v <= v2
  PROVE  /\ PolicySound(r, i, n, v) => PolicySound(r, i, n2, v2)
         /\ RouteSound(r, i, n, v) => RouteSound(r, i, n2, v2)
<1>1. RowSound(r, i, n, v) => RowSound(r, i, n2, v2)
  BY DEF RowSound
<1> QED BY <1>1 DEF PolicySound, RouteSound

\* The row of a form, and the same when it is a default that is installed.
Installed(d, i) == [Rules!PolicyRow(d, i) EXCEPT !.installed = TRUE]

\* What a form becomes: a row without slashes at its end, of the same identity.
LEMMA PolicyRowFacts ==
  ASSUME Rules!Assumption, PolicyTyped, NEW f \in PolicyForms \cup Defaults, NEW i
  PROVE  /\ PolicySound(Rules!PolicyRow(f, i), i, now, version + 1)
         /\ ~Rules!PolicyRow(f, i).installed /\ Rules!PolicyRow(f, i).version = version + 1
         /\ PolicySound(Installed(f, i), i, now, version + 1)
         /\ Rules!Identity(Installed(f, i)) = Rules!Identity(f)
<1> DEFINE p == Rules!NormalPath(f.path)
<1>1. f.path \in Pattern /\ f.priority \in Int /\ Rank[p] \in Int
  BY DEF Rules!Assumption, Pattern, Segments
<1>2. p \in Pattern /\ Rules!NormalPath(p) = p
  BY <1>1, NormalPathForm
<1> HIDE DEF p
<1>3. now \in Nat /\ version \in Nat
  BY DEF PolicyTyped
<1> DEFINE r == Rules!PolicyRow(f, i)
           q == Installed(f, i)
<1>4. /\ r.id = i /\ r.method = f.method /\ r.path = p /\ r.priority = f.priority
      /\ r.updated = now /\ r.version = version + 1 /\ r.installed = FALSE
  BY DEF Rules!PolicyRow, p
<1>5. /\ q.id = i /\ q.method = f.method /\ q.path = p /\ q.priority = f.priority
      /\ q.updated = now /\ q.version = version + 1
  BY DEF Installed, Rules!PolicyRow, p
<1> HIDE DEF r, q
<1>6. PolicySound(r, i, now, version + 1)
  BY <1>1, <1>2, <1>3, <1>4 DEF PolicySound, RowSound
<1>7. PolicySound(q, i, now, version + 1)
  BY <1>1, <1>2, <1>3, <1>5 DEF PolicySound, RowSound
<1>8. Rules!Identity(q) = Rules!Identity(f)
  BY <1>2, <1>5 DEF Rules!Identity, p
<1> QED BY <1>4, <1>6, <1>7, <1>8 DEF r, q

\* The row of a rule.
LEMMA RuleRowFacts ==
  ASSUME Rules!Assumption, PolicyTyped, NEW f \in RuleForms, NEW i
  PROVE  RouteSound(Rules!RuleRow(f, i), i, now, version + 1)
<1>1. f.priority \in Int /\ Length[f.path] \in Int /\ Rank[f.path] \in Int
  BY DEF Rules!Assumption
<1>2. now \in Nat /\ version \in Nat
  BY DEF PolicyTyped
<1> DEFINE r == Rules!RuleRow(f, i)
<1>3. /\ r.id = i /\ r.path = f.path /\ r.priority = f.priority
      /\ r.updated = now /\ r.version = version + 1
  BY DEF Rules!RuleRow
<1> HIDE DEF r
<1>4. RouteSound(r, i, now, version + 1)
  BY <1>1, <1>2, <1>3 DEF RouteSound, RowSound
<1> QED BY <1>4 DEF r

\* A row that is free is one of the table's.
LEMMA FreeIn ==
  ASSUME Rules!Assumption, NEW t, Rules!Free(t) # {}
  PROVE  Rules!Min(Rules!Free(t)) \in Ids
<1> DEFINE S == Rules!Free(t)
<1>1. S \in SUBSET Nat /\ S \in SUBSET Ids
  BY DEF Rules!Free, Rules!Assumption
<1> HIDE DEF S
<1>2. \E x \in S : \A y \in S : x <= y
  BY <1>1, LeastNumber DEF S
<1>3. Rules!Min(S) \in S
  BY <1>2 DEF Rules!Min
<1> QED BY <1>1, <1>3 DEF S

\* One policy is saved, by an administrator, or deleted.
LEMMA PolicyChange ==
  ASSUME Rules!Assumption, PolicyInv, NEW k \in Ids, NEW x,
         policies' = [policies EXCEPT ![k] = x], rules' = rules,
         now' = now, version' \in {version, version + 1},
         x # Nothing => /\ PolicySound(x, k, now, version')
                        /\ ~x.installed /\ x.version = version + 1,
         \A b \in blind' : b[1].updated = b[2].updated
  PROVE  PolicyInv'
<1>1. now \in Nat /\ version \in Nat /\ DOMAIN policies = Ids /\ DOMAIN rules = Ids
  BY DEF PolicyInv, PolicyTyped
<1>2. DOMAIN policies' = Ids /\ \A i \in Ids : policies'[i] = IF i = k THEN x ELSE policies[i]
  BY <1>1
<1>3. version' \in Nat /\ version <= version' /\ now <= now
  BY <1>1
<1>4. ASSUME NEW i \in Ids, policies'[i] # Nothing
      PROVE  PolicySound(policies'[i], i, now', version')
  <2>1. CASE i = k
    BY <1>2, <1>4, <2>1
  <2>2. CASE i # k
    <3>1. policies'[i] = policies[i] /\ PolicySound(policies[i], i, now, version)
      BY <1>2, <1>4, <2>2 DEF PolicyInv, PolicyTyped
    <3>2. PolicySound(policies[i], i, now, version')
      BY <1>1, <1>3, <3>1, RowLasts
    <3> QED BY <3>1, <3>2
  <2> QED BY <2>1, <2>2
<1>5. ASSUME NEW i \in Ids, rules'[i] # Nothing PROVE RouteSound(rules'[i], i, now', version')
  <2>1. rules'[i] = rules[i] /\ RouteSound(rules[i], i, now, version)
    BY <1>5 DEF PolicyInv, PolicyTyped
  <2>2. RouteSound(rules[i], i, now, version')
    BY <1>1, <1>3, <2>1, RowLasts
  <2> QED BY <2>1, <2>2
<1>6. PolicyTyped'
  BY <1>1, <1>2, <1>3, <1>4, <1>5 DEF PolicyTyped
<1>7. Rules!DefaultsOnce'
  <2> SUFFICES ASSUME NEW i \in Ids, NEW j \in Ids, i # j,
                      policies'[i] # Nothing, policies'[j] # Nothing, policies'[i].installed,
                      Rules!Identity(policies'[i]) = Rules!Identity(policies'[j])
               PROVE  ~policies'[j].installed /\ policies'[j].version > policies'[i].version
    BY Zenon DEF Rules!DefaultsOnce
  <2>1. i # k /\ policies'[i] = policies[i]
    BY <1>2
  <2>2. CASE j = k
    <3>1. policies'[j] = x /\ ~x.installed /\ x.version = version + 1
      BY <1>2, <2>2
    <3>2. policies[i].version \in Int /\ policies[i].version <= version
      BY <2>1 DEF PolicyInv, PolicyTyped, PolicySound, RowSound
    <3> QED BY <1>1, <2>1, <3>1, <3>2
  <2>3. CASE j # k
    <3>1. policies'[j] = policies[j]
      BY <1>2, <2>3
    <3> QED BY <2>1, <3>1 DEF PolicyInv, Rules!DefaultsOnce
  <2> QED BY <2>2, <2>3
<1> QED BY <1>6, <1>7 DEF PolicyInv

\* One rule is saved or deleted.
LEMMA RuleChange ==
  ASSUME Rules!Assumption, PolicyInv, NEW k \in Ids, NEW x,
         rules' = [rules EXCEPT ![k] = x], policies' = policies,
         now' = now, version' \in {version, version + 1},
         x # Nothing => RouteSound(x, k, now, version'),
         \A b \in blind' : b[1].updated = b[2].updated
  PROVE  PolicyInv'
<1>1. now \in Nat /\ version \in Nat /\ DOMAIN policies = Ids /\ DOMAIN rules = Ids
  BY DEF PolicyInv, PolicyTyped
<1>2. DOMAIN rules' = Ids /\ \A i \in Ids : rules'[i] = IF i = k THEN x ELSE rules[i]
  BY <1>1
<1>3. version' \in Nat /\ version <= version' /\ now <= now
  BY <1>1
<1>4. ASSUME NEW i \in Ids, rules'[i] # Nothing PROVE RouteSound(rules'[i], i, now', version')
  <2>1. CASE i = k
    BY <1>2, <1>4, <2>1
  <2>2. CASE i # k
    <3>1. rules'[i] = rules[i] /\ RouteSound(rules[i], i, now, version)
      BY <1>2, <1>4, <2>2 DEF PolicyInv, PolicyTyped
    <3>2. RouteSound(rules[i], i, now, version')
      BY <1>1, <1>3, <3>1, RowLasts
    <3> QED BY <3>1, <3>2
  <2> QED BY <2>1, <2>2
<1>5. ASSUME NEW i \in Ids, policies'[i] # Nothing
      PROVE  PolicySound(policies'[i], i, now', version')
  <2>1. policies'[i] = policies[i] /\ PolicySound(policies[i], i, now, version)
    BY <1>5 DEF PolicyInv, PolicyTyped
  <2>2. PolicySound(policies[i], i, now, version')
    BY <1>1, <1>3, <2>1, RowLasts
  <2> QED BY <2>1, <2>2
<1>6. PolicyTyped'
  BY <1>1, <1>2, <1>3, <1>4, <1>5 DEF PolicyTyped
<1>7. Rules!DefaultsOnce'
  BY DEF PolicyInv, Rules!DefaultsOnce
<1> QED BY <1>6, <1>7 DEF PolicyInv

\* What administrators do to a policy keeps the invariant.
LEMMA StepPolicy ==
  ASSUME Rules!Assumption, PolicyInv,
         \/ \E f \in PolicyForms : Rules!CreatePolicy(f)
         \/ \E c \in Clients, i \in Ids, f \in PolicyForms, b \in BOOLEAN :
              Rules!UpdatePolicy(c, i, f, b)
         \/ \E i \in Ids : Rules!DeletePolicy(i)
  PROVE  PolicyInv'
<1>0. PolicyTyped /\ version \in Nat /\ \A b \in blind : b[1].updated = b[2].updated
  BY DEF PolicyInv, PolicyTyped
<1>1. ASSUME NEW f \in PolicyForms, Rules!CreatePolicy(f) PROVE PolicyInv'
  <2> DEFINE k == Rules!Min(Rules!Free(policies))
  <2>1. /\ policies' = [policies EXCEPT ![k] = Rules!PolicyRow(f, k)] /\ rules' = rules
        /\ now' = now /\ version' = version + 1 /\ blind' = blind /\ Rules!Free(policies) # {}
    BY <1>1 DEF Rules!CreatePolicy, Rules!Saved
  <2>2. k \in Ids
    BY <2>1, FreeIn
  <2> HIDE DEF k
  <2>3. /\ PolicySound(Rules!PolicyRow(f, k), k, now, version + 1)
        /\ ~Rules!PolicyRow(f, k).installed /\ Rules!PolicyRow(f, k).version = version + 1
    BY <1>0, PolicyRowFacts
  <2> QED BY <1>0, <2>1, <2>2, <2>3, PolicyChange
<1>2. ASSUME NEW c \in Clients, NEW i \in Ids, NEW f \in PolicyForms, NEW b \in BOOLEAN,
             Rules!UpdatePolicy(c, i, f, b)
      PROVE  PolicyInv'
  <2>1. /\ policies' = [policies EXCEPT ![i] = Rules!PolicyRow(f, i)] /\ rules' = rules
        /\ now' = now /\ version' = version + 1
    BY <1>2 DEF Rules!UpdatePolicy, Rules!Saved
  <2>2. /\ PolicySound(Rules!PolicyRow(f, i), i, now, version + 1)
        /\ ~Rules!PolicyRow(f, i).installed /\ Rules!PolicyRow(f, i).version = version + 1
    BY <1>0, PolicyRowFacts
  <2>3. \A w \in blind' : w[1].updated = w[2].updated
    BY <1>0, <1>2 DEF Rules!UpdatePolicy, Rules!Meant, Rules!Note
  <2> QED BY <2>1, <2>2, <2>3, PolicyChange
<1>3. ASSUME NEW i \in Ids, Rules!DeletePolicy(i) PROVE PolicyInv'
  <2>1. /\ policies' = [policies EXCEPT ![i] = Nothing] /\ rules' = rules
        /\ now' = now /\ version' = version /\ blind' = blind
    BY <1>3 DEF Rules!DeletePolicy
  <2> QED BY <1>0, <2>1, PolicyChange
<1> QED BY <1>1, <1>2, <1>3

\* So does what is done to a rule.
LEMMA StepRule ==
  ASSUME Rules!Assumption, PolicyInv,
         \/ \E f \in RuleForms : Rules!CreateRouteRule(f)
         \/ \E c \in Clients, i \in Ids, f \in RuleForms, b \in BOOLEAN :
              Rules!UpdateRouteRule(c, i, f, b)
         \/ \E i \in Ids : Rules!DeleteRouteRule(i)
  PROVE  PolicyInv'
<1>0. PolicyTyped /\ version \in Nat /\ \A b \in blind : b[1].updated = b[2].updated
  BY DEF PolicyInv, PolicyTyped
<1>1. ASSUME NEW f \in RuleForms, Rules!CreateRouteRule(f) PROVE PolicyInv'
  <2> DEFINE k == Rules!Min(Rules!Free(rules))
  <2>1. /\ rules' = [rules EXCEPT ![k] = Rules!RuleRow(f, k)] /\ policies' = policies
        /\ now' = now /\ version' = version + 1 /\ blind' = blind /\ Rules!Free(rules) # {}
    BY <1>1 DEF Rules!CreateRouteRule, Rules!Saved
  <2>2. k \in Ids
    BY <2>1, FreeIn
  <2> HIDE DEF k
  <2>3. RouteSound(Rules!RuleRow(f, k), k, now, version + 1)
    BY <1>0, RuleRowFacts
  <2> QED BY <1>0, <2>1, <2>2, <2>3, RuleChange
<1>2. ASSUME NEW c \in Clients, NEW i \in Ids, NEW f \in RuleForms, NEW b \in BOOLEAN,
             Rules!UpdateRouteRule(c, i, f, b)
      PROVE  PolicyInv'
  <2>1. /\ rules' = [rules EXCEPT ![i] = Rules!RuleRow(f, i)] /\ policies' = policies
        /\ now' = now /\ version' = version + 1
    BY <1>2 DEF Rules!UpdateRouteRule, Rules!Saved
  <2>2. RouteSound(Rules!RuleRow(f, i), i, now, version + 1)
    BY <1>0, RuleRowFacts
  <2>3. \A w \in blind' : w[1].updated = w[2].updated
    BY <1>0, <1>2 DEF Rules!UpdateRouteRule, Rules!Meant, Rules!Note
  <2> QED BY <2>1, <2>2, <2>3, RuleChange
<1>3. ASSUME NEW i \in Ids, Rules!DeleteRouteRule(i) PROVE PolicyInv'
  <2>1. /\ rules' = [rules EXCEPT ![i] = Nothing] /\ policies' = policies
        /\ now' = now /\ version' = version /\ blind' = blind
    BY <1>3 DEF Rules!DeleteRouteRule
  <2> QED BY <1>0, <2>1, RuleChange
<1> QED BY <1>1, <1>2, <1>3

\* A finite set as a sequence has each of its members once.
LEMMA Enumerated ==
  ASSUME NEW S, IsFiniteSet(S)
  PROVE  /\ \A n \in DOMAIN Rules!SetToSeq(S) : Rules!SetToSeq(S)[n] \in S
         /\ \A n, m \in DOMAIN Rules!SetToSeq(S) :
              n # m => Rules!SetToSeq(S)[n] # Rules!SetToSeq(S)[m]
<1> DEFINE D == 1..Cardinality(S)
<1>1. PICK g : g \in Bijection(D, S)
  BY FS_CardinalityType DEF ExistsBijection
<1>2. g \in [D -> S] /\ Rules!IsInjective(g)
  BY <1>1 DEF Bijection, Injection, Surjection, IsInjective, Rules!IsInjective
<1>3. Rules!Cardinality(S) = Cardinality(S)
  BY DEF Rules!Cardinality, Cardinality
<1>4. Rules!SetToSeq(S) = CHOOSE f \in [D -> S] : Rules!IsInjective(f)
  BY <1>3 DEF Rules!SetToSeq
<1> HIDE DEF D
<1>5. Rules!SetToSeq(S) \in [D -> S] /\ Rules!IsInjective(Rules!SetToSeq(S))
  BY <1>2, <1>4, Zenon
<1> QED BY <1>5 DEF Rules!IsInjective

\* The installation of the defaults does: they come where no row has their identity.
LEMMA StepInstall ==
  ASSUME Rules!Assumption, PolicyInv, Rules!InstallDefaults
  PROVE  PolicyInv'
<1> DEFINE new == Rules!SetToSeq(Rules!Missing)
           ids == Rules!SetToSortSeq(Rules!Free(policies), <)
           Place(n, i) == n \in DOMAIN new /\ ids[n] = i
<1>1. /\ now \in Nat /\ version \in Nat /\ DOMAIN rules = Ids /\ PolicyTyped
      /\ \A b \in blind : b[1].updated = b[2].updated
  BY DEF PolicyInv, PolicyTyped
<1>2. /\ rules' = rules /\ now' = now /\ version' = version + 1 /\ blind' = blind
  BY DEF Rules!InstallDefaults, Rules!Saved
<1>3. policies' = [i \in Ids |->
                     IF \E n \in DOMAIN new : ids[n] = i
                     THEN Installed(new[CHOOSE n \in DOMAIN new : ids[n] = i], i)
                     ELSE policies[i]]
  BY DEF Rules!InstallDefaults, Installed
<1>4. /\ \A n \in DOMAIN new : new[n] \in Rules!Missing
      /\ \A n, m \in DOMAIN new : n # m => new[n] # new[m]
  <2>1. IsFiniteSet(Defaults)
    BY DEF Rules!Assumption, Rules!IsFiniteSet, IsFiniteSet
  <2>2. IsFiniteSet(Rules!Missing)
    <3>1. Rules!Missing \subseteq Defaults
      BY DEF Rules!Missing
    <3> QED BY <2>1, <3>1, FS_Subset
  <2> QED BY <2>2, Enumerated
<1>5. \A d \in Rules!Missing : /\ d \in Defaults
                               /\ \A r \in Rules!Rows(policies) : Rules!Identity(r) # Rules!Identity(d)
  BY Zenon DEF Rules!Missing
<1> HIDE DEF new, ids
<1>6. ASSUME NEW i \in Ids
      PROVE  \/ policies'[i] = policies[i]
             \/ \E n \in DOMAIN new : ids[n] = i /\ policies'[i] = Installed(new[n], i)
  <2>1. CASE \E n \in DOMAIN new : ids[n] = i
    <3> DEFINE n == CHOOSE n \in DOMAIN new : ids[n] = i
    <3>1. n \in DOMAIN new /\ ids[n] = i
      BY <2>1
    <3>2. policies'[i] = Installed(new[n], i)
      BY <1>3, <2>1
    <3> QED BY <3>1, <3>2
  <2>2. CASE ~ \E n \in DOMAIN new : ids[n] = i
    BY <1>3, <2>2
  <2> QED BY <2>1, <2>2
<1>7. ASSUME NEW n \in DOMAIN new, NEW i
      PROVE  /\ PolicySound(Installed(new[n], i), i, now, version + 1)
             /\ Rules!Identity(Installed(new[n], i)) = Rules!Identity(new[n])
  BY <1>1, <1>4, <1>5, PolicyRowFacts
<1>8. version + 1 \in Nat /\ version <= version + 1 /\ now <= now
  BY <1>1
<1>9. ASSUME NEW i \in Ids, policies'[i] # Nothing
      PROVE  PolicySound(policies'[i], i, now', version')
  <2>1. CASE policies'[i] = policies[i]
    <3>1. PolicySound(policies[i], i, now, version)
      BY <1>1, <1>9, <2>1 DEF PolicyTyped
    <3>2. PolicySound(policies[i], i, now, version + 1)
      BY <1>1, <1>8, <3>1, RowLasts
    <3> QED BY <1>2, <2>1, <3>2
  <2>2. CASE \E n \in DOMAIN new : ids[n] = i /\ policies'[i] = Installed(new[n], i)
    BY <1>2, <1>7, <2>2
  <2> QED BY <1>6, <2>1, <2>2
<1>10. ASSUME NEW i \in Ids, rules'[i] # Nothing PROVE RouteSound(rules'[i], i, now', version')
  <2>1. rules'[i] = rules[i] /\ RouteSound(rules[i], i, now, version)
    BY <1>1, <1>2, <1>10 DEF PolicyTyped
  <2>2. RouteSound(rules[i], i, now, version + 1)
    BY <1>1, <1>8, <2>1, RowLasts
  <2> QED BY <1>2, <2>1, <2>2
<1>11. PolicyTyped'
  <2>1. now' \in Nat /\ version' \in Nat /\ DOMAIN policies' = Ids /\ DOMAIN rules' = Ids
    BY <1>1, <1>2, <1>3, <1>8
  <2> QED BY <2>1, <1>9, <1>10 DEF PolicyTyped
<1>12. ASSUME NEW i \in Ids, policies[i] # Nothing PROVE policies[i] \in Rules!Rows(policies)
  BY <1>12 DEF Rules!Rows
<1>13. Rules!DefaultsOnce'
  <2> SUFFICES ASSUME NEW i \in Ids, NEW j \in Ids, i # j,
                      policies'[i] # Nothing, policies'[j] # Nothing, policies'[i].installed,
                      Rules!Identity(policies'[i]) = Rules!Identity(policies'[j])
               PROVE  ~policies'[j].installed /\ policies'[j].version > policies'[i].version
    BY Zenon DEF Rules!DefaultsOnce
  <2>1. CASE policies'[i] = policies[i] /\ policies'[j] = policies[j]
    BY <2>1 DEF PolicyInv, Rules!DefaultsOnce
  <2>2. ASSUME NEW k \in Ids, NEW n \in DOMAIN new, policies[k] # Nothing
        PROVE  Rules!Identity(policies[k]) # Rules!Identity(new[n])
    BY <1>4, <1>5, <1>12, <2>2
  <2>3. CASE policies'[i] = policies[i] /\ policies'[j] # policies[j]
    <3>1. PICK n \in DOMAIN new : policies'[j] = Installed(new[n], j)
      BY <1>6, <2>3
    <3>2. Rules!Identity(policies'[j]) = Rules!Identity(new[n])
      BY <1>7, <3>1
    <3> QED BY <2>2, <2>3, <3>2
  <2>4. CASE policies'[i] # policies[i] /\ policies'[j] = policies[j]
    <3>1. PICK n \in DOMAIN new : policies'[i] = Installed(new[n], i)
      BY <1>6, <2>4
    <3>2. Rules!Identity(policies'[i]) = Rules!Identity(new[n])
      BY <1>7, <3>1
    <3> QED BY <2>2, <2>4, <3>2
  <2>5. CASE policies'[i] # policies[i] /\ policies'[j] # policies[j]
    <3>1. PICK n \in DOMAIN new : ids[n] = i /\ policies'[i] = Installed(new[n], i)
      BY <1>6, <2>5
    <3>2. PICK m \in DOMAIN new : ids[m] = j /\ policies'[j] = Installed(new[m], j)
      BY <1>6, <2>5
    <3>3. Rules!Identity(new[n]) = Rules!Identity(new[m])
      BY <1>7, <3>1, <3>2
    <3>4. new[n] \in Defaults /\ new[m] \in Defaults /\ new[n] # new[m]
      BY <1>4, <1>5, <3>1, <3>2
    <3> QED BY <3>3, <3>4 DEF Rules!Assumption
  <2> QED BY <2>1, <2>3, <2>4, <2>5
<1> QED BY <1>1, <1>2, <1>11, <1>13 DEF PolicyInv

\* A list and a tick do.
LEMMA StepAside ==
  ASSUME Rules!Assumption, PolicyInv, \/ \E c \in Clients : Rules!List(c)
                                      \/ Rules!Tick
                                      \/ UNCHANGED Rules!vars
  PROVE  PolicyInv'
<1>1. now \in Nat /\ version \in Nat /\ DOMAIN policies = Ids /\ DOMAIN rules = Ids
  BY DEF PolicyInv, PolicyTyped
<1>2. /\ policies' = policies /\ rules' = rules /\ version' = version /\ blind' = blind
      /\ now' \in {now, now + 1}
  BY DEF Rules!List, Rules!Tick, Rules!vars
<1>3. now' \in Nat /\ now <= now' /\ version <= version
  BY <1>1, <1>2
<1>4. ASSUME NEW i \in Ids, policies[i] # Nothing PROVE PolicySound(policies[i], i, now', version)
  <2>1. PolicySound(policies[i], i, now, version)
    BY <1>4 DEF PolicyInv, PolicyTyped
  <2> QED BY <1>1, <1>3, <2>1, RowLasts
<1>5. ASSUME NEW i \in Ids, rules[i] # Nothing PROVE RouteSound(rules[i], i, now', version)
  <2>1. RouteSound(rules[i], i, now, version)
    BY <1>5 DEF PolicyInv, PolicyTyped
  <2> QED BY <1>1, <1>3, <2>1, RowLasts
<1>6. PolicyTyped'
  BY <1>1, <1>2, <1>3, <1>4, <1>5 DEF PolicyTyped
<1>7. Rules!DefaultsOnce'
  BY <1>2 DEF PolicyInv, Rules!DefaultsOnce
<1>8. \A b \in blind' : b[1].updated = b[2].updated
  BY <1>2 DEF PolicyInv
<1> QED BY <1>6, <1>7, <1>8 DEF PolicyInv

\* What the invariant says of requests, lists and rows.
LEMMA PolicyMeans ==
  ASSUME Rules!Assumption, PolicyInv
  PROVE  Rules!PoliciesSound
<1>1. PolicyTyped
  BY DEF PolicyInv
<1>2. Rules!TypeOK
  BY DEF PolicyInv, PolicyTyped, PolicySound, RouteSound, RowSound, Rules!TypeOK
<1>3. Rules!NothingUnseenReplaced
  BY DEF PolicyInv, Rules!NothingUnseenReplaced
<1>4. Rules!DefaultsOnce
  BY DEF PolicyInv
<1> QED BY <1>1, <1>2, <1>3, <1>4, DenialHolds, RuleHolds, PreviewsHold, PatternsHold, Zenon
         DEF Rules!PoliciesSound

\* In every state reached, whatever the numbers of administrators, rows, forms and
\* paths: a save replaces the version its author saw, or one of the same millisecond;
\* a default is never installed beside a row of its identity; a request is refused
\* just when an enabled policy for it denies it; one rule is first, by priority and
\* transport; the previews tell what the gateway does; and an exact pattern matches
\* just the paths it is for (UpsertPolicy, UpsertRouteRule, InstallDefaultPolicies,
\* FirstMatch, selectRule, MatchPath).
THEOREM PoliciesStaySound ==
  ASSUME Rules!Assumption
  PROVE  Rules!Spec => []Rules!PoliciesSound
<1>1. Rules!Init => PolicyInv
  BY DEF Rules!Init, Rules!EmptyTable, PolicyInv, PolicyTyped, Rules!DefaultsOnce
<1>2. PolicyInv /\ [Rules!Next]_(Rules!vars) => PolicyInv'
  <2> SUFFICES ASSUME PolicyInv, [Rules!Next]_(Rules!vars) PROVE PolicyInv'
    OBVIOUS
  <2> QED BY StepPolicy, StepRule, StepInstall, StepAside, Zenon DEF Rules!Next
<1>3. PolicyInv => Rules!PoliciesSound
  BY PolicyMeans
<1> QED BY <1>1, <1>2, <1>3, PTL DEF Rules!Spec
=============================================================================
