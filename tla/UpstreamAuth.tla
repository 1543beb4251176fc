----------------------------- MODULE UpstreamAuth -----------------------------
(***************************************************************************)
(* The gateway's shared login at the upstream server.                      *)
(*                                                                         *)
(* internal/gateway/upstream_auth.go: client requests ask for the stored   *)
(* login (Ensure) and report a rejected one (Refresh, after the probe of   *)
(* refreshAfterUnauthorized in server.go).  One flight at a time logs in   *)
(* anew, swaps the stored login under compare-and-swap and logs the old    *)
(* one out.  internal/controlplane/upstream_create.go: an operator replaces*)
(* the login through the same store row.  Requests are abandoned, loads,   *)
(* swaps, logins and logouts fail, and the upstream revokes tokens.        *)
(*                                                                         *)
(* A login has a token, a generation id and a device id, all renewed       *)
(* together: one number stands for the three; None is a source that never  *)
(* logged in (empty generation).  Steps are separated at every call of the *)
(* store or of the upstream.                                               *)
(***************************************************************************)
EXTENDS Integers, FiniteSets

CONSTANTS
  Callers,         \* client requests being proxied
  MaxLogins,       \* model bound: logins the upstream grants
  MaxRevocations,  \* model bound: tokens the upstream revokes by itself
  MaxReconfigs,    \* model bound: reconfigurations by the operator
  Nobody           \* no leader

ASSUME UpstreamAuthAssumption ==
  /\ {MaxLogins, MaxRevocations, MaxReconfigs} \subseteq Nat
  /\ MaxLogins > 0 /\ Nobody \notin Callers

None == 0
Logins == 1..MaxLogins

VARIABLES
  stored,       \* the login in the upstream_sources row
  issued,       \* how many logins the upstream granted
  live,         \* the tokens the upstream accepts
  revocations, reconfigs,   \* the bounded counters
  caller,       \* caller[c]: the request's progress
  flight,       \* the singleflight call, "none" when there is none
  mail,         \* mail[c]: what DoChan's channel holds for c
  operator,     \* ReconfigureUpstream
  loggedOut,    \* ghost: tokens the gateway or the operator logged out
  rejected,     \* ghost: tokens a probe saw rejected
  sinceStart,   \* ghost: sinceStart[c]: logins stored since c's run began, as long
                \* as c uses it and the operator keeps out
  abandoned     \* ghost: tokens a fault kept from being logged out

vars == <<stored, issued, live, revocations, reconfigs, caller, flight, mail,
          operator, loggedOut, rejected, sinceStart, abandoned>>

upstream == <<issued, live, revocations>>
ghosts == <<loggedOut, rejected, abandoned>>

NoMail == [kind |-> "none", login |-> None]
NoFlight == [pc |-> "none", leader |-> Nobody, failed |-> None, base |-> None,
             login |-> None, victim |-> None, result |-> NoMail]

Init ==
  /\ stored \in {None, 1}
  /\ issued = stored
  /\ live = IF stored = None THEN {} ELSE {stored}
  /\ revocations = 0 /\ reconfigs = 0
  /\ caller \in [Callers -> {[pc |-> "idle", token |-> None, failed |-> None,
                              probing |-> None, retried |-> FALSE, left |-> FALSE,
                              other |-> o] : o \in BOOLEAN}]
  /\ flight = NoFlight
  /\ mail = [c \in Callers |-> NoMail]
  /\ operator = [pc |-> "idle", base |-> None, login |-> None, victim |-> None]
  /\ loggedOut = {} /\ rejected = {} /\ abandoned = {}
  /\ sinceStart = [c \in Callers |-> {}]

-----------------------------------------------------------------------------
(* The store and the upstream *)

\* A write to the row is seen by every run in progress.
Store(l) ==
  /\ stored' = l
  /\ sinceStart' = [c \in Callers |->
       IF reconfigs = 0 /\ caller[c].pc \in {"load", "join", "wait"}
         THEN sinceStart[c] \cup {l} ELSE sinceStart[c]]

KeepStored == UNCHANGED <<stored, sinceStart>>

\* /Users/AuthenticateByName grants a new token.
Grant == /\ issued < MaxLogins
         /\ issued' = issued + 1
         /\ live' = live \cup {issued'}

\* Nobody will log the tokens ts out any more.
Forsake(ts) == abandoned' = abandoned \cup (ts \ {None})

\* /Sessions/Logout, a best effort: the request may be lost.
Logout(t) ==
  \/ live' = live \ {t} /\ loggedOut' = loggedOut \cup {t} /\ UNCHANGED abandoned
  \/ Forsake({t}) /\ UNCHANGED <<live, loggedOut>>

Revoke ==
  /\ revocations < MaxRevocations
  /\ \E t \in live : live' = live \ {t}
  /\ revocations' = revocations + 1
  /\ UNCHANGED <<stored, issued, reconfigs, caller, flight, mail, operator, ghosts,
                 sinceStart>>

-----------------------------------------------------------------------------
(* Requests *)

\* upstreamAuthSatisfied; failed = None stands for refresh = false
Satisfied(l, failed) == l # None /\ l # failed

Alive(c) == ~caller[c].left

Goto(c, pc) == caller' = [caller EXCEPT ![c].pc = pc]

\* The request is over, with an answer for its client or without.
End(c, pc) ==
  /\ caller' = [caller EXCEPT ![c].pc = pc, ![c].token = None, ![c].failed = None,
                              ![c].probing = None, ![c].retried = FALSE]
  /\ sinceStart' = [sinceStart EXCEPT ![c] = {}]

\* run begins, for Ensure (failed = None) or Refresh.
Begin(c, failed) ==
  /\ caller' = [caller EXCEPT ![c].pc = "load", ![c].failed = failed,
                              ![c].retried = FALSE]
  /\ sinceStart' = [sinceStart EXCEPT ![c] = IF reconfigs = 0 THEN {stored} ELSE {}]

Ensure(c) ==
  /\ caller[c].pc = "idle"
  /\ Begin(c, None)
  /\ UNCHANGED <<stored, upstream, reconfigs, flight, mail, operator, ghosts>>

\* run returns the login l: Ensure's is used, Refresh's is for the retry.
Succeed(c, l) ==
  caller' = [caller EXCEPT ![c].token = l,
    ![c].pc = IF caller[c].failed = None THEN "use" ELSE "refreshed"]

\* The store load at the top of run.
Load(c) ==
  /\ caller[c].pc = "load" /\ Alive(c)
  /\ \/ Satisfied(stored, caller[c].failed) /\ Succeed(c, stored) /\ UNCHANGED sinceStart
     \/ ~Satisfied(stored, caller[c].failed) /\ Goto(c, "join") /\ UNCHANGED sinceStart
     \/ End(c, "failed")                                   \* the load fails
  /\ UNCHANGED <<stored, upstream, reconfigs, flight, mail, operator, ghosts>>

\* flights.DoChan: lead a new flight or join the one in the air.
Join(c) ==
  /\ caller[c].pc = "join"
  /\ flight' = IF flight.pc = "none"
       THEN [NoFlight EXCEPT !.pc = "load", !.leader = c, !.failed = caller[c].failed]
       ELSE flight
  /\ Goto(c, "wait")
  /\ UNCHANGED <<stored, upstream, reconfigs, mail, operator, ghosts, sinceStart>>

\* The request's context ends, in run or elsewhere.
Leave(c) ==
  /\ caller[c].pc \in {"load", "join", "wait"} /\ Alive(c)
  /\ caller' = [caller EXCEPT ![c].left = TRUE]
  /\ UNCHANGED <<stored, upstream, reconfigs, flight, mail, operator, ghosts, sinceStart>>

\* run notices the end of its context; the flight goes on without it.
Abandon(c) ==
  /\ caller[c].pc \in {"load", "wait"} /\ caller[c].left
  /\ End(c, "failed")
  /\ UNCHANGED <<stored, upstream, reconfigs, flight, mail, operator, ghosts>>

\* The shared result arrives.  One retry is allowed: after a flight whose leader
\* left, or one that was led for another purpose.
Receive_Faulty(c) ==
  /\ caller[c].pc = "wait" /\ mail[c].kind # "none"
  /\ mail' = [mail EXCEPT ![c] = NoMail]
  /\ IF mail[c].kind = "ok" THEN Succeed(c, mail[c].login) /\ UNCHANGED sinceStart
     ELSE IF mail[c].kind = "error" \/ caller[c].left \/ caller[c].retried
       THEN End(c, "failed")
     ELSE /\ caller' = [caller EXCEPT ![c].pc = "load", ![c].retried = TRUE]
          /\ UNCHANGED sinceStart
  /\ UNCHANGED <<stored, upstream, reconfigs, flight, operator, ghosts>>

Receive(c) ==
  /\ caller[c].pc = "wait" /\ mail[c].kind # "none"
  /\ mail' = [mail EXCEPT ![c] = NoMail]
  /\ IF mail[c].kind = "ok" /\ Satisfied(mail[c].login, caller[c].failed)
       THEN Succeed(c, mail[c].login) /\ UNCHANGED sinceStart
     ELSE IF mail[c].kind = "error" \/ caller[c].left \/ caller[c].retried
       THEN End(c, "failed")
     ELSE /\ caller' = [caller EXCEPT ![c].pc = "load", ![c].retried = TRUE]
          /\ UNCHANGED sinceStart
  /\ UNCHANGED <<stored, upstream, reconfigs, flight, operator, ghosts>>

\* The proxied request goes through, or is answered 401: its login is dead, or
\* the route or the endpoint refuses it.  An upgrade is probed beforehand.
Use(c) ==
  /\ caller[c].pc = "use"
  /\ \/ caller[c].token \in live /\ End(c, "done")
     \/ Goto(c, "confirm") /\ sinceStart' = [sinceStart EXCEPT ![c] = {}]
  /\ UNCHANGED <<stored, upstream, reconfigs, flight, mail, operator, ghosts>>

\* refreshAfterUnauthorized loads the runtime: a request of another endpoint has
\* the default endpoint probed, with the login found there.
Confirm(c) ==
  /\ caller[c].pc = "confirm"
  /\ \/ /\ caller' = [caller EXCEPT ![c].pc = "probe",
             ![c].probing = IF caller[c].other THEN stored ELSE caller[c].token]
        /\ UNCHANGED sinceStart
     \/ End(c, "done")                                     \* the load fails
  /\ UNCHANGED <<stored, upstream, reconfigs, flight, mail, operator, ghosts>>

\* upstreamSnapshotUnauthorized: a 401 of the probe starts a refresh.
Expired_Faulty(c) ==
  /\ caller[c].pc = "probe"
  /\ Begin(c, caller[c].token)
  /\ rejected' = IF caller[c].probing \in live THEN rejected
                  ELSE rejected \cup {caller[c].probing}
  /\ UNCHANGED <<stored, upstream, reconfigs, flight, mail, operator, loggedOut,
                 abandoned>>

Expired(c) ==
  /\ caller[c].pc = "probe" /\ caller[c].probing \notin live
  /\ Begin(c, caller[c].token)
  /\ rejected' = rejected \cup {caller[c].probing}
  /\ UNCHANGED <<stored, upstream, reconfigs, flight, mail, operator, loggedOut,
                 abandoned>>

\* The probe finds the login healthy: the client gets the response it had.
Healthy(c) ==
  /\ caller[c].pc = "probe" /\ caller[c].probing \in live
  /\ End(c, "done")
  /\ UNCHANGED <<stored, upstream, reconfigs, flight, mail, operator, ghosts>>

\* The probe gets no answer, or one that says nothing.
NoAnswer(c) ==
  /\ caller[c].pc = "probe"
  /\ End(c, "done")
  /\ UNCHANGED <<stored, upstream, reconfigs, flight, mail, operator, ghosts>>

-----------------------------------------------------------------------------
(* The flight: lead *)

LeaderLeft == caller[flight.leader].left

Fly(pc) == flight' = [flight EXCEPT !.pc = pc]

\* lead is about to return: a login, a plain error, or an error that leaderError
\* turns into the cancellation marker when the leader has left.
Land(kind, l) ==
  flight' = [flight EXCEPT !.pc = "return", !.result = [kind |-> kind, login |-> l]]

\* Log the token t out, if the store can be read and does not hold it, and then
\* return: cleanupInvocation and retireOld begin with that load.
Retire(t, kind, l) ==
  flight' = [flight EXCEPT !.pc = "retire", !.victim = t,
                           !.result = [kind |-> kind, login |-> l]]

FlightLoad ==
  /\ flight.pc = "load"
  /\ \/ /\ ~LeaderLeft
        /\ IF Satisfied(stored, flight.failed) THEN Land("ok", stored)
           ELSE flight' = [flight EXCEPT !.pc = "login", !.base = stored]
     \/ Land("leader", None)
  /\ UNCHANGED <<stored, upstream, reconfigs, caller, mail, operator, ghosts, sinceStart>>

\* The login succeeds; or its answer carries a token but is refused; or the
\* answer is lost and the new token is known to nobody.
FlightLogin ==
  /\ flight.pc = "login" /\ Grant
  /\ \/ /\ ~LeaderLeft
        /\ flight' = [flight EXCEPT !.pc = "check", !.login = issued']
        /\ UNCHANGED abandoned
     \/ Retire(issued', "leader", None) /\ UNCHANGED abandoned
     \/ Land("leader", None) /\ Forsake({issued'})
  /\ UNCHANGED <<stored, revocations, reconfigs, caller, mail, operator, loggedOut,
                 rejected, sinceStart>>

\* No login: the upstream refuses or cannot be reached; or identifiers run out,
\* or the upstream answers with the old token, which are plain errors.
FlightLoginFails ==
  /\ flight.pc = "login"
  /\ Land("leader", None) \/ Land("error", None)
  /\ UNCHANGED <<stored, upstream, reconfigs, caller, mail, operator, ghosts, sinceStart>>

FlightCheck_Faulty ==
  /\ flight.pc = "check"
  /\ IF LeaderLeft THEN Land("leader", None) ELSE Fly("swap")
  /\ UNCHANGED <<stored, upstream, reconfigs, caller, mail, operator, ghosts, sinceStart>>

FlightCheck ==
  /\ flight.pc = "check"
  /\ IF LeaderLeft THEN Retire(flight.login, "leader", None) ELSE Fly("swap")
  /\ UNCHANGED <<stored, upstream, reconfigs, caller, mail, operator, ghosts, sinceStart>>

Unsure(kind) == flight' = [flight EXCEPT !.pc = "reload", !.result.kind = kind]

\* CompareAndSwapUpstreamAuth applies the update when the row still holds the
\* generation the flight began with; its commit may be reported as failed, and
\* then the replaced login is never retired.
FlightSwap ==
  /\ flight.pc = "swap"
  /\ \/ /\ ~LeaderLeft /\ stored = flight.base
        /\ Store(flight.login)
        /\ \/ Fly("confirm") /\ UNCHANGED abandoned
           \/ Unsure("leader") /\ Forsake({flight.base})
     \/ /\ ~LeaderLeft /\ stored # flight.base
        /\ Unsure("conflict") /\ KeepStored /\ UNCHANGED abandoned
     \/ Unsure("leader") /\ KeepStored /\ UNCHANGED abandoned
  /\ UNCHANGED <<upstream, reconfigs, caller, mail, operator, loggedOut, rejected>>

\* After an error of the swap, the reload decides who owns the new login.
FlightReload_Faulty ==
  /\ flight.pc = "reload"
  /\ flight' = [flight EXCEPT !.pc = "logout", !.victim = flight.login,
       !.result = IF flight.result.kind = "conflict"
                  THEN [kind |-> "ok", login |-> stored] ELSE flight.result]
  /\ UNCHANGED <<stored, upstream, reconfigs, caller, mail, operator, ghosts, sinceStart>>

FlightReload ==
  /\ flight.pc = "reload"
  /\ \/ stored = flight.login /\ Land("ok", stored) /\ UNCHANGED abandoned
     \/ /\ stored # flight.login
        /\ flight' = [flight EXCEPT !.pc = "logout", !.victim = flight.login,
             !.result = IF flight.result.kind = "conflict"
                        THEN [kind |-> "ok", login |-> stored] ELSE flight.result]
        /\ UNCHANGED abandoned
     \/ Land("leader", None) /\ Forsake({flight.login} \ {stored})   \* the load fails
  /\ UNCHANGED <<stored, upstream, reconfigs, caller, mail, operator, loggedOut,
                 rejected, sinceStart>>

\* After the swap, the load decides which login is authoritative.
FlightConfirm ==
  /\ flight.pc = "confirm"
  /\ \/ /\ ~LeaderLeft /\ stored = flight.login
        /\ IF flight.base = None THEN Land("ok", stored)
           ELSE Retire(flight.base, "ok", stored)
        /\ UNCHANGED abandoned
     \/ /\ ~LeaderLeft /\ stored # flight.login
        /\ Land("ok", stored) /\ Forsake({flight.base})
     \/ Land("leader", None) /\ Forsake({flight.base})
  /\ UNCHANGED <<stored, upstream, reconfigs, caller, mail, operator, loggedOut,
                 rejected, sinceStart>>

FlightRetire ==
  /\ flight.pc = "retire"
  /\ \/ Fly(IF stored = flight.victim THEN "return" ELSE "logout") /\ UNCHANGED abandoned
     \/ Fly("return") /\ Forsake({flight.victim} \ {stored})   \* the load fails
  /\ UNCHANGED <<stored, upstream, reconfigs, caller, mail, operator, loggedOut,
                 rejected, sinceStart>>

FlightLogout ==
  /\ flight.pc = "logout"
  /\ Logout(flight.victim)
  /\ Fly("return")
  /\ UNCHANGED <<stored, issued, revocations, reconfigs, caller, mail, operator,
                 rejected, sinceStart>>

\* The shared result as leaderError leaves it.
Outcome ==
  IF flight.result.kind # "leader" THEN flight.result
  ELSE [NoMail EXCEPT !.kind = IF LeaderLeft THEN "canceled" ELSE "error"]

\* singleflight forgets the call and sends the result to all who joined it.
FlightReturn_Faulty ==
  /\ flight.pc = "return"
  /\ mail' = [mail EXCEPT ![flight.leader] = Outcome]
  /\ flight' = NoFlight
  /\ UNCHANGED <<stored, upstream, reconfigs, caller, operator, ghosts, sinceStart>>

FlightReturn ==
  /\ flight.pc = "return"
  /\ mail' = [c \in Callers |-> IF caller[c].pc = "wait" /\ mail[c] = NoMail
                                THEN Outcome ELSE mail[c]]
  /\ flight' = NoFlight
  /\ UNCHANGED <<stored, upstream, reconfigs, caller, operator, ghosts, sinceStart>>

Flight == FlightLoad \/ FlightLogin \/ FlightLoginFails \/ FlightCheck \/ FlightSwap
          \/ FlightReload \/ FlightConfirm \/ FlightRetire \/ FlightLogout
          \/ FlightReturn

-----------------------------------------------------------------------------
(* The operator: ReconfigureUpstream *)

Operate(pc) == operator' = [operator EXCEPT !.pc = pc]

NoOperation == [pc |-> "idle", base |-> None, login |-> None, victim |-> None]

\* The configuration is read, with its fingerprint.
OperatorLoad ==
  /\ operator.pc = "idle" /\ reconfigs < MaxReconfigs
  /\ reconfigs' = reconfigs + 1
  /\ operator' = [NoOperation EXCEPT !.pc = "probe", !.base = stored]
  /\ sinceStart' = [c \in Callers |-> {}]
  /\ UNCHANGED <<stored, upstream, caller, flight, mail, ghosts>>

\* The probe logs in; its answer may be refused, or lost.
OperatorProbe ==
  /\ operator.pc = "probe" /\ Grant
  /\ \/ /\ \E pc \in {"commit", "cleanup"} :
             operator' = [operator EXCEPT !.pc = pc, !.login = issued']
        /\ UNCHANGED abandoned
     \/ operator' = NoOperation /\ Forsake({issued'})
  /\ UNCHANGED <<stored, revocations, reconfigs, caller, flight, mail, loggedOut,
                 rejected, sinceStart>>

OperatorProbeFails ==
  /\ operator.pc = "probe"
  /\ operator' = NoOperation
  /\ UNCHANGED <<stored, upstream, reconfigs, caller, flight, mail, ghosts, sinceStart>>

\* The transaction saves the new login if nothing changed since the read; it may
\* fail, and its commit may be reported as failed.
OperatorCommit_Faulty ==
  /\ operator.pc = "commit"
  /\ \/ /\ Store(operator.login)
        /\ \/ Operate("retire") /\ UNCHANGED abandoned
           \/ Operate("cleanup") /\ Forsake({operator.base})
     \/ Operate("cleanup") /\ KeepStored /\ UNCHANGED abandoned
  /\ UNCHANGED <<upstream, reconfigs, caller, flight, mail, loggedOut, rejected>>

OperatorCommit ==
  /\ operator.pc = "commit"
  /\ \/ /\ stored = operator.base
        /\ Store(operator.login)
        /\ \/ Operate("retire") /\ UNCHANGED abandoned
           \/ Operate("cleanup") /\ Forsake({operator.base})
     \/ Operate("cleanup") /\ KeepStored /\ UNCHANGED abandoned
  /\ UNCHANGED <<upstream, reconfigs, caller, flight, mail, loggedOut, rejected>>

\* cleanupInvocationToken: the new login is logged out unless it is the stored one.
OperatorCleanup ==
  /\ operator.pc = "cleanup"
  /\ \/ /\ operator' = IF stored = operator.login THEN NoOperation
                        ELSE [operator EXCEPT !.pc = "logout", !.victim = operator.login]
        /\ UNCHANGED abandoned
     \/ operator' = NoOperation /\ Forsake({operator.login} \ {stored})   \* unreadable
  /\ UNCHANGED <<stored, upstream, reconfigs, caller, flight, mail, loggedOut,
                 rejected, sinceStart>>

\* After the commit the replaced login is logged out unless it is the stored one.
OperatorRetire ==
  /\ operator.pc = "retire"
  /\ \/ /\ operator' = IF operator.base \in {None, stored} THEN NoOperation
                        ELSE [operator EXCEPT !.pc = "logout", !.victim = operator.base]
        /\ UNCHANGED abandoned
     \/ operator' = NoOperation /\ Forsake({operator.base} \ {stored})
  /\ UNCHANGED <<stored, upstream, reconfigs, caller, flight, mail, loggedOut,
                 rejected, sinceStart>>

OperatorLogout ==
  /\ operator.pc = "logout"
  /\ Logout(operator.victim)
  /\ operator' = NoOperation
  /\ UNCHANGED <<stored, issued, revocations, reconfigs, caller, flight, mail,
                 rejected, sinceStart>>

Operator == OperatorLoad \/ OperatorProbe \/ OperatorProbeFails \/ OperatorCommit
            \/ OperatorCleanup \/ OperatorRetire \/ OperatorLogout

-----------------------------------------------------------------------------
Request(c) == Ensure(c) \/ Load(c) \/ Join(c) \/ Leave(c) \/ Abandon(c) \/ Receive(c)
              \/ Use(c) \/ Confirm(c) \/ Expired(c) \/ Healthy(c) \/ NoAnswer(c)

Next == Revoke \/ Flight \/ Operator \/ \E c \in Callers : Request(c)

Spec == Init /\ [][Next]_vars

-----------------------------------------------------------------------------
(* Properties *)

Kinds == {"none", "ok", "error", "canceled", "leader", "conflict"}
Tokens == Logins \cup {None}

\* Every part of the state keeps its type, and no login is stored or sent that
\* the upstream never granted.
TypeOK ==
  /\ {stored} \cup live \cup loggedOut \cup rejected \cup abandoned \subseteq 0..issued
  /\ issued \in Tokens /\ revocations \in 0..MaxRevocations /\ reconfigs \in 0..MaxReconfigs
  /\ caller \in [Callers -> [pc : {"idle", "load", "join", "wait", "use", "refreshed", "failed",
                                   "confirm", "probe", "done"},
                             token : 0..issued, failed : 0..issued, probing : 0..issued,
                             retried : BOOLEAN, left : BOOLEAN, other : BOOLEAN]]
  /\ flight \in [pc : {"none", "load", "login", "check", "swap", "reload", "confirm", "retire",
                       "logout", "return"},
                 leader : Callers \cup {Nobody}, failed : 0..issued, base : 0..issued,
                 login : 0..issued, victim : 0..issued, result : [kind : Kinds, login : 0..issued]]
  /\ mail \in [Callers -> [kind : Kinds \ {"leader", "conflict"}, login : 0..issued]]
  /\ operator \in [pc : {"idle", "probe", "commit", "cleanup", "retire", "logout"},
                   base : 0..issued, login : 0..issued, victim : 0..issued]
  /\ sinceStart \in [Callers -> SUBSET (0..issued)]

\* The login in the store was not logged out by the gateway or the operator,
\* whatever swaps, reloads and cleanups of the two run at once or fail half way.
StoredNeverLoggedOut == stored \notin loggedOut

\* A login handed to a request is not the one the request reported as expired,
\* and, while the operator keeps out, it was the stored one since the request
\* asked: a flight that began earlier hands out nothing older.
HandedOutIsFresh ==
  \A c \in Callers : caller[c].pc \in {"use", "refreshed"} =>
    /\ Satisfied(caller[c].token, caller[c].failed)
    /\ reconfigs = 0 => caller[c].token \in sinceStart[c]

\* When all is quiet, every token the upstream still accepts is the stored one
\* or one whose logout a fault prevented: no path of lead and of
\* ReconfigureUpstream forgets a session it opened or replaced.
TokensAccounted ==
  /\ TypeOK
  /\ flight.pc = "none" /\ operator.pc = "idle" =>
       live \subseteq {stored} \cup abandoned

\* A mailbox is filled for one who waits, and a waiting request has a flight to
\* wait for or an answer to read: no answer is lost, none is read by the next run.
AnswerForEveryWait ==
  \A c \in Callers :
    /\ mail[c].kind # "none" => caller[c].pc \in {"wait", "failed"}
    /\ caller[c].pc = "wait" => flight.pc # "none" \/ mail[c].kind # "none"

\* A flight replaces a login only after a probe saw it rejected; a 401 that
\* concerns one endpoint, and the requests that shared the flight, rotate nothing.
ReplacedOnlyIfRejected ==
  [][stored' # stored /\ stored' = flight.login => stored \in rejected \cup {None}]_vars

\* A swap of the flight and a commit of the operator never overwrite a login
\* stored after their own read.
NoLostUpdate ==
  [][stored' # stored =>
       stored = IF stored' = flight.login THEN flight.base ELSE operator.base]_vars

\* So the stored login changes for a reason and on the state it was decided on.
SwapsJustified == ReplacedOnlyIfRejected /\ NoLostUpdate

\* "The authoritative endpoint is healthy with this token" (server.go:891): a
\* probe that keeps the client's 401 saw the request's own login accepted.
HealthyWithThisToken ==
  [][\A c \in Callers : Healthy(c) => caller[c].token \in live]_vars
=============================================================================
