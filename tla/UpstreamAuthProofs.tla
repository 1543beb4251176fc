--------------------------- MODULE UpstreamAuthProofs ---------------------------
(***************************************************************************)
(* What is true of the gateway's login at the upstream for every number of *)
(* requests, logins, revocations and reconfigurations: who may be logged   *)
(* out, what a request is handed, that no session is forgotten, that every *)
(* wait is answered, and that the stored login changes for a reason.       *)
(*                                                                         *)
(* The argument: a login is a candidate from its grant to its one swap or  *)
(* commit; what is settled is no candidate any more, and what is gone is   *)
(* settled and not in the row, for ever.  Only what is gone is logged out, *)
(* and a report of an expired login is of one that was rejected or is gone.*)
(***************************************************************************)
EXTENDS UpstreamAuth, TLAPS

\* The records of the requests, the flight, the mailboxes and the operator, for the
\* logins N.
CallerRec(N) ==
  [pc : {"idle", "load", "join", "wait", "use", "refreshed", "failed", "confirm", "probe", "done"},
   token : N, failed : N, probing : N, retried : BOOLEAN, left : BOOLEAN, other : BOOLEAN]

FlightRec(N) ==
  [pc : {"none", "load", "login", "check", "swap", "reload", "confirm", "retire", "logout",
         "return"},
   leader : Callers \cup {Nobody}, failed : N, base : N, login : N, victim : N,
   result : [kind : Kinds, login : N]]

MailRec(N) == [kind : Kinds \ {"leader", "conflict"}, login : N]

OperatorRec(N) ==
  [pc : {"idle", "probe", "commit", "cleanup", "retire", "logout"}, base : N, login : N, victim : N]

\* The types, for the logins N.
Typed(N) ==
  /\ stored \in N /\ live \in SUBSET N /\ loggedOut \in SUBSET N /\ rejected \in SUBSET N
  /\ abandoned \in SUBSET N
  /\ caller \in [Callers -> CallerRec(N)] /\ flight \in FlightRec(N)
  /\ mail \in [Callers -> MailRec(N)] /\ operator \in OperatorRec(N)
  /\ sinceStart \in [Callers -> SUBSET N]
\* The logins a swap or a commit may still store.
Candidate(l) ==
  \/ flight.pc \in {"check", "swap"} /\ l = flight.login
  \/ operator.pc = "commit" /\ l = operator.login

\* No swap and no commit will store t; and it is not stored either.
Settled(t) == t \in 0..issued /\ ~Candidate(t)
Gone(t) == Settled(t) /\ t # stored

\* The sessions that the flight and the operator still answer for.
InHand ==
  (CASE flight.pc \in {"check", "swap", "reload"} -> {flight.login}
     [] flight.pc = "confirm" -> {flight.base}
     [] flight.pc \in {"retire", "logout"} -> {flight.victim}
     [] OTHER -> {})
  \cup
  (CASE operator.pc \in {"commit", "cleanup"} -> {operator.login}
     [] operator.pc = "retire" -> {operator.base}
     [] operator.pc = "logout" -> {operator.victim}
     [] OTHER -> {})

\* A login is new, and its own: no other one will take its place in the row.
NewLogins ==
  /\ Settled(stored)
  /\ flight.pc \in {"check", "swap", "reload", "confirm"} => flight.login # None
  /\ operator.pc \in {"commit", "cleanup"} => operator.login # None
  /\ flight.login # None => flight.login # operator.login

\* What is logged out, or may be, never comes back to the row.
LogoutsAreLast ==
  /\ \A t \in loggedOut : Gone(t)
  /\ flight.pc \in {"retire", "logout"} => Gone(flight.victim)
  /\ flight.pc = "confirm" /\ flight.base # None => Gone(flight.base)
  /\ operator.pc = "logout" => Gone(operator.victim)
  /\ operator.pc = "retire" /\ operator.base # None => Gone(operator.base)

\* A session the upstream accepts is the stored one, forsaken, or in somebody's hands.
SessionsInHand == None \notin live /\ live \subseteq {stored} \cup abandoned \cup InHand

\* A report of an expired login is true: it was rejected, or has been replaced since.
Justified(t) == t \in rejected \cup {None} \/ Gone(t)

\* What the flight knows: it replaces a login that was reported, and has a result that
\* its waiters may use.
FlightSound ==
  /\ flight.pc = "load" => Justified(flight.failed)
  /\ flight.pc \in {"login", "check", "swap"} => Justified(flight.base)
  /\ flight.pc = "reload" => flight.result.kind \in {"leader", "conflict"}
  /\ flight.pc \in {"retire", "logout", "return"} =>
       /\ flight.result.kind \in {"ok", "error", "leader"}
       /\ flight.result.kind = "ok" =>
            /\ Settled(flight.result.login)
            /\ reconfigs = 0 => flight.result.login = stored
  /\ reconfigs = 0 => operator.pc = "idle"

\* What a request knows: its reports are true, its login is one that was stored, since
\* it asked if the operator keeps out, and it has an answer or a flight to wait for.
RequestSound(c) ==
  /\ caller[c].pc \in {"load", "join", "wait"} =>
       /\ Justified(caller[c].failed)
       /\ reconfigs = 0 => stored \in sinceStart[c]
  /\ caller[c].pc \in {"use", "confirm", "probe"} => Settled(caller[c].token)
  /\ caller[c].pc = "probe" => caller[c].probing = caller[c].token \/ Gone(caller[c].token)
  /\ caller[c].pc \in {"use", "refreshed"} =>
       /\ Satisfied(caller[c].token, caller[c].failed)
       /\ reconfigs = 0 => caller[c].token \in sinceStart[c]
  /\ caller[c].pc = "wait" => flight.pc # "none" \/ mail[c].kind # "none"
  /\ mail[c].kind = "none" => mail[c] = NoMail
  /\ mail[c].kind # "none" => caller[c].pc \in {"wait", "failed"}
  /\ mail[c].kind = "ok" =>
       /\ Settled(mail[c].login)
       /\ reconfigs = 0 /\ caller[c].pc = "wait" => mail[c].login \in sinceStart[c]

\* The counters and the types.
Rows ==
  /\ issued \in Tokens /\ revocations \in 0..MaxRevocations /\ reconfigs \in 0..MaxReconfigs
  /\ Typed(0..issued)

\* What every step keeps.
IInv ==
  /\ Rows /\ NewLogins /\ LogoutsAreLast /\ SessionsInHand /\ FlightSound
  /\ \A c \in Callers : RequestSound(c)

-----------------------------------------------------------------------------
(* The steps of the flight, field by field *)

\* lead loads the row: its login will do, or a new one is needed, or the load fails.
LEMMA FlightLoads ==
  ASSUME NEW N, None \in N, stored \in N, flight \in FlightRec(N), FlightLoad
  PROVE  /\ flight' \in FlightRec(N) /\ flight'.login = flight.login
         /\ \/ flight'.pc = "return" /\ flight'.result = [kind |-> "ok", login |-> stored]
            \/ /\ flight'.pc = "login" /\ flight'.base = stored
               /\ ~Satisfied(stored, flight.failed)
            \/ flight'.pc = "return" /\ flight'.result = [kind |-> "leader", login |-> None]
<1>1. CASE Land("ok", stored)
  BY <1>1 DEF Land, FlightRec, Kinds
<1>2. CASE Land("leader", None)
  BY <1>2 DEF Land, FlightRec, Kinds
<1>3. CASE /\ flight' = [flight EXCEPT !.pc = "login", !.base = stored]
           /\ ~Satisfied(stored, flight.failed)
  BY <1>3 DEF FlightRec
<1> QED BY <1>1, <1>2, <1>3 DEF FlightLoad

\* The login is granted: it is checked, retired because the answer is refused, or lost.
LEMMA FlightLogins ==
  ASSUME NEW N, None \in N, issued' \in N, flight \in FlightRec(N), FlightLogin
  PROVE  /\ flight' \in FlightRec(N) /\ flight'.base = flight.base
         /\ \/ /\ flight'.pc = "check" /\ flight'.login = issued' /\ UNCHANGED abandoned
            \/ /\ flight'.pc = "retire" /\ flight'.login = flight.login
               /\ flight'.victim = issued' /\ UNCHANGED abandoned
               /\ flight'.result = [kind |-> "leader", login |-> None]
            \/ /\ flight'.pc = "return" /\ flight'.login = flight.login
               /\ flight'.result = [kind |-> "leader", login |-> None]
               /\ abandoned' = abandoned \cup ({issued'} \ {None})
<1>1. CASE flight' = [flight EXCEPT !.pc = "check", !.login = issued'] /\ UNCHANGED abandoned
  BY <1>1 DEF FlightRec
<1>2. CASE Retire(issued', "leader", None) /\ UNCHANGED abandoned
  BY <1>2 DEF Retire, FlightRec, Kinds
<1>3. CASE Land("leader", None) /\ Forsake({issued'})
  BY <1>3 DEF Land, FlightRec, Kinds, Forsake
<1> QED BY <1>1, <1>2, <1>3 DEF FlightLogin

\* No login is granted.
LEMMA FlightLoginsFail ==
  ASSUME NEW N, None \in N, flight \in FlightRec(N), FlightLoginFails
  PROVE  /\ flight' \in FlightRec(N) /\ flight'.login = flight.login
         /\ flight'.pc = "return" /\ flight'.result.kind \in {"leader", "error"}
<1>1. CASE Land("leader", None)
  BY <1>1 DEF Land, FlightRec, Kinds
<1>2. CASE Land("error", None)
  BY <1>2 DEF Land, FlightRec, Kinds
<1> QED BY <1>1, <1>2 DEF FlightLoginFails

\* The leader left, and the new login is retired; or the row is to be swapped.
LEMMA FlightChecks ==
  ASSUME NEW N, None \in N, flight \in FlightRec(N), FlightCheck
  PROVE  /\ flight' \in FlightRec(N) /\ flight'.login = flight.login
         /\ flight'.base = flight.base
         /\ \/ flight'.pc = "swap"
            \/ /\ flight'.pc = "retire" /\ flight'.victim = flight.login
               /\ flight'.result = [kind |-> "leader", login |-> None]
<1>1. CASE Fly("swap")
  BY <1>1 DEF Fly, FlightRec
<1>2. CASE Retire(flight.login, "leader", None)
  BY <1>2 DEF Retire, FlightRec, Kinds
<1> QED BY <1>1, <1>2 DEF FlightCheck

\* The swap applies or not; its outcome is known or not.
LEMMA FlightSwaps ==
  ASSUME NEW N, None \in N, flight \in FlightRec(N), FlightSwap
  PROVE  /\ flight' \in FlightRec(N) /\ flight'.login = flight.login
         /\ flight'.base = flight.base
         /\ \/ /\ stored = flight.base /\ Store(flight.login)
               /\ \/ flight'.pc = "confirm" /\ UNCHANGED abandoned
                  \/ /\ flight'.pc = "reload" /\ flight'.result.kind = "leader"
                     /\ abandoned' = abandoned \cup ({flight.base} \ {None})
            \/ /\ flight'.pc = "reload" /\ flight'.result.kind \in {"conflict", "leader"}
               /\ UNCHANGED <<stored, sinceStart, abandoned>>
<1>1. CASE stored = flight.base /\ Store(flight.login) /\ Fly("confirm") /\ UNCHANGED abandoned
  BY <1>1 DEF Fly, FlightRec
<1>2. CASE /\ stored = flight.base /\ Store(flight.login) /\ Unsure("leader")
           /\ Forsake({flight.base})
  BY <1>2 DEF Unsure, FlightRec, Kinds, Forsake
<1>3. CASE Unsure("conflict") /\ KeepStored /\ UNCHANGED abandoned
  BY <1>3 DEF Unsure, FlightRec, Kinds, KeepStored
<1>4. CASE Unsure("leader") /\ KeepStored /\ UNCHANGED abandoned
  BY <1>4 DEF Unsure, FlightRec, Kinds, KeepStored
<1> QED BY <1>1, <1>2, <1>3, <1>4 DEF FlightSwap

\* The reload finds the new login in the row, or another one, or fails.
LEMMA FlightReloads ==
  ASSUME NEW N, None \in N, stored \in N, flight \in FlightRec(N), FlightReload
  PROVE  /\ flight' \in FlightRec(N) /\ flight'.login = flight.login
         /\ \/ /\ flight'.pc = "return" /\ stored = flight.login /\ UNCHANGED abandoned
               /\ flight'.result = [kind |-> "ok", login |-> stored]
            \/ /\ flight'.pc = "logout" /\ stored # flight.login /\ UNCHANGED abandoned
               /\ flight'.victim = flight.login
               /\ \/ flight'.result = [kind |-> "ok", login |-> stored]
                  \/ flight'.result = flight.result /\ flight.result.kind # "conflict"
            \/ /\ flight'.pc = "return"
               /\ flight'.result = [kind |-> "leader", login |-> None]
               /\ abandoned' = abandoned \cup (({flight.login} \ {stored}) \ {None})
<1>1. CASE stored = flight.login /\ Land("ok", stored) /\ UNCHANGED abandoned
  BY <1>1 DEF Land, FlightRec, Kinds
<1>2. CASE /\ stored # flight.login /\ UNCHANGED abandoned
           /\ flight.result.kind = "conflict"
           /\ flight' = [flight EXCEPT !.pc = "logout", !.victim = flight.login,
                                       !.result = [kind |-> "ok", login |-> stored]]
  BY <1>2 DEF FlightRec, Kinds
<1>3. CASE /\ stored # flight.login /\ UNCHANGED abandoned
           /\ flight.result.kind # "conflict"
           /\ flight' = [flight EXCEPT !.pc = "logout", !.victim = flight.login,
                                       !.result = flight.result]
  BY <1>3 DEF FlightRec, Kinds
<1>4. CASE Land("leader", None) /\ Forsake({flight.login} \ {stored})
  BY <1>4 DEF Land, FlightRec, Kinds, Forsake
<1> QED BY <1>1, <1>2, <1>3, <1>4 DEF FlightReload

\* After the swap: the replaced login is to be retired, there was none, or nobody will.
LEMMA FlightConfirms ==
  ASSUME NEW N, None \in N, stored \in N, flight \in FlightRec(N), FlightConfirm
  PROVE  /\ flight' \in FlightRec(N) /\ flight'.login = flight.login
         /\ \/ /\ flight'.pc = "return" /\ flight.base = None /\ UNCHANGED abandoned
               /\ flight'.result = [kind |-> "ok", login |-> stored]
            \/ /\ flight'.pc = "retire" /\ flight.base # None /\ UNCHANGED abandoned
               /\ flight'.victim = flight.base
               /\ flight'.result = [kind |-> "ok", login |-> stored]
            \/ /\ flight'.pc = "return"
               /\ \/ flight'.result = [kind |-> "ok", login |-> stored]
                  \/ flight'.result = [kind |-> "leader", login |-> None]
               /\ abandoned' = abandoned \cup ({flight.base} \ {None})
<1>1. CASE flight.base = None /\ Land("ok", stored) /\ UNCHANGED abandoned
  BY <1>1 DEF Land, FlightRec, Kinds
<1>2. CASE flight.base # None /\ Retire(flight.base, "ok", stored) /\ UNCHANGED abandoned
  BY <1>2 DEF Retire, FlightRec, Kinds
<1>3. CASE Land("ok", stored) /\ Forsake({flight.base})
  BY <1>3 DEF Land, FlightRec, Kinds, Forsake
<1>4. CASE Land("leader", None) /\ Forsake({flight.base})
  BY <1>4 DEF Land, FlightRec, Kinds, Forsake
<1> QED BY <1>1, <1>2, <1>3, <1>4 DEF FlightConfirm

\* Before a logout the row is read again.
LEMMA FlightRetires ==
  ASSUME NEW N, None \in N, stored \in N, flight \in FlightRec(N), FlightRetire
  PROVE  /\ flight' \in FlightRec(N) /\ flight'.login = flight.login
         /\ flight'.result = flight.result /\ flight'.victim = flight.victim
         /\ \/ flight'.pc = "return" /\ stored = flight.victim /\ UNCHANGED abandoned
            \/ flight'.pc = "logout" /\ UNCHANGED abandoned
            \/ /\ flight'.pc = "return"
               /\ abandoned' = abandoned \cup (({flight.victim} \ {stored}) \ {None})
<1>1. CASE stored = flight.victim /\ Fly("return") /\ UNCHANGED abandoned
  BY <1>1 DEF Fly, FlightRec
<1>2. CASE Fly("logout") /\ UNCHANGED abandoned
  BY <1>2 DEF Fly, FlightRec
<1>3. CASE Fly("return") /\ Forsake({flight.victim} \ {stored})
  BY <1>3 DEF Fly, FlightRec, Forsake
<1> QED BY <1>1, <1>2, <1>3 DEF FlightRetire

\* A logout is sent, or lost.
LEMMA FlightLogsOut ==
  ASSUME NEW N, None \in N, flight \in FlightRec(N), FlightLogout
  PROVE  /\ flight' \in FlightRec(N) /\ flight'.login = flight.login
         /\ flight'.result = flight.result /\ flight'.pc = "return"
BY DEF FlightLogout, Fly, FlightRec

\* The result is sent to all who wait.
LEMMA FlightReturns ==
  ASSUME NEW N, None \in N, flight \in FlightRec(N), mail \in [Callers -> MailRec(N)],
         flight.pc = "return" => flight.result.kind \in {"ok", "error", "leader"}, FlightReturn
  PROVE  /\ flight' \in FlightRec(N) /\ flight'.login = None /\ flight'.pc = "none"
         /\ mail' \in [Callers -> MailRec(N)]
         /\ \A c \in Callers :
              IF caller[c].pc = "wait" /\ mail[c] = NoMail
                THEN /\ mail'[c].kind \in {"ok", "error", "canceled"}
                     /\ mail'[c].kind = "ok" =>
                          mail'[c] = flight.result /\ flight.result.kind = "ok"
                ELSE mail'[c] = mail[c]
<1>1. Outcome \in MailRec(N) /\ Outcome.kind \in {"ok", "error", "canceled"}
      /\ (Outcome.kind = "ok" => Outcome = flight.result /\ flight.result.kind = "ok")
  <2>1. CASE flight.result.kind = "leader"
    BY <2>1 DEF Outcome, NoMail, MailRec, Kinds
  <2>2. CASE flight.result.kind # "leader"
    BY <2>2 DEF Outcome, FlightRec, MailRec, Kinds, FlightReturn
  <2> QED BY <2>1, <2>2
<1>2. NoFlight \in FlightRec(N) /\ NoFlight.login = None /\ NoFlight.pc = "none"
  BY DEF NoFlight, NoMail, FlightRec, Kinds
<1> HIDE DEF Outcome, NoFlight
<1>3. \A c \in Callers : mail'[c] = IF caller[c].pc = "wait" /\ mail[c] = NoMail
                                    THEN Outcome ELSE mail[c]
  BY DEF FlightReturn
<1>4. mail' \in [Callers -> MailRec(N)]
  BY <1>1 DEF FlightReturn
<1>5. flight' = NoFlight
  BY DEF FlightReturn
<1> QED BY <1>1, <1>2, <1>3, <1>4, <1>5

-----------------------------------------------------------------------------
(* The steps of the operator and of a request, field by field *)

\* The operator is done, or has not begun.
LEMMA NoOperationType ==
  ASSUME NEW N, None \in N
  PROVE  NoOperation \in OperatorRec(N) /\ NoOperation.pc = "idle" /\ NoOperation.login = None
BY DEF NoOperation, OperatorRec

\* The configuration is read.
LEMMA OperatorLoads ==
  ASSUME NEW N, None \in N, stored \in N, OperatorLoad
  PROVE  /\ operator' \in OperatorRec(N) /\ operator'.pc = "probe" /\ operator'.login = None
BY DEF OperatorLoad, NoOperation, OperatorRec

\* The probe is granted a login, which is to be committed, cleaned up, or is lost.
LEMMA OperatorProbes ==
  ASSUME NEW N, None \in N, issued' \in N, operator \in OperatorRec(N), OperatorProbe
  PROVE  /\ operator' \in OperatorRec(N)
         /\ \/ /\ operator'.pc \in {"commit", "cleanup"} /\ operator'.login = issued'
               /\ UNCHANGED abandoned
            \/ /\ operator'.pc = "idle" /\ operator'.login = None
               /\ abandoned' = abandoned \cup ({issued'} \ {None})
<1>1. ASSUME NEW pc \in {"commit", "cleanup"},
             operator' = [operator EXCEPT !.pc = pc, !.login = issued']
      PROVE  /\ operator' \in OperatorRec(N) /\ operator'.pc = pc
             /\ operator'.login = issued'
  BY <1>1 DEF OperatorRec
<1>2. CASE operator' = NoOperation /\ Forsake({issued'})
  BY <1>2, NoOperationType DEF Forsake
<1> QED BY <1>1, <1>2 DEF OperatorProbe

\* The transaction replaces the login, or not; its outcome is known or not.
LEMMA OperatorCommits ==
  ASSUME NEW N, None \in N, operator \in OperatorRec(N), OperatorCommit
  PROVE  /\ operator' \in OperatorRec(N) /\ operator'.login = operator.login
         /\ operator'.base = operator.base
         /\ \/ /\ stored = operator.base /\ Store(operator.login)
               /\ \/ operator'.pc = "retire" /\ UNCHANGED abandoned
                  \/ /\ operator'.pc = "cleanup"
                     /\ abandoned' = abandoned \cup ({operator.base} \ {None})
            \/ operator'.pc = "cleanup" /\ UNCHANGED <<stored, sinceStart, abandoned>>
<1>1. CASE /\ stored = operator.base /\ Store(operator.login) /\ Operate("retire")
           /\ UNCHANGED abandoned
  BY <1>1 DEF Operate, OperatorRec
<1>2. CASE /\ stored = operator.base /\ Store(operator.login) /\ Operate("cleanup")
           /\ Forsake({operator.base})
  BY <1>2 DEF Operate, OperatorRec, Forsake
<1>3. CASE Operate("cleanup") /\ KeepStored /\ UNCHANGED abandoned
  BY <1>3 DEF Operate, OperatorRec, KeepStored
<1> QED BY <1>1, <1>2, <1>3 DEF OperatorCommit

\* cleanupInvocationToken, and the retirement of the replaced login: a login v that is
\* not in the row is logged out.
LEMMA OperatorLetsGo ==
  ASSUME NEW N, None \in N, operator \in OperatorRec(N), OperatorCleanup \/ OperatorRetire,
         NEW v, v = IF operator.pc = "cleanup" THEN operator.login ELSE operator.base
  PROVE  /\ operator' \in OperatorRec(N) /\ operator'.login \in {None, operator.login}
         /\ \/ operator'.pc = "idle" /\ v \in {None, stored} /\ UNCHANGED abandoned
            \/ /\ operator'.pc = "logout" /\ operator'.victim = v /\ v # stored
               /\ UNCHANGED abandoned
            \/ /\ operator'.pc = "idle"
               /\ abandoned' = abandoned \cup ((({v} \ {stored}) \ {None}))
<1>0. v \in N
  BY DEF OperatorRec
<1>1. CASE operator' = NoOperation /\ v \in {None, stored} /\ UNCHANGED abandoned
  BY <1>1, NoOperationType
<1>2. CASE /\ operator' = [operator EXCEPT !.pc = "logout", !.victim = v] /\ v # stored
           /\ UNCHANGED abandoned
  BY <1>0, <1>2 DEF OperatorRec
<1>3. CASE operator' = NoOperation /\ Forsake({v} \ {stored})
  BY <1>3, NoOperationType DEF Forsake
<1> QED BY <1>1, <1>2, <1>3 DEF OperatorCleanup, OperatorRetire

\* What a step of c does to the other requests, and to itself: it goes to pc, with the
\* login failed to be replaced, the login token, and the login probing to be probed.
Moved(N, c, pc, failed, token, probing) ==
  /\ caller' \in [Callers -> CallerRec(N)] /\ sinceStart' \in [Callers -> SUBSET N]
  /\ caller'[c].pc = pc /\ caller'[c].failed = failed /\ caller'[c].token = token
  /\ caller'[c].probing = probing
  /\ \A d \in Callers \ {c} : caller'[d] = caller[d] /\ sinceStart'[d] = sinceStart[d]

\* The request is over.
LEMMA Ends ==
  ASSUME NEW N, None \in N, caller \in [Callers -> CallerRec(N)],
         sinceStart \in [Callers -> SUBSET N], NEW c \in Callers,
         NEW pc \in {"done", "failed"}, End(c, pc)
  PROVE  Moved(N, c, pc, None, None, None)
<1> DEFINE v == [caller[c] EXCEPT !.pc = pc, !.token = None, !.failed = None,
                                  !.probing = None, !.retried = FALSE]
<1>1. caller' = [caller EXCEPT ![c] = v] /\ sinceStart' = [sinceStart EXCEPT ![c] = {}]
  BY DEF End
<1>2. /\ v \in CallerRec(N) /\ v.pc = pc /\ v.token = None /\ v.failed = None
      /\ v.probing = None
  BY DEF CallerRec
<1> HIDE DEF v
<1> QED BY <1>1, <1>2 DEF Moved

\* A run begins.
LEMMA Begins ==
  ASSUME NEW N, stored \in N, caller \in [Callers -> CallerRec(N)],
         sinceStart \in [Callers -> SUBSET N], NEW c \in Callers, NEW l \in N, Begin(c, l)
  PROVE  /\ Moved(N, c, "load", l, caller[c].token, caller[c].probing)
         /\ reconfigs = 0 => stored \in sinceStart'[c]
<1> DEFINE v == [caller[c] EXCEPT !.pc = "load", !.failed = l, !.retried = FALSE]
           s == IF reconfigs = 0 THEN {stored} ELSE {}
<1>1. caller' = [caller EXCEPT ![c] = v] /\ sinceStart' = [sinceStart EXCEPT ![c] = s]
  BY DEF Begin
<1>2. /\ v \in CallerRec(N) /\ v.pc = "load" /\ v.failed = l
      /\ v.token = caller[c].token /\ v.probing = caller[c].probing
  BY DEF CallerRec
<1> HIDE DEF v
<1> QED BY <1>1, <1>2 DEF Moved

\* The request goes on.
LEMMA Goes ==
  ASSUME NEW N, caller \in [Callers -> CallerRec(N)], sinceStart \in [Callers -> SUBSET N],
         NEW c \in Callers, NEW pc \in {"join", "wait", "confirm"}, Goto(c, pc),
         sinceStart' \in {sinceStart, [sinceStart EXCEPT ![c] = {}]}
  PROVE  Moved(N, c, pc, caller[c].failed, caller[c].token, caller[c].probing)
<1> DEFINE v == [caller[c] EXCEPT !.pc = pc]
<1>1. caller' = [caller EXCEPT ![c] = v]
  BY DEF Goto
<1>2. /\ v \in CallerRec(N) /\ v.pc = pc /\ v.failed = caller[c].failed
      /\ v.token = caller[c].token /\ v.probing = caller[c].probing
  BY DEF CallerRec
<1> HIDE DEF v
<1> QED BY <1>1, <1>2 DEF Moved

\* run returns a login.
LEMMA Succeeds ==
  ASSUME NEW N, caller \in [Callers -> CallerRec(N)], sinceStart \in [Callers -> SUBSET N],
         NEW c \in Callers, NEW l \in N, Succeed(c, l), UNCHANGED sinceStart
  PROVE  \E pc \in {"use", "refreshed"} :
           Moved(N, c, pc, caller[c].failed, l, caller[c].probing)
<1> DEFINE pc == IF caller[c].failed = None THEN "use" ELSE "refreshed"
           v == [caller[c] EXCEPT !.token = l, !.pc = pc]
<1>1. caller' = [caller EXCEPT ![c] = v]
  BY DEF Succeed
<1>2. /\ v \in CallerRec(N) /\ v.pc = pc /\ v.failed = caller[c].failed
      /\ v.token = l /\ v.probing = caller[c].probing
  BY DEF CallerRec
<1> HIDE DEF v
<1> QED BY <1>1, <1>2 DEF Moved

-----------------------------------------------------------------------------
(* The steps of a request *)

\* What the invariants say of a login when only the request moves.
LEMMA LoginsRest ==
  ASSUME UNCHANGED <<stored, issued, flight, operator>>
  PROVE  \A t : (Settled(t)' <=> Settled(t)) /\ (Gone(t)' <=> Gone(t))
BY DEF Settled, Gone, Candidate

\* Everything a request leaves alone.
Others == <<stored, issued, live, revocations, reconfigs, operator, loggedOut, abandoned>>

\* A step of the request c keeps the types and what it knows, and lets the flight be,
\* unless it begins one.
Keeps(N, c) ==
  /\ Typed(N)' /\ UNCHANGED Others /\ RequestSound(c)'
  /\ rejected \subseteq rejected'
  /\ \A d \in Callers \ {c} : /\ caller'[d] = caller[d] /\ sinceStart'[d] = sinceStart[d]
                              /\ mail'[d] = mail[d]
  /\ \/ flight' = flight
     \/ /\ flight.pc = "none" /\ flight'.pc = "load" /\ flight'.login = None
        /\ flight'.failed = caller[c].failed /\ caller[c].pc = "join"

\* Ensure and the end of a request.
LEMMA SimpleRequests ==
  ASSUME IInv, NEW N, N = 0..issued, NEW c \in Callers,
         Ensure(c) \/ Abandon(c) \/ Healthy(c) \/ NoAnswer(c)
  PROVE  Keeps(N, c)
<1>1. Typed(N) /\ None \in N /\ RequestSound(c)
  BY DEF IInv, Rows, Tokens, Logins, None, UpstreamAuthAssumption
<1>2. UNCHANGED Others /\ UNCHANGED <<flight, mail, rejected>>
  BY DEF Ensure, Abandon, Healthy, NoAnswer, Others, upstream, ghosts
<1>3. \A t : (Settled(t)' <=> Settled(t)) /\ (Gone(t)' <=> Gone(t))
  BY <1>2, LoginsRest DEF Others
<1>4. CASE Ensure(c)
  <2>1. caller[c].pc = "idle" /\ Begin(c, None)
    BY <1>4 DEF Ensure
  <2>2. /\ Moved(N, c, "load", None, caller[c].token, caller[c].probing)
        /\ reconfigs = 0 => stored \in sinceStart'[c]
    BY <1>1, <2>1, Begins DEF Typed
  <2>3. RequestSound(c)'
    BY <1>1, <1>2, <2>1, <2>2 DEF Moved, RequestSound, Justified, Others
  <2> QED BY <1>1, <1>2, <2>2, <2>3 DEF Keeps, Moved, Typed, Others
<1>5. CASE Abandon(c) \/ Healthy(c) \/ NoAnswer(c)
  <2>1. PICK pc \in {"done", "failed"} :
          /\ End(c, pc)
          /\ caller[c].pc \in IF pc = "done" THEN {"probe"} ELSE {"load", "wait"}
    BY <1>5 DEF Abandon, Healthy, NoAnswer
  <2>2. Moved(N, c, pc, None, None, None)
    BY <1>1, <2>1, Ends DEF Typed
  <2>3. RequestSound(c)'
    BY <1>1, <1>2, <1>3, <2>1, <2>2 DEF Moved, RequestSound, Others
  <2> QED BY <1>1, <1>2, <2>2, <2>3 DEF Keeps, Moved, Typed, Others
<1> QED BY <1>4, <1>5

\* What is known before a step of the request c.
LEMMA Before ==
  ASSUME IInv, NEW N, N = 0..issued, NEW c \in Callers
  PROVE  /\ Typed(N) /\ None \in N /\ RequestSound(c) /\ Settled(stored)
         /\ caller \in [Callers -> CallerRec(N)] /\ sinceStart \in [Callers -> SUBSET N]
         /\ stored \in N /\ caller[c].token \in N /\ caller[c].failed \in N
         /\ mail \in [Callers -> MailRec(N)] /\ mail[c].login \in N
         /\ flight \in FlightRec(N)
<1>1. Typed(N) /\ None \in N /\ RequestSound(c) /\ Settled(stored)
  BY DEF IInv, Rows, NewLogins, Tokens, Logins, None, UpstreamAuthAssumption
<1>2. /\ caller \in [Callers -> CallerRec(N)] /\ sinceStart \in [Callers -> SUBSET N]
      /\ stored \in N /\ mail \in [Callers -> MailRec(N)] /\ flight \in FlightRec(N)
  BY <1>1 DEF Typed
<1>3. caller[c].token \in N /\ caller[c].failed \in N
  BY <1>2 DEF CallerRec
<1>4. mail[c].login \in N
  BY <1>2 DEF MailRec
<1> QED BY <1>1, <1>2, <1>3, <1>4

\* run reads the row, and its request may be over.
LEMMA LoadingRequests ==
  ASSUME IInv, NEW N, N = 0..issued, NEW c \in Callers, Load(c) \/ Leave(c)
  PROVE  Keeps(N, c)
<1>1. /\ Typed(N) /\ None \in N /\ RequestSound(c) /\ Settled(stored)
      /\ caller \in [Callers -> CallerRec(N)] /\ sinceStart \in [Callers -> SUBSET N]
      /\ stored \in N
  BY Before
<1>2. UNCHANGED Others /\ UNCHANGED <<flight, mail, rejected>>
  BY DEF Load, Leave, Others, upstream, ghosts
<1>3. \A t : (Settled(t)' <=> Settled(t)) /\ (Gone(t)' <=> Gone(t))
  BY <1>2, LoginsRest DEF Others
<1>4. CASE Load(c) /\ Succeed(c, stored) /\ UNCHANGED sinceStart
  <2>1. caller[c].pc = "load" /\ Satisfied(stored, caller[c].failed)
    BY <1>1, <1>4 DEF Load, Succeed, Goto, End, CallerRec
  <2>2. PICK pc \in {"use", "refreshed"} :
          Moved(N, c, pc, caller[c].failed, stored, caller[c].probing)
    BY <1>1, <1>4, Succeeds
  <2>3. RequestSound(c)'
    BY <1>1, <1>2, <1>3, <1>4, <2>1, <2>2 DEF Moved, RequestSound, Others, Satisfied
  <2> QED BY <1>1, <1>2, <2>2, <2>3 DEF Keeps, Moved, Typed, Others
<1>5. CASE Load(c) /\ Goto(c, "join") /\ UNCHANGED sinceStart
  <2>1. caller[c].pc = "load"
    BY <1>5 DEF Load
  <2>2. Moved(N, c, "join", caller[c].failed, caller[c].token, caller[c].probing)
    BY <1>1, <1>5, Goes
  <2>3. RequestSound(c)'
    BY <1>1, <1>2, <1>3, <1>5, <2>1, <2>2 DEF Moved, RequestSound, Others, Justified
  <2> QED BY <1>1, <1>2, <2>2, <2>3 DEF Keeps, Moved, Typed, Others
<1>6. CASE Load(c) /\ End(c, "failed")
  <2>1. caller[c].pc = "load"
    BY <1>6 DEF Load
  <2>2. Moved(N, c, "failed", None, None, None)
    BY <1>1, <1>6, Ends
  <2>3. RequestSound(c)'
    BY <1>1, <1>2, <1>3, <2>1, <2>2 DEF Moved, RequestSound, Others
  <2> QED BY <1>1, <1>2, <2>2, <2>3 DEF Keeps, Moved, Typed, Others
<1>7. CASE Leave(c)
  <2>1. Moved(N, c, caller[c].pc, caller[c].failed, caller[c].token, caller[c].probing)
        /\ UNCHANGED sinceStart
    <3> DEFINE v == [caller[c] EXCEPT !.left = TRUE]
    <3>1. caller' = [caller EXCEPT ![c] = v] /\ UNCHANGED sinceStart
      BY <1>7 DEF Leave
    <3>2. /\ v \in CallerRec(N) /\ v.pc = caller[c].pc /\ v.failed = caller[c].failed
          /\ v.token = caller[c].token /\ v.probing = caller[c].probing
      BY <1>1 DEF CallerRec
    <3> HIDE DEF v
    <3> QED BY <1>1, <3>1, <3>2 DEF Moved
  <2>2. RequestSound(c)'
    BY <1>1, <1>2, <1>3, <2>1 DEF Moved, RequestSound, Others, Justified, Satisfied
  <2> QED BY <1>1, <1>2, <2>1, <2>2 DEF Keeps, Moved, Typed, Others
<1> QED BY <1>4, <1>5, <1>6, <1>7 DEF Load

\* flights.DoChan: the request waits for the flight in the air, or begins one.
LEMMA JoiningRequests ==
  ASSUME IInv, NEW N, N = 0..issued, NEW c \in Callers, Join(c)
  PROVE  Keeps(N, c)
<1>1. /\ Typed(N) /\ None \in N /\ RequestSound(c)
      /\ caller \in [Callers -> CallerRec(N)] /\ sinceStart \in [Callers -> SUBSET N]
      /\ caller[c].failed \in N /\ flight \in FlightRec(N)
  BY Before
<1>2. UNCHANGED Others /\ UNCHANGED <<mail, rejected, sinceStart>> /\ caller[c].pc = "join"
  BY DEF Join, Others, upstream, ghosts
<1>3. Moved(N, c, "wait", caller[c].failed, caller[c].token, caller[c].probing)
  <2>1. Goto(c, "wait")
    BY DEF Join
  <2> QED BY <1>1, <1>2, <2>1, Goes
<1>4. /\ flight' \in FlightRec(N)
      /\ \/ flight' = flight /\ flight.pc # "none"
         \/ /\ flight.pc = "none" /\ flight'.pc = "load" /\ flight'.login = None
            /\ flight'.failed = caller[c].failed
  <2> DEFINE g == [NoFlight EXCEPT !.pc = "load", !.leader = c, !.failed = caller[c].failed]
  <2>1. NoFlight \in FlightRec(N) /\ NoFlight.login = None
    BY <1>1 DEF NoFlight, NoMail, FlightRec, Kinds
  <2>2. /\ g \in FlightRec(N) /\ g.pc = "load" /\ g.login = None
        /\ g.failed = caller[c].failed
    BY <1>1, <2>1 DEF FlightRec
  <2> HIDE DEF g
  <2>3. flight' = IF flight.pc = "none" THEN g ELSE flight
    BY DEF Join, g
  <2> QED BY <1>1, <2>2, <2>3
<1>5. Justified(caller[c].failed)'
  <2>1. Justified(caller[c].failed)
    BY <1>1, <1>2 DEF RequestSound
  <2>2. Gone(caller[c].failed) => Gone(caller[c].failed)'
    BY <1>2, <1>3, <1>4 DEF Gone, Settled, Candidate, Others, Moved
  <2> QED BY <1>2, <1>3, <2>1, <2>2 DEF Justified, Moved
<1>6. RequestSound(c)'
  BY <1>1, <1>2, <1>3, <1>4, <1>5 DEF Moved, RequestSound, Others
<1> QED BY <1>1, <1>2, <1>3, <1>4, <1>6 DEF Keeps, Moved, Typed, Others

\* The shared result arrives.
LEMMA ReceivingRequests ==
  ASSUME IInv, NEW N, N = 0..issued, NEW c \in Callers, Receive(c)
  PROVE  Keeps(N, c)
<1>1. /\ Typed(N) /\ None \in N /\ RequestSound(c)
      /\ caller \in [Callers -> CallerRec(N)] /\ sinceStart \in [Callers -> SUBSET N]
      /\ mail \in [Callers -> MailRec(N)] /\ mail[c].login \in N
  BY Before
<1>2. /\ UNCHANGED Others /\ UNCHANGED <<flight, rejected>>
      /\ caller[c].pc = "wait" /\ mail[c].kind # "none" /\ mail' = [mail EXCEPT ![c] = NoMail]
  BY DEF Receive, Others, upstream, ghosts
<1>3. \A t : (Settled(t)' <=> Settled(t)) /\ (Gone(t)' <=> Gone(t))
  BY <1>2, LoginsRest DEF Others
<1>m. /\ mail' \in [Callers -> MailRec(N)] /\ mail'[c] = NoMail /\ mail'[c].kind = "none"
      /\ \A d \in Callers \ {c} : mail'[d] = mail[d]
  <2>1. NoMail \in MailRec(N) /\ NoMail.kind = "none"
    BY <1>1 DEF NoMail, MailRec, Kinds
  <2> QED BY <1>1, <1>2, <2>1
<1>4. CASE /\ mail[c].kind = "ok" /\ Satisfied(mail[c].login, caller[c].failed)
           /\ Succeed(c, mail[c].login) /\ UNCHANGED sinceStart
  <2>1. PICK l \in N : l = mail[c].login
    BY <1>1
  <2>2. Succeed(c, l)
    BY <1>4, <2>1 DEF Succeed
  <2>3. PICK pc \in {"use", "refreshed"} :
          Moved(N, c, pc, caller[c].failed, l, caller[c].probing)
    BY <1>1, <1>4, <2>2, Succeeds
  <2>4. RequestSound(c)'
    BY <1>1, <1>2, <1>3, <1>4, <1>m, <2>1, <2>3 DEF Moved, RequestSound, Others, Satisfied
  <2> QED BY <1>1, <1>2, <1>m, <2>3, <2>4 DEF Keeps, Moved, Typed, Others
<1>5. CASE End(c, "failed")
  <2>1. Moved(N, c, "failed", None, None, None)
    BY <1>1, <1>5, Ends
  <2>2. RequestSound(c)'
    BY <1>m, <2>1 DEF Moved, RequestSound
  <2> QED BY <1>1, <1>2, <1>m, <2>1, <2>2 DEF Keeps, Moved, Typed, Others
<1>6. CASE /\ caller' = [caller EXCEPT ![c].pc = "load", ![c].retried = TRUE]
           /\ UNCHANGED sinceStart
  <2>1. Moved(N, c, "load", caller[c].failed, caller[c].token, caller[c].probing)
    <3> DEFINE v == [caller[c] EXCEPT !.pc = "load", !.retried = TRUE]
    <3>1. caller' = [caller EXCEPT ![c] = v] /\ UNCHANGED sinceStart
      BY <1>6
    <3>2. /\ v \in CallerRec(N) /\ v.pc = "load" /\ v.failed = caller[c].failed
          /\ v.token = caller[c].token /\ v.probing = caller[c].probing
      BY ZenonT(60), <1>1 DEF CallerRec
    <3> HIDE DEF v
    <3> QED BY <1>1, <3>1, <3>2 DEF Moved
  <2>2. RequestSound(c)'
    BY <1>1, <1>2, <1>3, <1>6, <1>m, <2>1 DEF Moved, RequestSound, Others, Justified
  <2> QED BY <1>1, <1>2, <1>6, <1>m, <2>1, <2>2 DEF Keeps, Moved, Typed, Others
<1> QED BY <1>4, <1>5, <1>6 DEF Receive

\* The login is used; a 401 is looked into.
LEMMA UsingRequests ==
  ASSUME IInv, NEW N, N = 0..issued, NEW c \in Callers, Use(c) \/ Confirm(c)
  PROVE  Keeps(N, c)
<1>1. /\ Typed(N) /\ None \in N /\ RequestSound(c) /\ stored \in N /\ caller[c].token \in N
      /\ caller \in [Callers -> CallerRec(N)] /\ sinceStart \in [Callers -> SUBSET N]
  BY Before
<1>2. /\ UNCHANGED Others /\ UNCHANGED <<flight, mail, rejected>>
      /\ caller[c].pc \in {"use", "confirm"}
  BY DEF Use, Confirm, Others, upstream, ghosts
<1>3. \A t : (Settled(t)' <=> Settled(t)) /\ (Gone(t)' <=> Gone(t))
  BY <1>2, LoginsRest DEF Others
<1>4. CASE End(c, "done")
  <2>1. Moved(N, c, "done", None, None, None)
    BY <1>1, <1>4, Ends
  <2>2. RequestSound(c)'
    BY <1>1, <1>2, <2>1 DEF Moved, RequestSound
  <2> QED BY <1>1, <1>2, <2>1, <2>2 DEF Keeps, Moved, Typed, Others
<1>5. CASE Goto(c, "confirm") /\ sinceStart' = [sinceStart EXCEPT ![c] = {}]
  <2>1. Moved(N, c, "confirm", caller[c].failed, caller[c].token, caller[c].probing)
    BY <1>1, <1>5, Goes
  <2>2. RequestSound(c)'
    BY <1>1, <1>2, <1>3, <2>1 DEF Moved, RequestSound, Others
  <2> QED BY <1>1, <1>2, <2>1, <2>2 DEF Keeps, Moved, Typed, Others
<1>6. CASE /\ caller' = [caller EXCEPT ![c].pc = "probe",
                  ![c].probing = IF caller[c].other THEN stored ELSE caller[c].token]
           /\ UNCHANGED sinceStart
  <2> DEFINE p == IF caller[c].other THEN stored ELSE caller[c].token
             v == [caller[c] EXCEPT !.pc = "probe", !.probing = p]
  <2>1. Moved(N, c, "probe", caller[c].failed, caller[c].token, p)
    <3>1. caller' = [caller EXCEPT ![c] = v]
      BY <1>6
    <3>2. p \in N
      BY <1>1
    <3> HIDE DEF p
    <3>3. /\ v \in CallerRec(N) /\ v.pc = "probe" /\ v.failed = caller[c].failed
          /\ v.token = caller[c].token /\ v.probing = p
      BY <1>1, <3>2 DEF CallerRec
    <3> HIDE DEF v
    <3> QED BY <1>1, <1>6, <3>1, <3>3 DEF Moved
  <2>2. p = caller[c].token \/ (Settled(caller[c].token) => Gone(caller[c].token))
    BY DEF Gone
  <2> HIDE DEF p
  <2>3. RequestSound(c)'
    BY <1>1, <1>2, <1>3, <2>1, <2>2 DEF Moved, RequestSound, Others
  <2> QED BY <1>1, <1>2, <2>1, <2>3 DEF Keeps, Moved, Typed, Others
<1> QED BY <1>4, <1>5, <1>6 DEF Use, Confirm

\* A 401 of the probe starts a refresh.
LEMMA ExpiringRequests ==
  ASSUME IInv, NEW N, N = 0..issued, NEW c \in Callers, Expired(c)
  PROVE  Keeps(N, c)
<1>1. /\ Typed(N) /\ None \in N /\ RequestSound(c) /\ stored \in N /\ caller[c].token \in N
      /\ caller \in [Callers -> CallerRec(N)] /\ sinceStart \in [Callers -> SUBSET N]
  BY Before
<1>2. /\ UNCHANGED Others /\ UNCHANGED <<flight, mail>> /\ caller[c].pc = "probe"
      /\ rejected' = rejected \cup {caller[c].probing} /\ caller[c].probing \in N
  BY <1>1 DEF Expired, Others, upstream, ghosts, CallerRec
<1>3. \A t : (Settled(t)' <=> Settled(t)) /\ (Gone(t)' <=> Gone(t))
  BY <1>2, LoginsRest DEF Others
<1>4. PICK l \in N : l = caller[c].token
  BY <1>1
<1>5. Begin(c, l)
  BY <1>4 DEF Expired, Begin
<1>6. /\ Moved(N, c, "load", l, caller[c].token, caller[c].probing)
      /\ reconfigs = 0 => stored \in sinceStart'[c]
  BY <1>1, <1>5, Begins
<1>7. l \in rejected' \cup {None} \/ Gone(l)'
  BY <1>1, <1>2, <1>3, <1>4 DEF RequestSound
<1>8. RequestSound(c)'
  BY <1>1, <1>2, <1>6, <1>7 DEF Moved, RequestSound, Others, Justified
<1>9. rejected' \in SUBSET N
  BY <1>1, <1>2 DEF Typed
<1> QED BY <1>1, <1>2, <1>6, <1>8, <1>9 DEF Keeps, Moved, Typed, Others

\* Every step of a request.
LEMMA Requests ==
  ASSUME IInv, NEW N, N = 0..issued, NEW c \in Callers, Request(c)
  PROVE  Keeps(N, c)
BY SimpleRequests, LoadingRequests, JoiningRequests, ReceivingRequests, UsingRequests,
   ExpiringRequests DEF Request

\* A request keeps the invariant.
LEMMA RequestStep ==
  ASSUME IInv, NEW c \in Callers, Request(c)
  PROVE  IInv'
<1> DEFINE N == 0..issued
<1>1. Keeps(N, c)
  BY Requests
<1>2. /\ Rows /\ NewLogins /\ LogoutsAreLast /\ SessionsInHand /\ FlightSound
      /\ \A d \in Callers : RequestSound(d)
  BY DEF IInv
<1>3. UNCHANGED Others /\ rejected \subseteq rejected'
  BY <1>1 DEF Keeps
<1>4. Rows'
  BY <1>1, <1>2, <1>3 DEF Keeps, Rows, Others
<1>5. \A t : /\ Candidate(t) <=> Candidate(t)'
             /\ Settled(t) <=> Settled(t)'
             /\ Gone(t) <=> Gone(t)'
  BY <1>1, <1>3 DEF Keeps, Others, Candidate, Settled, Gone
<1>6. \A t : Justified(t) => Justified(t)'
  BY <1>3, <1>5 DEF Justified
<1>7. NewLogins'
  BY <1>1, <1>2, <1>3, <1>5 DEF Keeps, NewLogins, Others
<1>8. LogoutsAreLast'
  BY <1>1, <1>2, <1>3, <1>5 DEF Keeps, LogoutsAreLast, Others
<1>9. SessionsInHand'
  BY <1>1, <1>2, <1>3 DEF Keeps, SessionsInHand, InHand, Others
<1>10. FlightSound'
  <2>1. CASE flight' = flight
    BY <2>1, <1>2, <1>3, <1>5, <1>6 DEF FlightSound, Others
  <2>2. CASE flight'.pc = "load" /\ flight'.failed = caller[c].failed /\ caller[c].pc = "join"
    <3>1. Justified(caller[c].failed)
      BY <2>2, <1>2 DEF RequestSound
    <3>2. Justified(flight.failed)'
      BY <2>2, <3>1, <1>3, <1>5 DEF Justified
    <3> QED BY <2>2, <3>2, <1>2, <1>3 DEF FlightSound, Others
  <2> QED BY <2>1, <2>2, <1>1 DEF Keeps
<1>11. ASSUME NEW d \in Callers PROVE RequestSound(d)'
  <2>1. CASE d = c
    BY <2>1, <1>1 DEF Keeps
  <2>2. CASE d # c
    <3>1. RequestSound(d) /\ caller'[d] = caller[d] /\ sinceStart'[d] = sinceStart[d]
          /\ mail'[d] = mail[d] /\ (flight'.pc = "none" => flight.pc = "none")
      BY <2>2, <1>1, <1>2 DEF Keeps
    <3>2. Justified(caller[d].failed) => Justified(caller[d].failed)'
      BY <3>1, <1>3, <1>5 DEF Justified
    <3> QED BY <3>1, <3>2, <1>3, <1>5 DEF RequestSound, Others
  <2> QED BY <2>1, <2>2
<1> QED BY <1>4, <1>7, <1>8, <1>9, <1>10, <1>11 DEF IInv

-----------------------------------------------------------------------------
(* The steps of the upstream, the flight and the operator *)

\* What is settled stays settled, and what is gone stays away from the row: a step only
\* stores a candidate, and a new candidate has just been granted.
LEMMA Stays ==
  ASSUME IInv, issued' \in {issued, issued + 1},
         \A l : Candidate(l)' => Candidate(l) \/ l \notin 0..issued,
         NEW l, stored' = l, l = stored \/ Candidate(l)
  PROVE  \A t : (Settled(t) => Settled(t)') /\ (Gone(t) => Gone(t)')
<1>1. issued \in Nat
  BY DEF IInv, Rows, Tokens, Logins, None, UpstreamAuthAssumption
<1>2. \A t : Settled(t) => Settled(t)'
  BY <1>1 DEF Settled
<1>3. \A t : Gone(t) => Gone(t)'
  BY <1>2 DEF Gone, Settled
<1> QED BY <1>2, <1>3

\* The requests are told of what is stored, and those who wait have their answer when
\* the flight is over.
LEMMA Waiters ==
  ASSUME IInv, \A t : (Settled(t) => Settled(t)') /\ (Gone(t) => Gone(t)'),
         UNCHANGED <<caller, rejected>>,
         reconfigs' = 0 =>
           /\ reconfigs = 0
           /\ \A c \in Callers :
                /\ sinceStart[c] \subseteq sinceStart'[c]
                /\ stored' = stored \/ stored' \in sinceStart'[c]
                     \/ caller[c].pc \notin {"load", "join", "wait"},
         \/ mail' = mail /\ flight'.pc # "none"
         \/ mail' = mail /\ flight' = flight
         \/ /\ flight.pc = "return" /\ UNCHANGED stored
            /\ \A c \in Callers :
                 IF caller[c].pc = "wait" /\ mail[c] = NoMail
                   THEN /\ mail'[c].kind \in {"ok", "error", "canceled"}
                        /\ mail'[c].kind = "ok" =>
                             mail'[c] = flight.result /\ flight.result.kind = "ok"
                   ELSE mail'[c] = mail[c]
  PROVE  \A c \in Callers : RequestSound(c)'
<1> SUFFICES ASSUME NEW c \in Callers PROVE RequestSound(c)'
  OBVIOUS
<1>1. RequestSound(c) /\ FlightSound
  BY DEF IInv
<1>2. Justified(caller[c].failed) => Justified(caller[c].failed)'
  BY DEF Justified
<1>3. CASE mail' = mail /\ (flight'.pc = "none" => flight.pc = "none")
  BY <1>1, <1>2, <1>3 DEF RequestSound
<1>4. CASE /\ flight.pc = "return" /\ UNCHANGED stored
           /\ caller[c].pc = "wait" /\ mail[c] = NoMail
           /\ mail'[c].kind \in {"ok", "error", "canceled"}
           /\ mail'[c].kind = "ok" => mail'[c] = flight.result /\ flight.result.kind = "ok"
  <2>1. mail'[c].kind = "ok" =>
          /\ Settled(mail'[c].login)
          /\ reconfigs = 0 => mail'[c].login = stored /\ stored \in sinceStart[c]
    BY <1>1, <1>4 DEF FlightSound, RequestSound
  <2> QED BY <1>1, <1>2, <1>4, <2>1 DEF RequestSound
<1>5. CASE /\ mail'[c] = mail[c] /\ UNCHANGED stored
           /\ ~(caller[c].pc = "wait" /\ mail[c] = NoMail)
  BY <1>1, <1>2, <1>5 DEF RequestSound
<1> QED BY <1>3, <1>4, <1>5

\* What is known before a step of the flight or of the operator.
LEMMA Known ==
  ASSUME IInv
  PROVE  /\ NewLogins /\ LogoutsAreLast /\ SessionsInHand /\ FlightSound
         /\ \A c \in Callers : RequestSound(c)
         /\ issued \in Nat /\ issued \in Tokens /\ reconfigs \in Nat
         /\ revocations \in 0..MaxRevocations /\ reconfigs \in 0..MaxReconfigs
         /\ \A n \in {issued, issued + 1} :
              /\ Typed(0..n) /\ None \in 0..n /\ stored \in 0..n /\ n \in 0..n
              /\ flight \in FlightRec(0..n) /\ operator \in OperatorRec(0..n)
              /\ mail \in [Callers -> MailRec(0..n)]
         /\ flight.base \in 0..issued /\ flight.login \in 0..issued
         /\ flight.victim \in 0..issued
         /\ operator.base \in 0..issued /\ operator.login \in 0..issued
         /\ operator.victim \in 0..issued
         /\ flight.pc = "return" => flight.result.kind \in {"ok", "error", "leader"}
<1>1. /\ Rows /\ NewLogins /\ LogoutsAreLast /\ SessionsInHand /\ FlightSound
      /\ \A c \in Callers : RequestSound(c)
  BY DEF IInv
<1>2. issued \in Nat /\ issued \in Tokens /\ reconfigs \in Nat
      /\ revocations \in 0..MaxRevocations /\ reconfigs \in 0..MaxReconfigs
  BY <1>1 DEF Rows, Tokens, Logins, None, UpstreamAuthAssumption
<1>3. ASSUME NEW n \in {issued, issued + 1}
      PROVE  Typed(0..n) /\ None \in 0..n /\ n \in 0..n
  <2> DEFINE M == 0..issued
             N == 0..n
  <2>1. Typed(M) /\ M \subseteq N
    BY <1>1, <1>2 DEF Rows
  <2>2. None \in N /\ n \in N
    BY <1>2 DEF None
  <2> HIDE DEF M, N
  <2>3. CallerRec(M) \subseteq CallerRec(N)
    BY <2>1 DEF CallerRec
  <2>4. FlightRec(M) \subseteq FlightRec(N)
    BY <2>1 DEF FlightRec
  <2>5. MailRec(M) \subseteq MailRec(N) /\ OperatorRec(M) \subseteq OperatorRec(N)
    BY <2>1 DEF MailRec, OperatorRec
  <2>6. Typed(N)
    BY <2>1, <2>3, <2>4, <2>5 DEF Typed
  <2> QED BY <2>2, <2>6 DEF N
<1>4. ASSUME NEW n \in {issued, issued + 1}
      PROVE  /\ stored \in 0..n /\ mail \in [Callers -> MailRec(0..n)]
             /\ flight \in FlightRec(0..n) /\ operator \in OperatorRec(0..n)
  BY <1>3 DEF Typed
<1>5. /\ flight.base \in 0..issued /\ flight.login \in 0..issued
      /\ flight.victim \in 0..issued
  BY <1>4 DEF FlightRec
<1>6. /\ operator.base \in 0..issued /\ operator.login \in 0..issued
      /\ operator.victim \in 0..issued
  BY <1>4 DEF OperatorRec
<1>7. flight.pc = "return" => flight.result.kind \in {"ok", "error", "leader"}
  BY <1>1 DEF FlightSound
<1> QED BY <1>1, <1>2, <1>3, <1>4, <1>5, <1>6, <1>7

\* A load of the flight keeps the invariant.
LEMMA FlightLoadStep ==
  ASSUME IInv, FlightLoad
  PROVE  IInv'
<1>1. /\ flight.pc = "load"
      /\ UNCHANGED <<stored, issued, live, revocations, reconfigs, caller, mail, operator,
                     loggedOut, rejected, sinceStart, abandoned>>
  BY DEF FlightLoad, upstream, ghosts
<1>2. Rows'
  <2>1. flight' \in FlightRec(0..issued)
    BY <1>1, Known, FlightLoads
  <2>2. Typed(0..issued) /\ issued' \in Tokens /\ revocations' \in 0..MaxRevocations
        /\ reconfigs' \in 0..MaxReconfigs
    BY <1>1, Known
  <2> QED BY <1>1, <2>1, <2>2 DEF Rows, Typed
<1>3. \A l : Candidate(l)' => Candidate(l)
  BY <1>1, Known, FlightLoads DEF Candidate
<1>4. \A t : (Settled(t) => Settled(t)') /\ (Gone(t) => Gone(t)')
  BY <1>1, <1>3, Known, Stays
<1>5. NewLogins'
  BY <1>1, <1>3, <1>4, Known, FlightLoads DEF NewLogins, Settled, Candidate, None
<1>6. LogoutsAreLast'
  BY <1>1, <1>3, <1>4, Known, FlightLoads
     DEF LogoutsAreLast, NewLogins, Gone, Settled, Candidate
<1>7. SessionsInHand'
  BY <1>1, <1>3, <1>4, Known, FlightLoads DEF SessionsInHand, InHand, None
<1>8. FlightSound'
  BY SMTT(30), <1>1, <1>3, <1>4, Known, FlightLoads
     DEF FlightSound, Justified, NewLogins, Satisfied
<1>9. \A c \in Callers : RequestSound(c)'
  BY <1>1, <1>4, Known, FlightLoads, Waiters
<1> QED BY <1>2, <1>5, <1>6, <1>7, <1>8, <1>9 DEF IInv

\* A login of the flight is a new candidate, or to be logged out, or lost.
LEMMA FlightLoginStep ==
  ASSUME IInv, FlightLogin
  PROVE  IInv'
<1>1. /\ flight.pc = "login"
      /\ UNCHANGED <<stored, revocations, reconfigs, caller, mail, operator, loggedOut,
                     rejected, sinceStart>>
      /\ issued' = issued + 1 /\ live' = live \cup {issued'} /\ issued < MaxLogins
  BY DEF FlightLogin, upstream, ghosts, Grant
<1>2. Rows'
  <2>1. flight' \in FlightRec(0..issued')
    BY <1>1, Known, FlightLogins
  <2>2. live' \in SUBSET (0..issued')
    BY <1>1, Known, FlightLogins DEF Typed
  <2>3. abandoned' \in SUBSET (0..issued')
    BY <1>1, Known, FlightLogins DEF Typed
  <2>4. Typed(0..issued')
    BY <1>1, Known
  <2>5. issued' \in Tokens /\ revocations' \in 0..MaxRevocations
        /\ reconfigs' \in 0..MaxReconfigs
    BY <1>1, Known, UpstreamAuthAssumption DEF Tokens, Logins, None
  <2> QED BY <1>1, <2>1, <2>2, <2>3, <2>4, <2>5 DEF Rows, Typed
<1>3. \A l : Candidate(l)' => Candidate(l) \/ l \notin 0..issued
  BY SMTT(30), <1>1, Known, FlightLogins DEF Candidate
<1>4. \A t : (Settled(t) => Settled(t)') /\ (Gone(t) => Gone(t)')
  BY <1>1, <1>3, Known, Stays
<1>5. NewLogins'
  <2>1. operator.login # issued' /\ issued' # None /\ issued' # stored /\ issued' \in 0..issued'
    BY <1>1, Known DEF None
  <2> QED BY <1>1, <1>3, <1>4, <2>1, Known, FlightLogins
         DEF NewLogins, Settled, Candidate, None
<1>6. LogoutsAreLast'
  <2>1. operator.login # issued' /\ issued' # None /\ issued' # stored /\ issued' \in 0..issued'
    BY <1>1, Known DEF None
  <2>2. flight'.pc = "retire" => Gone(flight.victim)'
    BY <1>1, <2>1, Known, FlightLogins DEF Gone, Settled, Candidate, NewLogins
  <2> QED BY <1>1, <1>3, <1>4, <2>2, Known, FlightLogins
             DEF LogoutsAreLast, NewLogins, Gone, Settled, Candidate
<1>7. SessionsInHand'
  BY SMTT(30), <1>1, <1>3, <1>4, Known, FlightLogins DEF SessionsInHand, InHand, None
<1>8. FlightSound'
  BY SMTT(30), <1>1, <1>3, <1>4, Known, FlightLogins
     DEF FlightSound, Justified, NewLogins, Satisfied
<1>9. \A c \in Callers : RequestSound(c)'
  BY <1>1, <1>4, Known, FlightLogins, Waiters
<1> QED BY <1>2, <1>5, <1>6, <1>7, <1>8, <1>9 DEF IInv

\* A login that is not granted changes only the flight.
LEMMA FlightLoginFailsStep ==
  ASSUME IInv, FlightLoginFails
  PROVE  IInv'
<1>1. /\ flight.pc = "login"
      /\ UNCHANGED <<stored, issued, live, revocations, reconfigs, caller, mail, operator,
                     loggedOut, rejected, sinceStart, abandoned>>
  BY DEF FlightLoginFails, upstream, ghosts
<1>2. Rows'
  <2>1. flight' \in FlightRec(0..issued)
    BY <1>1, Known, FlightLoginsFail
  <2>2. Typed(0..issued) /\ issued' \in Tokens /\ revocations' \in 0..MaxRevocations
        /\ reconfigs' \in 0..MaxReconfigs
    BY <1>1, Known
  <2> QED BY <1>1, <2>1, <2>2 DEF Rows, Typed
<1>3. \A l : Candidate(l)' => Candidate(l)
  BY <1>1, Known, FlightLoginsFail DEF Candidate
<1>4. \A t : (Settled(t) => Settled(t)') /\ (Gone(t) => Gone(t)')
  BY <1>1, <1>3, Known, Stays
<1>5. NewLogins'
  BY <1>1, <1>3, <1>4, Known, FlightLoginsFail DEF NewLogins, Settled, Candidate, None
<1>6. LogoutsAreLast'
  BY <1>1, <1>3, <1>4, Known, FlightLoginsFail
     DEF LogoutsAreLast, NewLogins, Gone, Settled, Candidate
<1>7. SessionsInHand'
  BY <1>1, <1>3, <1>4, Known, FlightLoginsFail DEF SessionsInHand, InHand, None
<1>8. FlightSound'
  BY <1>1, <1>3, <1>4, Known, FlightLoginsFail
     DEF FlightSound, Justified, NewLogins, Satisfied
<1>9. \A c \in Callers : RequestSound(c)'
  BY <1>1, <1>4, Known, FlightLoginsFail, Waiters
<1> QED BY <1>2, <1>5, <1>6, <1>7, <1>8, <1>9 DEF IInv

\* When the leader left, its login is no longer a candidate.
LEMMA FlightCheckStep ==
  ASSUME IInv, FlightCheck
  PROVE  IInv'
<1>1. /\ flight.pc = "check"
      /\ UNCHANGED <<stored, issued, live, revocations, reconfigs, caller, mail, operator,
                     loggedOut, rejected, sinceStart, abandoned>>
  BY DEF FlightCheck, upstream, ghosts
<1>2. Rows'
  <2>1. flight' \in FlightRec(0..issued)
    BY <1>1, Known, FlightChecks
  <2>2. Typed(0..issued) /\ issued' \in Tokens /\ revocations' \in 0..MaxRevocations
        /\ reconfigs' \in 0..MaxReconfigs
    BY <1>1, Known
  <2> QED BY <1>1, <2>1, <2>2 DEF Rows, Typed
<1>3. \A l : Candidate(l)' => Candidate(l)
  BY <1>1, Known, FlightChecks DEF Candidate
<1>4. \A t : (Settled(t) => Settled(t)') /\ (Gone(t) => Gone(t)')
  BY <1>1, <1>3, Known, Stays
<1>5. NewLogins'
  BY <1>1, <1>3, <1>4, Known, FlightChecks DEF NewLogins, Settled, Candidate, None
<1>6. LogoutsAreLast'
  BY <1>1, <1>3, <1>4, Known, FlightChecks
     DEF LogoutsAreLast, NewLogins, Gone, Settled, Candidate
<1>7. SessionsInHand'
  BY <1>1, <1>3, <1>4, Known, FlightChecks DEF SessionsInHand, InHand, None
<1>8. FlightSound'
  BY SMTT(30), <1>1, <1>3, <1>4, Known, FlightChecks
     DEF FlightSound, Justified, NewLogins, Satisfied
<1>9. \A c \in Callers : RequestSound(c)'
  BY <1>1, <1>4, Known, FlightChecks, Waiters
<1> QED BY <1>2, <1>5, <1>6, <1>7, <1>8, <1>9 DEF IInv

\* A swap puts a candidate in the row, and what it replaces is gone.
LEMMA FlightSwapStep ==
  ASSUME IInv, FlightSwap
  PROVE  IInv'
<1>1. /\ flight.pc = "swap"
      /\ UNCHANGED <<issued, live, revocations, reconfigs, caller, mail, operator, loggedOut,
                     rejected>>
  BY DEF FlightSwap, upstream, ghosts
<1>2. Rows'
  <2>1. flight' \in FlightRec(0..issued)
    BY <1>1, Known, FlightSwaps
  <2>2. stored' \in 0..issued
    BY <1>1, Known, FlightSwaps DEF Typed, Store
  <2>3. sinceStart' \in [Callers -> SUBSET (0..issued)]
    BY SMTT(30), <1>1, Known, FlightSwaps DEF Typed, Store
  <2>4. abandoned' \in SUBSET (0..issued)
    BY <1>1, Known, FlightSwaps DEF Typed
  <2>5. Typed(0..issued) /\ issued' \in Tokens /\ revocations' \in 0..MaxRevocations
        /\ reconfigs' \in 0..MaxReconfigs
    BY <1>1, Known
  <2> QED BY <1>1, <2>1, <2>2, <2>3, <2>4, <2>5 DEF Rows, Typed
<1>3. \A l : Candidate(l)' => Candidate(l)
  BY <1>1, Known, FlightSwaps DEF Candidate
<1>4. \A t : (Settled(t) => Settled(t)') /\ (Gone(t) => Gone(t)')
  <2>1. PICK l : stored' = l /\ (l = stored \/ Candidate(l))
    BY <1>1, Known, FlightSwaps DEF Candidate, Store
  <2> QED BY <1>1, <1>3, <2>1, Stays
<1>5. NewLogins'
  BY <1>1, <1>3, <1>4, Known, FlightSwaps DEF NewLogins, Settled, Candidate, None, Store
<1>6. LogoutsAreLast'
  BY <1>1, <1>3, <1>4, Known, FlightSwaps
     DEF LogoutsAreLast, NewLogins, Gone, Settled, Candidate, Store
<1>7. SessionsInHand'
  BY <1>1, <1>3, <1>4, Known, FlightSwaps DEF SessionsInHand, InHand, None, Store
<1>8. FlightSound'
  BY <1>1, <1>3, <1>4, Known, FlightSwaps DEF FlightSound, Justified, NewLogins, Satisfied
<1>9. \A c \in Callers : RequestSound(c)'
  <2>1. reconfigs' = 0 => \A c \in Callers :
          /\ sinceStart[c] \subseteq sinceStart'[c]
          /\ stored' = stored \/ stored' \in sinceStart'[c]
               \/ caller[c].pc \notin {"load", "join", "wait"}
    BY <1>1, Known, FlightSwaps DEF Store, Typed
  <2> QED BY <1>1, <1>4, <2>1, Known, FlightSwaps, Waiters
<1> QED BY <1>2, <1>5, <1>6, <1>7, <1>8, <1>9 DEF IInv

\* A login that the reload does not find in the row is gone.
LEMMA FlightReloadStep ==
  ASSUME IInv, FlightReload
  PROVE  IInv'
<1>1. /\ flight.pc = "reload"
      /\ UNCHANGED <<stored, issued, live, revocations, reconfigs, caller, mail, operator,
                     loggedOut, rejected, sinceStart>>
  BY DEF FlightReload, upstream, ghosts
<1>2. Rows'
  <2>1. flight' \in FlightRec(0..issued)
    BY <1>1, Known, FlightReloads
  <2>2. abandoned' \in SUBSET (0..issued)
    BY <1>1, Known, FlightReloads DEF Typed
  <2>3. Typed(0..issued) /\ issued' \in Tokens /\ revocations' \in 0..MaxRevocations
        /\ reconfigs' \in 0..MaxReconfigs
    BY <1>1, Known
  <2> QED BY <1>1, <2>1, <2>2, <2>3 DEF Rows, Typed
<1>3. \A l : Candidate(l)' => Candidate(l)
  BY <1>1, Known, FlightReloads DEF Candidate
<1>4. \A t : (Settled(t) => Settled(t)') /\ (Gone(t) => Gone(t)')
  BY <1>1, <1>3, Known, Stays
<1>5. NewLogins'
  BY <1>1, <1>3, <1>4, Known, FlightReloads DEF NewLogins, Settled, Candidate, None
<1>6. LogoutsAreLast'
  BY <1>1, <1>3, <1>4, Known, FlightReloads
     DEF LogoutsAreLast, NewLogins, Gone, Settled, Candidate
<1>7. SessionsInHand'
  BY SMTT(30), <1>1, <1>3, <1>4, Known, FlightReloads DEF SessionsInHand, InHand, None
<1>8. FlightSound'
  BY SMTT(30), <1>1, <1>3, <1>4, Known, FlightReloads
     DEF FlightSound, Justified, NewLogins, Satisfied
<1>9. \A c \in Callers : RequestSound(c)'
  BY <1>1, <1>4, Known, FlightReloads, Waiters
<1> QED BY <1>2, <1>5, <1>6, <1>7, <1>8, <1>9 DEF IInv

\* The login that was replaced is gone, and is retired.
LEMMA FlightConfirmStep ==
  ASSUME IInv, FlightConfirm
  PROVE  IInv'
<1>1. /\ flight.pc = "confirm"
      /\ UNCHANGED <<stored, issued, live, revocations, reconfigs, caller, mail, operator,
                     loggedOut, rejected, sinceStart>>
  BY DEF FlightConfirm, upstream, ghosts
<1>2. Rows'
  <2>1. flight' \in FlightRec(0..issued)
    BY <1>1, Known, FlightConfirms
  <2>2. abandoned' \in SUBSET (0..issued)
    BY <1>1, Known, FlightConfirms DEF Typed
  <2>3. Typed(0..issued) /\ issued' \in Tokens /\ revocations' \in 0..MaxRevocations
        /\ reconfigs' \in 0..MaxReconfigs
    BY <1>1, Known
  <2> QED BY <1>1, <2>1, <2>2, <2>3 DEF Rows, Typed
<1>3. \A l : Candidate(l)' => Candidate(l)
  BY <1>1, Known, FlightConfirms DEF Candidate
<1>4. \A t : (Settled(t) => Settled(t)') /\ (Gone(t) => Gone(t)')
  BY <1>1, <1>3, Known, Stays
<1>5. NewLogins'
  BY <1>1, <1>3, <1>4, Known, FlightConfirms DEF NewLogins, Settled, Candidate, None
<1>6. LogoutsAreLast'
  BY <1>1, <1>3, <1>4, Known, FlightConfirms
     DEF LogoutsAreLast, NewLogins, Gone, Settled, Candidate
<1>7. SessionsInHand'
  BY <1>1, <1>3, <1>4, Known, FlightConfirms DEF SessionsInHand, InHand, None
<1>8. FlightSound'
  BY SMTT(30), <1>1, <1>3, <1>4, Known, FlightConfirms
     DEF FlightSound, Justified, NewLogins, Satisfied
<1>9. \A c \in Callers : RequestSound(c)'
  BY <1>1, <1>4, Known, FlightConfirms, Waiters
<1> QED BY <1>2, <1>5, <1>6, <1>7, <1>8, <1>9 DEF IInv

\* A login found in the row is not logged out.
LEMMA FlightRetireStep ==
  ASSUME IInv, FlightRetire
  PROVE  IInv'
<1>1. /\ flight.pc = "retire"
      /\ UNCHANGED <<stored, issued, live, revocations, reconfigs, caller, mail, operator,
                     loggedOut, rejected, sinceStart>>
  BY DEF FlightRetire, upstream, ghosts
<1>2. Rows'
  <2>1. flight' \in FlightRec(0..issued)
    BY <1>1, Known, FlightRetires
  <2>2. abandoned' \in SUBSET (0..issued)
    BY <1>1, Known, FlightRetires DEF Typed
  <2>3. Typed(0..issued) /\ issued' \in Tokens /\ revocations' \in 0..MaxRevocations
        /\ reconfigs' \in 0..MaxReconfigs
    BY <1>1, Known
  <2> QED BY <1>1, <2>1, <2>2, <2>3 DEF Rows, Typed
<1>3. \A l : Candidate(l)' => Candidate(l)
  BY <1>1, Known, FlightRetires DEF Candidate
<1>4. \A t : (Settled(t) => Settled(t)') /\ (Gone(t) => Gone(t)')
  BY <1>1, <1>3, Known, Stays
<1>5. NewLogins'
  BY <1>1, <1>3, <1>4, Known, FlightRetires DEF NewLogins, Settled, Candidate, None
<1>6. LogoutsAreLast'
  BY <1>1, <1>3, <1>4, Known, FlightRetires
     DEF LogoutsAreLast, NewLogins, Gone, Settled, Candidate
<1>7. SessionsInHand'
  BY <1>1, <1>3, <1>4, Known, FlightRetires DEF SessionsInHand, InHand, None
<1>8. FlightSound'
  BY <1>1, <1>3, <1>4, Known, FlightRetires DEF FlightSound, Justified, NewLogins, Satisfied
<1>9. \A c \in Callers : RequestSound(c)'
  BY <1>1, <1>4, Known, FlightRetires, Waiters
<1> QED BY <1>2, <1>5, <1>6, <1>7, <1>8, <1>9 DEF IInv

\* Only what is gone is logged out.
LEMMA FlightLogoutStep ==
  ASSUME IInv, FlightLogout
  PROVE  IInv'
<1>1. /\ flight.pc = "logout"
      /\ UNCHANGED <<stored, issued, revocations, reconfigs, caller, mail, operator, rejected,
                     sinceStart>>
      /\ \/ /\ live' = live \ {flight.victim} /\ UNCHANGED abandoned
            /\ loggedOut' = loggedOut \cup {flight.victim}
         \/ /\ UNCHANGED <<live, loggedOut>>
            /\ abandoned' = abandoned \cup ({flight.victim} \ {None})
  BY DEF FlightLogout, upstream, ghosts, Logout, Forsake
<1>2. Rows'
  <2>1. flight' \in FlightRec(0..issued)
    BY <1>1, Known, FlightLogsOut
  <2>2. live' \in SUBSET (0..issued)
    BY <1>1, Known, FlightLogsOut DEF Typed
  <2>3. loggedOut' \in SUBSET (0..issued)
    BY <1>1, Known, FlightLogsOut DEF Typed
  <2>4. abandoned' \in SUBSET (0..issued)
    BY <1>1, Known, FlightLogsOut DEF Typed
  <2>5. Typed(0..issued) /\ issued' \in Tokens /\ revocations' \in 0..MaxRevocations
        /\ reconfigs' \in 0..MaxReconfigs
    BY <1>1, Known
  <2> QED BY <1>1, <2>1, <2>2, <2>3, <2>4, <2>5 DEF Rows, Typed
<1>3. \A l : Candidate(l)' => Candidate(l)
  BY <1>1, Known, FlightLogsOut DEF Candidate
<1>4. \A t : (Settled(t) => Settled(t)') /\ (Gone(t) => Gone(t)')
  BY <1>1, <1>3, Known, Stays
<1>5. NewLogins'
  BY <1>1, <1>3, <1>4, Known, FlightLogsOut DEF NewLogins, Settled, Candidate, None
<1>6. LogoutsAreLast'
  BY <1>1, <1>3, <1>4, Known, FlightLogsOut
     DEF LogoutsAreLast, NewLogins, Gone, Settled, Candidate
<1>7. SessionsInHand'
  BY <1>1, <1>3, <1>4, Known, FlightLogsOut DEF SessionsInHand, InHand, None
<1>8. FlightSound'
  BY <1>1, <1>3, <1>4, Known, FlightLogsOut DEF FlightSound, Justified, NewLogins, Satisfied
<1>9. \A c \in Callers : RequestSound(c)'
  BY <1>1, <1>4, Known, FlightLogsOut, Waiters
<1> QED BY <1>2, <1>5, <1>6, <1>7, <1>8, <1>9 DEF IInv

\* The result reaches all who wait for it.
LEMMA FlightReturnStep ==
  ASSUME IInv, FlightReturn
  PROVE  IInv'
<1>1. /\ flight.pc = "return"
      /\ UNCHANGED <<stored, issued, live, revocations, reconfigs, caller, operator, loggedOut,
                     rejected, sinceStart, abandoned>>
  BY DEF FlightReturn, upstream, ghosts
<1>2. Rows'
  <2>1. flight' \in FlightRec(0..issued)
    BY <1>1, Known, FlightReturns
  <2>2. mail' \in [Callers -> MailRec(0..issued)]
    BY <1>1, Known, FlightReturns
  <2>3. Typed(0..issued) /\ issued' \in Tokens /\ revocations' \in 0..MaxRevocations
        /\ reconfigs' \in 0..MaxReconfigs
    BY <1>1, Known
  <2> QED BY <1>1, <2>1, <2>2, <2>3 DEF Rows, Typed
<1>3. \A l : Candidate(l)' => Candidate(l)
  BY <1>1, Known, FlightReturns DEF Candidate
<1>4. \A t : (Settled(t) => Settled(t)') /\ (Gone(t) => Gone(t)')
  BY <1>1, <1>3, Known, Stays
<1>5. NewLogins'
  BY <1>1, <1>3, <1>4, Known, FlightReturns DEF NewLogins, Settled, Candidate, None
<1>6. LogoutsAreLast'
  BY <1>1, <1>3, <1>4, Known, FlightReturns
     DEF LogoutsAreLast, NewLogins, Gone, Settled, Candidate
<1>7. SessionsInHand'
  BY <1>1, <1>3, <1>4, Known, FlightReturns DEF SessionsInHand, InHand, None
<1>8. FlightSound'
  BY <1>1, <1>3, <1>4, Known, FlightReturns DEF FlightSound, Justified, NewLogins, Satisfied
<1>9. \A c \in Callers : RequestSound(c)'
  BY <1>1, <1>4, Known, FlightReturns, Waiters
<1> QED BY <1>2, <1>5, <1>6, <1>7, <1>8, <1>9 DEF IInv

\* From the operator's load on, it may replace what requests were given.
LEMMA OperatorLoadStep ==
  ASSUME IInv, OperatorLoad
  PROVE  IInv'
<1>1. /\ operator.pc = "idle"
      /\ UNCHANGED <<stored, issued, live, revocations, caller, flight, mail, loggedOut,
                     rejected, abandoned>>
      /\ reconfigs < MaxReconfigs /\ reconfigs' = reconfigs + 1
      /\ sinceStart' = [c \in Callers |-> {}]
  BY DEF OperatorLoad, upstream, ghosts
<1>2. Rows'
  <2>1. operator' \in OperatorRec(0..issued)
    BY <1>1, Known, OperatorLoads
  <2>2. sinceStart' \in [Callers -> SUBSET (0..issued)]
    BY <1>1, Known, OperatorLoads DEF Typed
  <2>3. Typed(0..issued)
    BY <1>1, Known
  <2>4. issued' \in Tokens /\ revocations' \in 0..MaxRevocations
        /\ reconfigs' \in 0..MaxReconfigs
    BY SMTT(30), <1>1, Known, UpstreamAuthAssumption
  <2> QED BY <1>1, <2>1, <2>2, <2>3, <2>4 DEF Rows, Typed
<1>3. \A l : Candidate(l)' => Candidate(l)
  BY <1>1, Known, OperatorLoads DEF Candidate
<1>4. \A t : (Settled(t) => Settled(t)') /\ (Gone(t) => Gone(t)')
  BY <1>1, <1>3, Known, Stays
<1>5. NewLogins'
  BY <1>1, <1>3, <1>4, Known, OperatorLoads DEF NewLogins, Settled, Candidate, None
<1>6. LogoutsAreLast'
  BY <1>1, <1>3, <1>4, Known, OperatorLoads
     DEF LogoutsAreLast, NewLogins, Gone, Settled, Candidate
<1>7. SessionsInHand'
  BY <1>1, <1>3, <1>4, Known, OperatorLoads DEF SessionsInHand, InHand, None
<1>8. FlightSound'
  BY SMTT(30), <1>1, <1>3, <1>4, Known, OperatorLoads
     DEF FlightSound, Justified, NewLogins, Satisfied
<1>9. \A c \in Callers : RequestSound(c)'
  BY <1>1, <1>4, Known, OperatorLoads, Waiters
<1> QED BY <1>2, <1>5, <1>6, <1>7, <1>8, <1>9 DEF IInv

\* A login of the operator is a new candidate, or to be logged out, or lost.
LEMMA OperatorProbeStep ==
  ASSUME IInv, OperatorProbe
  PROVE  IInv'
<1>1. /\ operator.pc = "probe"
      /\ UNCHANGED <<stored, revocations, reconfigs, caller, flight, mail, loggedOut, rejected,
                     sinceStart>>
      /\ issued' = issued + 1 /\ live' = live \cup {issued'} /\ issued < MaxLogins
  BY DEF OperatorProbe, upstream, ghosts, Grant
<1>2. Rows'
  <2>1. operator' \in OperatorRec(0..issued')
    BY <1>1, Known, OperatorProbes
  <2>2. live' \in SUBSET (0..issued')
    BY <1>1, Known, OperatorProbes DEF Typed
  <2>3. abandoned' \in SUBSET (0..issued')
    BY <1>1, Known, OperatorProbes DEF Typed
  <2>4. Typed(0..issued')
    BY <1>1, Known
  <2>5. issued' \in Tokens /\ revocations' \in 0..MaxRevocations
        /\ reconfigs' \in 0..MaxReconfigs
    BY <1>1, Known, UpstreamAuthAssumption DEF Tokens, Logins, None
  <2> QED BY <1>1, <2>1, <2>2, <2>3, <2>4, <2>5 DEF Rows, Typed
<1>3. \A l : Candidate(l)' => Candidate(l) \/ l \notin 0..issued
  BY SMTT(30), <1>1, Known, OperatorProbes DEF Candidate
<1>4. \A t : (Settled(t) => Settled(t)') /\ (Gone(t) => Gone(t)')
  BY <1>1, <1>3, Known, Stays
<1>5. NewLogins'
  <2>1. flight.login # issued' /\ issued' # None /\ issued' # stored /\ issued' \in 0..issued'
    BY <1>1, Known DEF None
  <2> QED BY <1>1, <1>3, <1>4, <2>1, Known, OperatorProbes
         DEF NewLogins, Settled, Candidate, None
<1>6. LogoutsAreLast'
  <2>1. flight.login # issued' /\ issued' # None /\ issued' # stored /\ issued' \in 0..issued'
    BY <1>1, Known DEF None
  <2> QED BY <1>1, <1>3, <1>4, <2>1, Known, OperatorProbes
             DEF LogoutsAreLast, NewLogins, Gone, Settled, Candidate
<1>7. SessionsInHand'
  BY SMTT(30), <1>1, <1>3, <1>4, Known, OperatorProbes DEF SessionsInHand, InHand, None
<1>8. FlightSound'
  BY <1>1, <1>3, <1>4, Known, OperatorProbes
     DEF FlightSound, Justified, NewLogins, Satisfied
<1>9. \A c \in Callers : RequestSound(c)'
  BY <1>1, <1>4, Known, OperatorProbes, Waiters
<1> QED BY <1>2, <1>5, <1>6, <1>7, <1>8, <1>9 DEF IInv

\* A probe that is refused changes only the operator.
LEMMA OperatorProbeFailsStep ==
  ASSUME IInv, OperatorProbeFails
  PROVE  IInv'
<1>1. /\ operator.pc = "probe"
      /\ UNCHANGED <<stored, issued, live, revocations, reconfigs, caller, flight, mail,
                     loggedOut, rejected, sinceStart, abandoned>>
      /\ operator' = NoOperation
  BY DEF OperatorProbeFails, upstream, ghosts
<1>2. Rows'
  <2>1. operator' \in OperatorRec(0..issued)
    BY <1>1, Known, NoOperationType
  <2>2. Typed(0..issued) /\ issued' \in Tokens /\ revocations' \in 0..MaxRevocations
        /\ reconfigs' \in 0..MaxReconfigs
    BY <1>1, Known
  <2> QED BY <1>1, <2>1, <2>2 DEF Rows, Typed
<1>3. \A l : Candidate(l)' => Candidate(l)
  BY <1>1, Known, NoOperationType DEF Candidate
<1>4. \A t : (Settled(t) => Settled(t)') /\ (Gone(t) => Gone(t)')
  BY <1>1, <1>3, Known, Stays
<1>5. NewLogins'
  BY <1>1, <1>3, <1>4, Known, NoOperationType DEF NewLogins, Settled, Candidate, None
<1>6. LogoutsAreLast'
  BY <1>1, <1>3, <1>4, Known, NoOperationType
     DEF LogoutsAreLast, NewLogins, Gone, Settled, Candidate
<1>7. SessionsInHand'
  BY <1>1, <1>3, <1>4, Known, NoOperationType DEF SessionsInHand, InHand, None
<1>8. FlightSound'
  BY <1>1, <1>3, <1>4, Known, NoOperationType
     DEF FlightSound, Justified, NewLogins, Satisfied
<1>9. \A c \in Callers : RequestSound(c)'
  BY <1>1, <1>4, Known, NoOperationType, Waiters
<1> QED BY <1>2, <1>5, <1>6, <1>7, <1>8, <1>9 DEF IInv

\* A commit puts a candidate in the row, and what it replaces is gone.
LEMMA OperatorCommitStep ==
  ASSUME IInv, OperatorCommit
  PROVE  IInv'
<1>1. /\ operator.pc = "commit"
      /\ UNCHANGED <<issued, live, revocations, reconfigs, caller, flight, mail, loggedOut,
                     rejected>>
  BY DEF OperatorCommit, upstream, ghosts
<1>2. Rows'
  <2>1. operator' \in OperatorRec(0..issued)
    BY <1>1, Known, OperatorCommits
  <2>2. stored' \in 0..issued
    BY <1>1, Known, OperatorCommits DEF Typed, Store
  <2>3. sinceStart' \in [Callers -> SUBSET (0..issued)]
    BY <1>1, Known, OperatorCommits DEF Typed, Store
  <2>4. abandoned' \in SUBSET (0..issued)
    BY <1>1, Known, OperatorCommits DEF Typed
  <2>5. Typed(0..issued) /\ issued' \in Tokens /\ revocations' \in 0..MaxRevocations
        /\ reconfigs' \in 0..MaxReconfigs
    BY <1>1, Known
  <2> QED BY <1>1, <2>1, <2>2, <2>3, <2>4, <2>5 DEF Rows, Typed
<1>3. \A l : Candidate(l)' => Candidate(l)
  BY <1>1, Known, OperatorCommits DEF Candidate
<1>4. \A t : (Settled(t) => Settled(t)') /\ (Gone(t) => Gone(t)')
  <2>1. PICK l : stored' = l /\ (l = stored \/ Candidate(l))
    BY <1>1, Known, OperatorCommits DEF Candidate, Store
  <2> QED BY <1>1, <1>3, <2>1, Stays
<1>5. NewLogins'
  BY <1>1, <1>3, <1>4, Known, OperatorCommits DEF NewLogins, Settled, Candidate, None, Store
<1>6. LogoutsAreLast'
  BY <1>1, <1>3, <1>4, Known, OperatorCommits
     DEF LogoutsAreLast, NewLogins, Gone, Settled, Candidate, Store
<1>7. SessionsInHand'
  BY <1>1, <1>3, <1>4, Known, OperatorCommits DEF SessionsInHand, InHand, None, Store
<1>8. FlightSound'
  BY <1>1, <1>3, <1>4, Known, OperatorCommits
     DEF FlightSound, Justified, NewLogins, Satisfied
<1>9. \A c \in Callers : RequestSound(c)'
  <2>1. reconfigs' = 0 => \A c \in Callers :
          /\ sinceStart[c] \subseteq sinceStart'[c]
          /\ stored' = stored \/ stored' \in sinceStart'[c]
               \/ caller[c].pc \notin {"load", "join", "wait"}
    BY <1>1, Known, OperatorCommits DEF Store, Typed
  <2> QED BY <1>1, <1>4, <2>1, Known, OperatorCommits, Waiters
<1> QED BY <1>2, <1>5, <1>6, <1>7, <1>8, <1>9 DEF IInv

\* A new login that is not in the row is gone, and logged out.
LEMMA OperatorCleanupStep ==
  ASSUME IInv, OperatorCleanup
  PROVE  IInv'
<1>1. /\ operator.pc = "cleanup"
      /\ UNCHANGED <<stored, issued, live, revocations, reconfigs, caller, flight, mail,
                     loggedOut, rejected, sinceStart>>
  BY DEF OperatorCleanup, upstream, ghosts
<1>2. Rows'
  <2>1. operator' \in OperatorRec(0..issued)
    BY <1>1, Known, OperatorLetsGo
  <2>2. abandoned' \in SUBSET (0..issued)
    BY SMTT(30), <1>1, Known, OperatorLetsGo DEF Typed
  <2>3. Typed(0..issued) /\ issued' \in Tokens /\ revocations' \in 0..MaxRevocations
        /\ reconfigs' \in 0..MaxReconfigs
    BY <1>1, Known
  <2> QED BY <1>1, <2>1, <2>2, <2>3 DEF Rows, Typed
<1>3. \A l : Candidate(l)' => Candidate(l)
  BY <1>1, Known, OperatorLetsGo DEF Candidate
<1>4. \A t : (Settled(t) => Settled(t)') /\ (Gone(t) => Gone(t)')
  BY <1>1, <1>3, Known, Stays
<1>5. NewLogins'
  BY <1>1, <1>3, <1>4, Known, OperatorLetsGo DEF NewLogins, Settled, Candidate, None
<1>6. LogoutsAreLast'
  BY <1>1, <1>3, <1>4, Known, OperatorLetsGo
     DEF LogoutsAreLast, NewLogins, Gone, Settled, Candidate
<1>7. SessionsInHand'
  BY <1>1, <1>3, <1>4, Known, OperatorLetsGo DEF SessionsInHand, InHand, None
<1>8. FlightSound'
  BY <1>1, <1>3, <1>4, Known, OperatorLetsGo
     DEF FlightSound, Justified, NewLogins, Satisfied
<1>9. \A c \in Callers : RequestSound(c)'
  BY <1>1, <1>4, Known, OperatorLetsGo, Waiters
<1> QED BY <1>2, <1>5, <1>6, <1>7, <1>8, <1>9 DEF IInv

\* A replaced login that is not in the row is gone, and logged out.
LEMMA OperatorRetireStep ==
  ASSUME IInv, OperatorRetire
  PROVE  IInv'
<1>1. /\ operator.pc = "retire"
      /\ UNCHANGED <<stored, issued, live, revocations, reconfigs, caller, flight, mail,
                     loggedOut, rejected, sinceStart>>
  BY DEF OperatorRetire, upstream, ghosts
<1>2. Rows'
  <2>1. operator' \in OperatorRec(0..issued)
    BY <1>1, Known, OperatorLetsGo
  <2>2. abandoned' \in SUBSET (0..issued)
    BY SMTT(30), <1>1, Known, OperatorLetsGo DEF Typed
  <2>3. Typed(0..issued) /\ issued' \in Tokens /\ revocations' \in 0..MaxRevocations
        /\ reconfigs' \in 0..MaxReconfigs
    BY <1>1, Known
  <2> QED BY <1>1, <2>1, <2>2, <2>3 DEF Rows, Typed
<1>3. \A l : Candidate(l)' => Candidate(l)
  BY <1>1, Known, OperatorLetsGo DEF Candidate
<1>4. \A t : (Settled(t) => Settled(t)') /\ (Gone(t) => Gone(t)')
  BY <1>1, <1>3, Known, Stays
<1>5. NewLogins'
  BY <1>1, <1>3, <1>4, Known, OperatorLetsGo DEF NewLogins, Settled, Candidate, None
<1>6. LogoutsAreLast'
  BY <1>1, <1>3, <1>4, Known, OperatorLetsGo
     DEF LogoutsAreLast, NewLogins, Gone, Settled, Candidate
<1>7. SessionsInHand'
  BY <1>1, <1>3, <1>4, Known, OperatorLetsGo DEF SessionsInHand, InHand, None
<1>8. FlightSound'
  BY <1>1, <1>3, <1>4, Known, OperatorLetsGo
     DEF FlightSound, Justified, NewLogins, Satisfied
<1>9. \A c \in Callers : RequestSound(c)'
  BY <1>1, <1>4, Known, OperatorLetsGo, Waiters
<1> QED BY <1>2, <1>5, <1>6, <1>7, <1>8, <1>9 DEF IInv

\* Only what is gone is logged out.
LEMMA OperatorLogoutStep ==
  ASSUME IInv, OperatorLogout
  PROVE  IInv'
<1>1. /\ operator.pc = "logout"
      /\ UNCHANGED <<stored, issued, revocations, reconfigs, caller, flight, mail, rejected,
                     sinceStart>>
      /\ \/ /\ live' = live \ {operator.victim} /\ UNCHANGED abandoned
            /\ loggedOut' = loggedOut \cup {operator.victim}
         \/ /\ UNCHANGED <<live, loggedOut>>
            /\ abandoned' = abandoned \cup ({operator.victim} \ {None})
      /\ operator' = NoOperation
  BY DEF OperatorLogout, upstream, ghosts, Logout, Forsake
<1>2. Rows'
  <2>1. operator' \in OperatorRec(0..issued)
    BY <1>1, Known, NoOperationType
  <2>2. live' \in SUBSET (0..issued)
    BY <1>1, Known, NoOperationType DEF Typed
  <2>3. loggedOut' \in SUBSET (0..issued)
    BY <1>1, Known, NoOperationType DEF Typed
  <2>4. abandoned' \in SUBSET (0..issued)
    BY <1>1, Known, NoOperationType DEF Typed
  <2>5. Typed(0..issued) /\ issued' \in Tokens /\ revocations' \in 0..MaxRevocations
        /\ reconfigs' \in 0..MaxReconfigs
    BY <1>1, Known
  <2> QED BY <1>1, <2>1, <2>2, <2>3, <2>4, <2>5 DEF Rows, Typed
<1>3. \A l : Candidate(l)' => Candidate(l)
  BY <1>1, Known, NoOperationType DEF Candidate
<1>4. \A t : (Settled(t) => Settled(t)') /\ (Gone(t) => Gone(t)')
  BY <1>1, <1>3, Known, Stays
<1>5. NewLogins'
  BY <1>1, <1>3, <1>4, Known, NoOperationType DEF NewLogins, Settled, Candidate, None
<1>6. LogoutsAreLast'
  BY <1>1, <1>3, <1>4, Known, NoOperationType
     DEF LogoutsAreLast, NewLogins, Gone, Settled, Candidate
<1>7. SessionsInHand'
  BY <1>1, <1>3, <1>4, Known, NoOperationType DEF SessionsInHand, InHand, None
<1>8. FlightSound'
  BY <1>1, <1>3, <1>4, Known, NoOperationType
     DEF FlightSound, Justified, NewLogins, Satisfied
<1>9. \A c \in Callers : RequestSound(c)'
  BY <1>1, <1>4, Known, NoOperationType, Waiters
<1> QED BY <1>2, <1>5, <1>6, <1>7, <1>8, <1>9 DEF IInv

\* A token that is revoked is no session of the gateway's any more.
LEMMA RevokeStep ==
  ASSUME IInv, Revoke
  PROVE  IInv'
<1>1. /\ UNCHANGED <<stored, issued, reconfigs, caller, flight, mail, operator, loggedOut,
                     rejected, sinceStart, abandoned>>
      /\ revocations < MaxRevocations /\ revocations' = revocations + 1
      /\ live' \subseteq live
  BY DEF Revoke, upstream, ghosts
<1>2. Rows'
  <2>1. live' \in SUBSET (0..issued)
    BY <1>1, Known DEF Typed
  <2>2. Typed(0..issued)
    BY <1>1, Known
  <2>3. issued' \in Tokens /\ revocations' \in 0..MaxRevocations
        /\ reconfigs' \in 0..MaxReconfigs
    BY SMTT(30), <1>1, Known, UpstreamAuthAssumption
  <2> QED BY <1>1, <2>1, <2>2, <2>3 DEF Rows, Typed
<1>3. \A l : Candidate(l)' => Candidate(l)
  BY <1>1, Known DEF Candidate
<1>4. \A t : (Settled(t) => Settled(t)') /\ (Gone(t) => Gone(t)')
  BY <1>1, <1>3, Known, Stays
<1>5. NewLogins'
  BY <1>1, <1>3, <1>4, Known DEF NewLogins, Settled, Candidate, None
<1>6. LogoutsAreLast'
  BY <1>1, <1>3, <1>4, Known DEF LogoutsAreLast, NewLogins, Gone, Settled, Candidate
<1>7. SessionsInHand'
  BY <1>1, <1>3, <1>4, Known DEF SessionsInHand, InHand, None
<1>8. FlightSound'
  BY <1>1, <1>3, <1>4, Known DEF FlightSound, Justified, NewLogins, Satisfied
<1>9. \A c \in Callers : RequestSound(c)'
  BY <1>1, <1>4, Known, Waiters
<1> QED BY <1>2, <1>5, <1>6, <1>7, <1>8, <1>9 DEF IInv


-----------------------------------------------------------------------------
(* The invariants *)

\* What holds when the gateway starts, with a stored login or none.
THEOREM Initially == Init => IInv
<1> SUFFICES ASSUME Init PROVE IInv
  OBVIOUS
<1> DEFINE N == 0..issued
<1>1. /\ issued \in Tokens /\ issued \in Nat /\ stored = issued /\ stored \in N /\ None \in N
      /\ live \in SUBSET (N \ {None}) /\ live \subseteq {stored}
      /\ loggedOut = {} /\ rejected = {} /\ abandoned = {}
  BY UpstreamAuthAssumption DEF Init, Tokens, Logins, None
<1>2. revocations \in 0..MaxRevocations /\ reconfigs \in 0..MaxReconfigs
  BY UpstreamAuthAssumption DEF Init
<1> HIDE DEF N
<1>3. /\ caller \in [Callers -> CallerRec(N)]
      /\ \A c \in Callers : caller[c].pc = "idle"
  <2> DEFINE fresh(o) == [pc |-> "idle", token |-> None, failed |-> None, probing |-> None,
                          retried |-> FALSE, left |-> FALSE, other |-> o]
  <2>1. \A o \in BOOLEAN : fresh(o) \in CallerRec(N) /\ fresh(o).pc = "idle"
    BY <1>1 DEF CallerRec
  <2>2. caller \in [Callers -> {fresh(o) : o \in BOOLEAN}]
    BY DEF Init
  <2> HIDE DEF fresh
  <2> QED BY <2>1, <2>2
<1>4. flight \in FlightRec(N) /\ flight.pc = "none" /\ flight.login = None
  BY <1>1 DEF Init, NoFlight, NoMail, FlightRec, Kinds
<1>5. /\ mail \in [Callers -> MailRec(N)]
      /\ \A c \in Callers : mail[c] = NoMail /\ mail[c].kind = "none"
  BY <1>1 DEF Init, NoMail, MailRec, Kinds
<1>6. operator \in OperatorRec(N) /\ operator.pc = "idle"
  BY <1>1 DEF Init, OperatorRec
<1>7. sinceStart \in [Callers -> SUBSET N]
  BY DEF Init
<1>8. Typed(N)
  BY <1>1, <1>3, <1>4, <1>5, <1>6, <1>7 DEF Typed
<1>9. NewLogins
  BY <1>1, <1>4, <1>6 DEF NewLogins, Settled, Candidate, N
<1>10. LogoutsAreLast
  BY <1>1, <1>4, <1>6 DEF LogoutsAreLast
<1>11. SessionsInHand
  BY <1>1, <1>4, <1>6 DEF SessionsInHand
<1>12. FlightSound
  BY <1>4, <1>6 DEF FlightSound
<1>13. \A c \in Callers : RequestSound(c)
  BY <1>3, <1>5 DEF RequestSound
<1>14. Rows
  BY <1>1, <1>2, <1>8 DEF Rows, N
<1> QED BY <1>9, <1>10, <1>11, <1>12, <1>13, <1>14 DEF IInv

\* No step of a request, of a flight, of the operator or of the upstream breaks the
\* invariant, in whatever order they come and wherever one of them stops.
THEOREM Inductive == IInv /\ [Next]_vars => IInv'
<1> SUFFICES ASSUME IInv, [Next]_vars PROVE IInv'
  OBVIOUS
<1>1. CASE UNCHANGED vars
  <2>1. UNCHANGED <<stored, issued, live, revocations, reconfigs, caller, flight, mail,
                    operator, loggedOut, rejected, sinceStart, abandoned>>
    BY <1>1 DEF vars
  <2>2. \A t : /\ Settled(t)' <=> Settled(t)
               /\ Gone(t)' <=> Gone(t)
               /\ Justified(t)' <=> Justified(t)
    BY <2>1 DEF Justified, Gone, Settled, Candidate
  <2>3. Rows' /\ NewLogins' /\ LogoutsAreLast' /\ SessionsInHand'
    BY <2>1, <2>2 DEF IInv, Rows, Typed, NewLogins, LogoutsAreLast, SessionsInHand, InHand
  <2>4. FlightSound' /\ \A c \in Callers : RequestSound(c)'
    BY <2>1, <2>2 DEF IInv, FlightSound, RequestSound
  <2> QED BY <2>3, <2>4 DEF IInv
<1>2. CASE Flight
  BY <1>2, FlightLoadStep, FlightLoginStep, FlightLoginFailsStep, FlightCheckStep,
     FlightSwapStep, FlightReloadStep, FlightConfirmStep, FlightRetireStep,
     FlightLogoutStep, FlightReturnStep DEF Flight
<1>3. CASE Operator
  BY <1>3, OperatorLoadStep, OperatorProbeStep, OperatorProbeFailsStep, OperatorCommitStep,
     OperatorCleanupStep, OperatorRetireStep, OperatorLogoutStep DEF Operator
<1> QED BY <1>1, <1>2, <1>3, RevokeStep, RequestStep DEF Next

\* The gateway's login keeps its invariant for ever.
THEOREM Invariance == Spec => []IInv
<1>1. Init => IInv
  BY Initially
<1>2. IInv /\ [Next]_vars => IInv'
  BY Inductive
<1> QED BY <1>1, <1>2, PTL DEF Spec

\* A login in the row is never one that lead or ReconfigureUpstream logged out, whatever
\* swaps, reloads and cleanups of the two run at once or fail half way (retireOld,
\* cleanupInvocation, cleanupInvocationToken).
THEOREM StoredIsNeverLoggedOut == Spec => []StoredNeverLoggedOut
<1>1. IInv => StoredNeverLoggedOut
  BY DEF IInv, LogoutsAreLast, Gone, StoredNeverLoggedOut
<1> QED BY <1>1, Invariance, PTL

\* A request gets no login it reported as expired and, while the operator keeps out,
\* none that was replaced before it asked (upstreamAuth.run, upstreamAuthSatisfied).
THEOREM HandedOutIsAlwaysFresh == Spec => []HandedOutIsFresh
<1>1. IInv => HandedOutIsFresh
  BY DEF IInv, RequestSound, HandedOutIsFresh
<1> QED BY <1>1, Invariance, PTL

\* No path of lead and of ReconfigureUpstream forgets a session it opened or replaced.
THEOREM TokensAreAlwaysAccounted == Spec => []TokensAccounted
<1>1. IInv => TypeOK
  <2> SUFFICES ASSUME IInv PROVE TypeOK
    OBVIOUS
  <2>1. Rows /\ Typed(0..issued) /\ issued \in Nat
    BY Known DEF IInv, Rows
  <2> QED BY <2>1 DEF Rows, Typed, TypeOK, CallerRec, FlightRec, MailRec, OperatorRec
<1>2. IInv => TokensAccounted
  BY <1>1 DEF IInv, SessionsInHand, InHand, TokensAccounted
<1> QED BY <1>2, Invariance, PTL

\* A request that waits has a flight to wait for or an answer to read, and an answer is
\* read by nobody else (flights.DoChan, upstreamAuth.run).
THEOREM AnswersForEveryWait == Spec => []AnswerForEveryWait
<1>1. IInv => AnswerForEveryWait
  BY DEF IInv, RequestSound, AnswerForEveryWait
<1> QED BY <1>1, Invariance, PTL

\* A flight replaces only a login that a probe saw rejected, and neither it nor the
\* operator overwrites a login stored after its own read (CompareAndSwapUpstreamAuth).
THEOREM SwapsAlwaysJustified == Spec => SwapsJustified
<1>1. ASSUME IInv, [Next]_vars, stored' # stored
      PROVE  \/ /\ FlightSwap /\ stored' = flight.login /\ stored = flight.base
                /\ flight.pc = "swap"
             \/ /\ OperatorCommit /\ stored' = operator.login /\ stored = operator.base
                /\ operator.pc = "commit"
  <2>1. FlightSwap \/ OperatorCommit
    BY <1>1 DEF Next, Flight, Operator, Request, vars, upstream, ghosts, Revoke, FlightLoad,
       FlightLogin, FlightLoginFails, FlightCheck, FlightReload, FlightConfirm, FlightRetire,
       FlightLogout, FlightReturn, OperatorLoad, OperatorProbe, OperatorProbeFails,
       OperatorCleanup, OperatorRetire, OperatorLogout, Ensure, Load, Join, Leave, Abandon,
       Receive, Use, Confirm, Expired, Healthy, NoAnswer
  <2> QED BY <1>1, <2>1 DEF FlightSwap, OperatorCommit, Store, KeepStored
<1>2. IInv /\ [Next]_vars => (stored' # stored /\ stored' = flight.login
                                => stored \in rejected \cup {None})
  <2> SUFFICES ASSUME IInv, [Next]_vars, stored' # stored, stored' = flight.login
               PROVE  stored \in rejected \cup {None}
    OBVIOUS
  <2>1. stored = flight.base /\ flight.pc = "swap"
    BY <1>1 DEF IInv, NewLogins
  <2> QED BY <2>1 DEF IInv, FlightSound, Justified, Gone
<1>3. IInv /\ [Next]_vars => (stored' # stored =>
        stored = IF stored' = flight.login THEN flight.base ELSE operator.base)
  BY <1>1 DEF IInv, NewLogins
<1> QED BY <1>2, <1>3, Invariance, PTL
        DEF Spec, SwapsJustified, ReplacedOnlyIfRejected, NoLostUpdate
===============================================================================
