----------------------------- MODULE SourceAccess -----------------------------
(* The media gate: copies and the sources of conversions share it, a           *)
(* reconfiguration of the upstream takes it alone; endpoints are edited and    *)
(* logins renewed without it.  One access to an item, with the runs of FFmpeg  *)
(* that read it through audioSourceAccess.open: what binds a run to the        *)
(* upstream the access was made with, and to the version the other runs read.  *)
EXTENDS Integers, FiniteSets

CONSTANTS
  Runs, Copies,       \* readers of the source, and other copies of media
  Users,              \* user ids a login upstream may answer with
  Bases,              \* base URLs the access's endpoint may have
  First,              \* the user and base the access was made with
  Versions,           \* validators the item has upstream, 0 for none
  MaxOpens, MaxTurns, \* bounds: transfers begun; changes from outside
  Nothing

VARIABLES
  upstream,   \* the stored login's user, the endpoint's base, and how often it was configured
  active,     \* whether the session still is
  version,    \* the item's validator upstream at the moment
  reference,  \* audioSourceAccess: the revision of its reference
  etag,       \* and the validator it has seen
  run,        \* the transfers: where they are, and what they hold
  writer,     \* the reconfiguration: "none", "waiting" for the gate or "held"
  opens, turns

vars == <<upstream, active, version, reference, etag, run, writer, opens, turns>>

\* A run is no copy, and an item may come without a validator.  Nothing is no base:
\* the endpoint is gone, disabled or has another key.
Assumption ==
  /\ Runs \cap Copies = {} /\ 0 \in Versions
  /\ First \in [user : Users, base : Bases] /\ Nothing \notin Bases

Readers == Runs \cup Copies
Idle == [pc |-> "idle", holds |-> 0, of |-> Nothing, renewed |-> FALSE, attempt |-> 0,
         revision |-> 0, refused |-> Nothing, etag |-> Nothing]

Init ==
  /\ upstream = [user |-> First.user, base |-> First.base, configured |-> 0]
  /\ active = TRUE
  /\ version \in Versions
  /\ reference = 0 /\ etag = 0
  /\ run = [r \in Readers |-> Idle]
  /\ writer = "none"
  /\ opens = 0 /\ turns = 0

-----------------------------------------------------------------------------
(* The gate, a sync.RWMutex: a writer that waits keeps new readers out *)

Held == {r \in Readers : run[r].holds > 0}
ReadersMayEnter == writer = "none"

\* The deferred release of open, and Close of the body, which does it once.
Released(r) == run' = [run EXCEPT ![r] = Idle]
Step(r, pc) == run' = [run EXCEPT ![r].pc = pc]

Turn == turns < MaxTurns /\ turns' = turns + 1
Others == <<upstream, active, version, writer, opens, turns>>

\* beginMediaCopy, which is where open begins and where a copy does, whose upstream
\* was chosen long before.
Begin(r) ==
  /\ run[r].pc = "idle" /\ opens < MaxOpens
  /\ opens' = opens + 1
  /\ Step(r, "gate")
  /\ UNCHANGED <<upstream, active, version, reference, etag, writer, turns>>

Enter(r) ==
  /\ run[r].pc = "gate" /\ ReadersMayEnter
  /\ run' = [run EXCEPT ![r].pc = IF r \in Copies THEN "open" ELSE "snapshot",
                        ![r].holds = @ + 1]
  /\ UNCHANGED <<Others, reference, etag>>

\* snapshot: the session, a token, and the binding to the user and the base.
Bound_Faulty(up) == active
Bound(up) == active /\ up.user = First.user /\ up.base = First.base
Snapshot(r) ==
  /\ run[r].pc = "snapshot"
  /\ IF Bound(upstream) THEN run' = [run EXCEPT ![r].pc = "attempt", ![r].of = upstream]
     ELSE Released(r)
  /\ UNCHANGED <<Others, reference, etag>>

NoToken(r) ==
  /\ run[r].pc = "snapshot"
  /\ Released(r)
  /\ UNCHANGED <<Others, reference, etag>>

-----------------------------------------------------------------------------
(* An attempt; there are two, and a reference about to run out costs one *)

NextAttempt_Faulty(r, revision) ==
  [run EXCEPT ![r].pc = "gate", ![r].attempt = 1, ![r].refused = revision]
NextAttempt(r, revision) ==
  [run EXCEPT ![r].pc = "attempt", ![r].attempt = 1, ![r].refused = revision]

\* The reference is read, and a URL that does not fit or that the path policy
\* denies ends the transfer.
Attempt(r) ==
  /\ run[r].pc = "attempt"
  /\ run' = [run EXCEPT ![r].pc = "sent", ![r].revision = reference]
  /\ UNCHANGED <<Others, reference, etag>>

Denied(r) ==
  /\ run[r].pc = "attempt"
  /\ Released(r)
  /\ UNCHANGED <<Others, reference, etag>>

\* Its expiry is near, or the upstream answers 403: in the first attempt the
\* reference is fetched anew.
Refused(r) ==
  /\ run[r].pc = "sent" /\ run[r].attempt = 0
  /\ Step(r, "refresh")
  /\ UNCHANGED <<Others, reference, etag>>

\* It answers 401, and the login is renewed, by whoever is first and perhaps as
\* another user.  The run goes on with what its endpoint then is, unchecked.
Renewed(user) == [upstream EXCEPT !.user = user]
Unauthorized(r, user) ==
  /\ run[r].pc = "sent" /\ run[r].attempt = 0
  /\ upstream.base # Nothing
  /\ upstream' = Renewed(user)
  /\ run' = [run EXCEPT ![r].pc = "refresh", ![r].of = Renewed(user), ![r].renewed = TRUE]
  /\ UNCHANGED <<active, version, writer, opens, turns, reference, etag>>

\* It joins the login of a request that began earlier, whose answer may be what was
\* stored before the last changes: Nothing says that it may be of any upstream there was.
UnauthorizedJoins(r) ==
  /\ run[r].pc = "sent" /\ run[r].attempt = 0
  /\ run' = [run EXCEPT ![r].pc = "refresh", ![r].of = Nothing, ![r].renewed = TRUE]
  /\ UNCHANGED <<Others, reference, etag>>

\* refresh: only the first of those that were refused with the same reference
\* asks; the others find another one.  The lock is held meanwhile.
Refreshed_Faulty(revision) == reference
Refreshed(revision) == IF revision = reference THEN reference + 1 ELSE reference
Refresh(r) ==
  /\ run[r].pc = "refresh"
  /\ reference' = Refreshed(run[r].revision)
  /\ run' = NextAttempt(r, run[r].revision)
  /\ UNCHANGED <<Others, etag>>

\* A source of another size, or none; a response that does not fit or fails; a
\* 401 after which no login or no endpoint is to be had.
Fails(r) ==
  /\ \/ run[r].pc = "sent"
     \/ run[r].pc = "refresh" /\ run[r].revision = reference
  /\ Released(r)
  /\ UNCHANGED <<Others, reference, etag>>

\* The response's validator against the one seen before, under the lock; one of
\* them may be missing.
Seen_Faulty(v) == etag
Seen(v) == IF etag = 0 THEN v ELSE etag
Responds(r) ==
  /\ run[r].pc = "sent"
  /\ IF etag # 0 /\ version # 0 /\ etag # version
     THEN Released(r) /\ UNCHANGED etag
     ELSE /\ etag' = Seen(version)
          /\ run' = [run EXCEPT ![r].pc = "open", ![r].etag = version]
  /\ UNCHANGED <<Others, reference>>

\* audioSourceBody.Close, or the end of a copy (endMediaCopy).
Close(r) ==
  /\ run[r].pc = "open"
  /\ Released(r)
  /\ UNCHANGED <<Others, reference, etag>>

-----------------------------------------------------------------------------
(* A reconfiguration *)

\* acquireReconfigure: without force, conversions and copies turn it away.
HasActiveWork == \E r \in Runs : run[r].pc # "idle"

Acquire(force) ==
  /\ writer = "none" /\ Turn
  /\ writer' = IF force THEN "waiting"
               ELSE IF HasActiveWork \/ Held # {} THEN "none" ELSE "held"
  /\ UNCHANGED <<upstream, active, version, reference, etag, run, opens>>

Locked ==
  /\ writer = "waiting" /\ Held = {}
  /\ writer' = "held"
  /\ UNCHANGED <<upstream, active, version, reference, etag, run, opens, turns>>

\* handleUpstreamReconfigure: another login, and another base when the endpoint is
\* the default one; a failure leaves the upstream.  The deferred release follows.
Reconfigure ==
  /\ writer = "held"
  /\ \/ \E u \in Users, b \in Bases \cup {upstream.base} :
          upstream' = [user |-> u, base |-> b, configured |-> upstream.configured + 1]
     \/ UNCHANGED upstream
  /\ writer' = "none"
  /\ UNCHANGED <<active, version, reference, etag, run, opens, turns>>

\* handleCreateEndpoint, handleUpdateEndpoint and handleDeleteEndpoint take no gate,
\* and neither do the logins of other requests.
EndpointEdited(base) ==
  /\ base # upstream.base /\ Turn
  /\ upstream' = [upstream EXCEPT !.base = base]
  /\ UNCHANGED <<active, version, reference, etag, run, writer, opens>>

LoginRenewed(user) ==
  /\ user # upstream.user /\ Turn
  /\ upstream' = Renewed(user)
  /\ UNCHANGED <<active, version, reference, etag, run, writer, opens>>

SessionEnds ==
  /\ active /\ Turn
  /\ active' = FALSE
  /\ UNCHANGED <<upstream, version, reference, etag, run, writer, opens>>

ItemChanges ==
  /\ Turn
  /\ version' \in Versions \ {version}
  /\ UNCHANGED <<upstream, active, reference, etag, run, writer, opens>>

Transfer(r) ==
  \/ Begin(r) \/ Enter(r) \/ Close(r)
  \/ Snapshot(r) \/ NoToken(r) \/ Attempt(r) \/ Denied(r)
  \/ Refused(r) \/ Refresh(r) \/ Fails(r) \/ Responds(r)
  \/ \E u \in Users : Unauthorized(r, u)
  \/ UnauthorizedJoins(r)

Next ==
  \/ \E r \in Readers : Transfer(r)
  \/ \E force \in BOOLEAN : Acquire(force)
  \/ Locked \/ Reconfigure \/ SessionEnds \/ ItemChanges
  \/ \E b \in Bases \cup {Nothing} : EndpointEdited(b)
  \/ \E u \in Users : LoginRenewed(u)

Spec == Init /\ [][Next]_vars

-----------------------------------------------------------------------------
(* Properties *)

TypeOK ==
  /\ upstream \in [user : Users, base : Bases \cup {Nothing}, configured : Nat]
  /\ version \in Versions /\ etag \in Versions
  /\ writer \in {"none", "waiting", "held"}
  /\ \A r \in Readers : run[r].holds \in 0..2 /\ run[r].revision <= reference

\* The reconfiguration is alone, so that none comes between a run's look at the
\* upstream and the end of its read: what it sends and reads is of the configuration
\* in use, unless it joined an earlier login after a 401.  It is of the user and base
\* the access was made with, however endpoints and logins change after the look,
\* unless a 401 made the run look again.
BoundToUpstream ==
  /\ writer = "held" => Held = {}
  /\ \A r \in Runs : run[r].pc \in {"attempt", "sent", "refresh", "open"} =>
       /\ run[r].of # Nothing => run[r].of.configured = upstream.configured
       /\ ~run[r].renewed => run[r].of.user = First.user /\ run[r].of.base = First.base

\* Runs of one access never read two versions of the item.
OneVersion ==
  \A r, o \in Runs :
    {run[r].pc, run[o].pc} = {"open"} /\ run[r].etag # 0 /\ run[o].etag # 0 =>
      run[r].etag = run[o].etag /\ run[r].etag = etag

\* A second attempt is made with another reference than the one refused.
NewReference ==
  \A r \in Runs : run[r].pc = "sent" /\ run[r].attempt = 1 => run[r].revision > run[r].refused

\* Whoever waits for the gate waits for a transfer that does not wait for it: a
\* run that held it and asked again would wait for the writer that waits for it.
NobodyStuck ==
  writer = "waiting" /\ Held # {} => \E r \in Held : run[r].pc # "gate"

SourceSound == TypeOK /\ BoundToUpstream /\ OneVersion /\ NewReference /\ NobodyStuck
===============================================================================
