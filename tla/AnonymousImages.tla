---------------------------- MODULE AnonymousImages ----------------------------
(* Images that are served without a login: the upstream they come from must    *)
(* have been found to be the configured server, lately and under the very      *)
(* configuration in use.  Validations run at start, hourly, and when a client  *)
(* asks for a version not known yet; requests and changes come at any time.    *)
EXTENDS Integers, FiniteSets

CONSTANTS
  Keys,       \* configurations: the server's id and the URL of its default endpoint
  Validators, Requests,
  Slots,      \* anonymousImageValidationConcurrency
  MaxAge,     \* anonymousImageNamespaceMaxAge
  MaxTime, MaxTurns, MaxRuns,  \* bounds: time, changes from outside, validations and requests
  Nothing

VARIABLES
  stored,    \* the default upstream as the store has it; Nothing while it has none
  up,        \* the configurations whose server answers with the id they name
  snapshot,  \* anonymousImageNamespaceState
  locked,    \* validateMu
  validator, request,
  slots,     \* places taken in anonymousImageSlots
  now, turns, runs,
  \* ghosts
  proved,    \* what was confirmed: the configuration, when it answered, and when it was done
  latest     \* the validation that set the snapshot, by the order in which they loaded

outside == <<stored, up, now, turns>>
vars == <<outside, snapshot, locked, validator, request, slots, runs, proved, latest>>

\* Finitely many requests are under way, and Nothing is neither a configuration nor a time.
Assumption ==
  IsFiniteSet(Requests) /\ Slots \in Nat /\ MaxAge \in Nat /\ Nothing \notin Keys \cup Nat

Unavailable == [key |-> Nothing, at |-> 0]
NoValidation == [pc |-> "idle", key |-> Nothing, order |-> 0, answered |-> Nothing]
NoRequest == [pc |-> "idle", key |-> Nothing, at |-> 0, kind |-> Nothing, since |-> {}]

Init ==
  /\ stored \in Keys /\ up = Keys
  /\ snapshot = Unavailable /\ locked = FALSE
  /\ validator = [v \in Validators |-> NoValidation]
  /\ request = [r \in Requests |-> NoRequest]
  /\ slots = 0 /\ now = 0 /\ turns = 0 /\ runs = 0
  /\ proved = {} /\ latest = 0

-----------------------------------------------------------------------------
(* ValidateAnonymousImageNamespace *)

MayValidate_Faulty == TRUE
MayValidate == ~locked

\* The lock, and the configuration of the moment.
Load(v) ==
  /\ validator[v].pc = "idle" /\ MayValidate /\ runs < MaxRuns
  /\ runs' = runs + 1 /\ locked' = TRUE
  /\ validator' = [validator EXCEPT ![v] = [NoValidation EXCEPT !.pc = "probe", !.key = stored,
                                                                !.order = runs + 1]]
  /\ UNCHANGED <<outside, snapshot, request, slots, proved, latest>>

Set(v, new) ==
  /\ snapshot' = new /\ latest' = validator[v].order
  /\ validator' = [validator EXCEPT ![v] = NoValidation]
  /\ locked' = FALSE

\* Nothing configured, no answer in time, one that is not that of the server, or
\* another configuration by now: images are unavailable from then on.
Fail(v) ==
  /\ \/ validator[v].pc = "probe"
     \/ validator[v].pc = "loaded" /\ stored # validator[v].key
  /\ Set(v, Unavailable)
  /\ UNCHANGED <<outside, request, slots, runs, proved>>

\* probeUpstreamPublic: the id in the answer is that of the configuration.
Confirmed(key) == key \in up
Probe(v) ==
  /\ validator[v].pc = "probe" /\ Confirmed(validator[v].key)
  /\ validator' = [validator EXCEPT ![v].pc = "loaded",
                                   ![v].answered = IF validator[v].key \in up THEN now ELSE @]
  /\ UNCHANGED <<outside, snapshot, locked, request, slots, runs, proved, latest>>

\* It is loaded anew, and must be the same.
Confirm(v) ==
  /\ validator[v].pc = "loaded" /\ stored = validator[v].key
  /\ Set(v, [key |-> stored, at |-> now])
  /\ proved' = proved \cup {<<validator[v].key, validator[v].answered, now>>}
  /\ UNCHANGED <<outside, request, slots, runs>>

-----------------------------------------------------------------------------
(* handleAnonymousItemImage *)

Went(r) == request' = [request EXCEPT ![r] = NoRequest]

\* ValidatedAnonymousImageOrigin: the snapshot, if it is fresh,
Begin(r) ==
  /\ request[r].pc = "idle" /\ runs < MaxRuns
  /\ runs' = runs + 1
  /\ request' = IF snapshot.key = Nothing \/ now - snapshot.at > MaxAge THEN request
                ELSE [request EXCEPT ![r] = [NoRequest EXCEPT !.pc = "check", !.key = snapshot.key,
                                                              !.at = now, !.since = {stored}]]
  /\ UNCHANGED <<outside, snapshot, locked, validator, slots, proved, latest>>

\* and the configuration now.
Matches_Faulty(key) == stored # Nothing
Matches(key) == stored = key
Check(r) ==
  /\ request[r].pc = "check"
  /\ IF Matches(request[r].key) THEN request' = [request EXCEPT ![r].pc = "send"]
     ELSE Went(r)
  /\ UNCHANGED <<outside, snapshot, locked, validator, slots, runs, proved, latest>>

\* What comes back: all of an image, a part, or what has no body for the client (an
\* error, a redirect, an answer to HEAD, the wrong type).
Responds(r, kind) ==
  /\ request[r].pc = "send"
  /\ request' = [request EXCEPT ![r].pc = "answered", ![r].kind = kind]
  /\ UNCHANGED <<outside, snapshot, locked, validator, slots, runs, proved, latest>>

\* A whole image is held in memory to be looked at, in one of a few slots; nobody
\* waits for one.
TakeSlot(r) ==
  /\ request[r].pc = "answered" /\ request[r].kind = "full" /\ slots < Slots
  /\ slots' = slots + 1
  /\ request' = [request EXCEPT ![r].pc = "body"]
  /\ UNCHANGED <<outside, snapshot, locked, validator, runs, proved, latest>>
NoSlot(r) ==
  /\ request[r].pc = "answered" /\ request[r].kind = "full" /\ slots = Slots
  /\ Went(r)
  /\ UNCHANGED <<outside, snapshot, locked, validator, slots, runs, proved, latest>>

\* It is written if it is an image, and refused otherwise; the slot is free again.
Finish(r) ==
  /\ request[r].pc = "body"
  /\ Went(r) /\ slots' = slots - 1
  /\ UNCHANGED <<outside, snapshot, locked, validator, runs, proved, latest>>

\* The others are copied as they come, or dropped.
Pass(r) ==
  /\ request[r].pc = "answered" /\ request[r].kind # "full"
  /\ Went(r)
  /\ UNCHANGED <<outside, snapshot, locked, validator, slots, runs, proved, latest>>

-----------------------------------------------------------------------------
(* From outside *)

Turn == turns < MaxTurns /\ turns' = turns + 1
Inside == <<snapshot, locked, validator, slots, runs, proved, latest>>

Configure ==
  /\ Turn
  /\ stored' \in (Keys \cup {Nothing}) \ {stored}
  /\ request' = [r \in Requests |->
                   IF request[r].pc = "idle" THEN NoRequest
                   ELSE [request[r] EXCEPT !.since = @ \cup {stored'}]]
  /\ UNCHANGED <<up, now, Inside>>

\* Another server answers at the URL, or the right one does again.
Server(key) ==
  /\ Turn
  /\ up' = IF key \in up THEN up \ {key} ELSE up \cup {key}
  /\ UNCHANGED <<stored, now, request, Inside>>

Tick ==
  /\ now < MaxTime /\ now' = now + 1
  /\ UNCHANGED <<stored, up, turns, request, Inside>>

Validate(v) == Load(v) \/ Fail(v) \/ Probe(v) \/ Confirm(v)
Serve(r) ==
  \/ Begin(r) \/ Check(r) \/ TakeSlot(r) \/ NoSlot(r) \/ Finish(r) \/ Pass(r)
  \/ \E kind \in {"full", "part", "none"} : Responds(r, kind)

Next ==
  \/ \E v \in Validators : Validate(v)
  \/ \E r \in Requests : Serve(r)
  \/ Configure \/ Tick
  \/ \E key \in Keys : Server(key)

Spec == Init /\ [][Next]_vars

-----------------------------------------------------------------------------
(* Properties *)

TypeOK ==
  /\ stored \in Keys \cup {Nothing} /\ snapshot.key \in Keys \cup {Nothing}
  /\ snapshot.at \in 0..now /\ latest \in 0..runs /\ slots \in 0..Slots

Sent(r) == request[r].pc \in {"send", "answered", "body"}

\* A request is sent only to an upstream that was configured while it was decided,
\* and that answered as the server it names, in a validation done within MaxAge.
OnlyToTheValidated ==
  \A r \in Requests : Sent(r) =>
    /\ request[r].key \in request[r].since
    /\ \E p \in proved : p[1] = request[r].key /\ p[2] # Nothing
                        /\ p[3] \in request[r].at - MaxAge..request[r].at

\* Validations do not overtake each other: the snapshot is of the one that loaded the
\* configuration last of those that are done, so a failure is not undone by an answer
\* from before it.
LatestValidationCounts ==
  /\ \A v \in Validators : validator[v].pc # "idle" => validator[v].order > latest
  /\ snapshot.key # Nothing =>
       \E p \in proved : p[1] = snapshot.key /\ p[2] # Nothing /\ p[3] = snapshot.at

\* The images in memory are as many as the slots that are taken.
SlotsCounted == slots = Cardinality({r \in Requests : request[r].pc = "body"})

ImagesSound == TypeOK /\ OnlyToTheValidated /\ LatestValidationCounts /\ SlotsCounted
================================================================================
