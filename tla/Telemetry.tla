------------------------------ MODULE Telemetry ------------------------------
(* The live metrics of the gateway.  Requests stamp events and offer them to a *)
(* bounded queue; one consumer applies them to maps of sessions and playbacks  *)
(* and to two rings of counters, of seconds and of minutes.  Bytes do not come *)
(* by events: transfers add them to a meter of separate atomics, and a sampler *)
(* moves what was added since its last look into the rings.  Events reach the  *)
(* registry later than their stamp and out of order, and the clock may jump.   *)
EXTENDS Integers, Sequences, FiniteSets, Functions

CONSTANTS
  Sessions,                     \* token hashes; each plays one item
  Senders,                      \* requests that may be about to emit
  Transfers,                    \* transfers the meter knows
  QueueCap,                     \* capacity of the emitter
  SecSize, MinSize, MinLen,     \* lengths of the rings; seconds in a minute
  SessionTTL, PlaybackTTL,
  MaxTime, MaxTurns,            \* bounds: the clock, and what the world may do
  Nothing

VARIABLES
  clock, peak,      \* time.Now, and the latest it ever was
  sender,           \* the stamped event each request is about to offer
  queue, drops,     \* the emitter
  seen, playing,    \* LastSeen of sessions and of playbacks
  auth,             \* upstream.AuthState
  sec, min,         \* the rings
  meter,            \* totals of ByteMeter
  transfer,         \* transfers: state, own bytes, and the step of its copier
  sampler,          \* what was read last and is not yet in the rings
  past,             \* every addition ever made, by its second and its minute
  active, lag,      \* sessions: latest activity applied, largest delay of one
  turns             \* ticks, events and reads that were made

registryVars == <<seen, playing, auth, sec, min, past, active, lag>>
meterVars == <<meter, transfer>>
queueVars == <<sender, queue, drops>>
timeVars == <<clock, peak>>
vars == <<registryVars, meterVars, queueVars, timeVars, sampler, turns>>

Times == 0..MaxTime

-----------------------------------------------------------------------------
(* Rings of counters *)

Fields == {"requests", "errors", "rejects", "bytes", "playbacks"}
Zero == [f \in Fields |-> 0]
One(S) == [f \in Fields |-> IF f \in S THEN 1 ELSE 0]
Larger(a, b) == IF a > b THEN a ELSE b

\* counters.add: all are sums but the gauge.
Plus(a, b) == [f \in Fields |-> IF f = "playbacks" THEN Larger(a[f], b[f]) ELSE a[f] + b[f]]

EmptyRing(size) == [slots |-> [i \in 0..size - 1 |-> Zero], head |-> 0, idx |-> 0,
                    inited |-> FALSE]
Size(r) == Cardinality(DOMAIN r.slots)

\* The head moves forward only, and clears the slots it takes for new units.
AdvanceTo_Faulty(r, u) ==
  IF ~r.inited THEN [r EXCEPT !.head = u, !.idx = 0, !.inited = TRUE]
  ELSE IF u <= r.head THEN r
  ELSE LET d == u - r.head IN
       [r EXCEPT !.head = u, !.idx = (r.idx + d) % Size(r),
                 !.slots[(r.idx + d) % Size(r)] = Zero]
AdvanceTo(r, u) ==
  IF ~r.inited THEN [r EXCEPT !.head = u, !.idx = 0, !.inited = TRUE]
  ELSE IF u <= r.head THEN r
  ELSE LET d == u - r.head IN
       IF d >= Size(r) THEN [EmptyRing(Size(r)) EXCEPT !.head = u, !.inited = TRUE]
       ELSE [r EXCEPT !.head = u, !.idx = (r.idx + d) % Size(r),
                      !.slots = [i \in DOMAIN r.slots |->
                        IF \E k \in 1..d : i = (r.idx + k) % Size(r) THEN Zero ELSE r.slots[i]]]

SlotIndex(r, age) == (r.idx - age) % Size(r)

\* An addition older than the ring is lost; one of an old unit goes to its slot.
AddTo(r, u, c) ==
  LET a == AdvanceTo(r, u)
      age == a.head - u
  IN IF age >= Size(a) THEN a ELSE [a EXCEPT !.slots[SlotIndex(a, age)] = Plus(@, c)]

Sum(r, u, window) ==
  LET a == AdvanceTo(r, u) IN
  FoldFunctionOnSet(Plus, Zero, [age \in 0..Size(a) - 1 |-> a.slots[SlotIndex(a, age)]],
                    {age \in 0..Size(a) - 1 : age < window})

\* Points of the last n units, the oldest first.
Series(r, u, n) ==
  LET a == AdvanceTo(r, u) IN [i \in 1..n |-> [unit |-> a.head - (n - i),
                                               value |-> a.slots[SlotIndex(a, n - i)]]]

Minute(t) == t \div MinLen

\* The shortest window shows seconds, the others minutes.
SeriesOf(window, n) ==
  IF window = "15m" THEN Series(sec, clock, n) ELSE Series(min, Minute(clock), n)

\* The rings and the record of all additions after adding c at time t.
Counted(t, c) ==
  /\ sec' = AddTo(sec, t, c)
  /\ min' = AddTo(min, Minute(t), c)
  /\ past' = [sec |-> [past.sec EXCEPT ![t] = Plus(@, c)],
              min |-> [past.min EXCEPT ![Minute(t)] = Plus(@, c)]]

-----------------------------------------------------------------------------
(* Initial state *)

Init ==
  /\ clock = 0 /\ peak = 0
  /\ sender = [s \in Senders |-> Nothing]
  /\ queue = <<>> /\ drops = 0
  /\ seen = [s \in Sessions |-> Nothing]
  /\ playing = [s \in Sessions |-> Nothing]
  /\ auth = "unknown"
  /\ sec = EmptyRing(SecSize) /\ min = EmptyRing(MinSize)
  /\ meter = [total |-> 0, direct |-> 0, errors |-> 0, completed |-> 0]
  /\ transfer = [x \in Transfers |-> [state |-> "new", own |-> 0, step |-> "idle"]]
  /\ sampler = [bytes |-> 0, errors |-> 0, pending |-> Nothing]
  /\ past = [sec |-> [t \in Times |-> Zero], min |-> [m \in {Minute(t) : t \in Times} |-> Zero]]
  /\ active = [s \in Sessions |-> Nothing]
  /\ lag = [s \in Sessions |-> 0]
  /\ turns = 0

-----------------------------------------------------------------------------
(* The clock and the emitter *)

Turn == turns < MaxTurns /\ turns' = turns + 1

\* The wall clock goes on, or is set to another time.
Tick(t) ==
  /\ Turn /\ t # clock
  /\ clock' = t /\ peak' = Larger(peak, t)
  /\ UNCHANGED <<registryVars, meterVars, queueVars, sampler>>

\* What the gateway emits: of a session's requests, logins and playback reports,
\* and of the upstream's answers and logins.
Events ==
  [kind : {"request", "login", "progress", "stopped"}, session : Sessions, status : {"2xx"}]
  \cup [kind : {"upstream"}, session : {Nothing}, status : {"2xx", "4xx", "5xx"}]
  \cup [kind : {"refresh"}, session : {Nothing}, status : {"2xx", "0"}]
  \cup [kind : {"login"}, session : {Nothing}, status : {"0"}]
  \cup [kind : {"reject"}, session : {Nothing}, status : {"0"}]

Stamp(s, e) ==
  /\ sender[s] = Nothing /\ Turn
  /\ sender' = [sender EXCEPT ![s] = [e |-> e, at |-> clock]]
  /\ UNCHANGED <<queue, drops, registryVars, meterVars, timeVars, sampler>>

TryEmit(s) ==
  /\ sender[s] # Nothing
  /\ sender' = [sender EXCEPT ![s] = Nothing]
  /\ IF Len(queue) < QueueCap THEN queue' = Append(queue, sender[s]) /\ UNCHANGED drops
     ELSE drops' = drops + 1 /\ UNCHANGED queue
  /\ UNCHANGED <<registryVars, meterVars, timeVars, sampler, turns>>

-----------------------------------------------------------------------------
(* The registry *)

IsError(e) == e.status \in {"5xx", "0"}

\* expireLocked
Unexpired_Faulty(f, t, ttl) ==
  [s \in Sessions |-> IF f[s] # Nothing /\ f[s] > t - ttl THEN f[s] ELSE Nothing]
Unexpired(f, t, ttl) ==
  [s \in Sessions |-> IF f[s] = Nothing THEN Nothing
                      ELSE IF f[s] < t - ttl THEN Nothing ELSE f[s]]

\* The events that a session is known to be alive by.
Alive(e) == e.session # Nothing /\ e.kind \in {"request", "login", "progress"}

PlaybacksAfter(p, e, at) ==
  CASE e.kind = "progress" -> [p EXCEPT ![e.session] = at]
    [] e.kind = "stopped" -> [p EXCEPT ![e.session] = Nothing]
    [] OTHER -> p

\* Only a login refused tells of a failure; any 2xx answer tells of acceptance.
AuthAfter(a, e) ==
  CASE e.kind = "upstream" /\ e.status = "2xx" -> "healthy"
    [] e.kind = "refresh" -> IF IsError(e) THEN "failing" ELSE "healthy"
    [] OTHER -> a

\* What recordTrafficLocked and recordRejectLocked count of an event.
CountsOf(e) ==
  CASE e.kind \in {"progress", "stopped"} -> Zero
    [] e.kind = "reject" -> One({"requests", "errors", "rejects"})
    [] OTHER -> IF IsError(e) THEN One({"requests", "errors"}) ELSE One({"requests"})

\* handle: events are applied at their own time, not at the time of arrival.
Handle ==
  /\ queue # <<>>
  /\ LET e == Head(queue).e
         at == Head(queue).at
         known == Unexpired(seen, at, SessionTTL)
         plays == PlaybacksAfter(Unexpired(playing, at, PlaybackTTL), e, at)
         gauge == Cardinality({s \in Sessions : plays[s] # Nothing})
     IN /\ seen' = IF Alive(e) THEN [known EXCEPT ![e.session] = at] ELSE known
        /\ playing' = plays
        /\ auth' = AuthAfter(auth, e)
        /\ Counted(at, [CountsOf(e) EXCEPT !["playbacks"] = gauge])
        /\ IF Alive(e)
           THEN /\ active' = [active EXCEPT ![e.session] =
                                IF @ = Nothing THEN at ELSE Larger(@, at)]
                /\ lag' = [lag EXCEPT ![e.session] = Larger(@, peak - at)]
           ELSE UNCHANGED <<active, lag>>
  /\ queue' = Tail(queue)
  /\ UNCHANGED <<sender, drops, meterVars, timeVars, sampler, turns>>

ActivePlaybacks == {s \in Sessions : Unexpired(playing, clock, PlaybackTTL)[s] # Nothing}
ActiveTransfers == {x \in Transfers : transfer[x].state \in {"open", "claimed"}}

\* What a reconfiguration asks before it goes on.
HasActiveMediaLoad == ActiveTransfers # {} \/ ActivePlaybacks # {}

\* A snapshot forgets what is old and moves the heads of the rings.
Snapshot ==
  /\ seen' = Unexpired(seen, clock, SessionTTL)
  /\ playing' = [s \in Sessions |-> IF s \in ActivePlaybacks THEN playing[s] ELSE Nothing]
  /\ sec' = AdvanceTo(sec, clock)
  /\ min' = AdvanceTo(min, Minute(clock))
  /\ UNCHANGED <<auth, past, active, lag, meterVars, queueVars, timeVars, sampler, turns>>

-----------------------------------------------------------------------------
(* The meter and its sampler *)

MeterAndTurn == UNCHANGED <<registryVars, queueVars, timeVars, sampler>>
MeterOnly == MeterAndTurn /\ UNCHANGED turns
At(x, step) == transfer[x].step = step
Moved(x, r) == transfer' = [transfer EXCEPT ![x] = r]

BeginTransfer(x) ==
  /\ transfer[x].state = "new" /\ Turn
  /\ Moved(x, [transfer[x] EXCEPT !.state = "open"])
  /\ UNCHANGED meter /\ MeterAndTurn

\* TransferHandle.AddEgress in three steps: not ended; the total; its own count.
AddCheck(x) ==
  /\ transfer[x].state = "open" /\ At(x, "idle") /\ Turn
  /\ Moved(x, [transfer[x] EXCEPT !.step = "checked"])
  /\ UNCHANGED meter /\ MeterAndTurn

AddTotal(x) ==
  /\ At(x, "checked")
  /\ meter' = [meter EXCEPT !.total = @ + 1]
  /\ Moved(x, [transfer[x] EXCEPT !.step = "totalled"])
  /\ MeterOnly

AddOwn(x) ==
  /\ At(x, "totalled")
  /\ Moved(x, [transfer[x] EXCEPT !.step = "idle", !.own = @ + 1])
  /\ UNCHANGED meter /\ MeterOnly

\* End: the first caller wins the flag, then takes it out of the set and adds
\* what it has of bytes to the completed ones.
EndClaim(x, failed) ==
  /\ transfer[x].state = "open"
  /\ Moved(x, [transfer[x] EXCEPT !.state = "claimed"])
  /\ meter' = IF failed THEN [meter EXCEPT !.errors = @ + 1] ELSE meter
  /\ MeterOnly

EndFinish(x) ==
  /\ transfer[x].state = "claimed"
  /\ Moved(x, [transfer[x] EXCEPT !.state = "ended"])
  /\ meter' = [meter EXCEPT !.completed = @ + transfer[x].own]
  /\ MeterOnly

\* A body written without a handle: its bytes go to the total only, and a failure
\* is noted here because no transfer ends.
DirectWrite(n, failed) ==
  /\ meter' = [meter EXCEPT !.total = @ + n, !.direct = @ + n,
                            !.errors = @ + (IF failed THEN 1 ELSE 0)]
  /\ Turn /\ UNCHANGED transfer /\ MeterAndTurn

\* SampleLiveBytesOnce: reads the totals, then locks the registry.
Sample ==
  /\ sampler.pending = Nothing
  /\ \/ meter.total > sampler.bytes
     \/ meter.errors > sampler.errors
  /\ sampler' = [bytes |-> meter.total, errors |-> meter.errors,
                 pending |-> [at |-> clock,
                              counts |-> [Zero EXCEPT !["bytes"] = meter.total - sampler.bytes,
                                                      !["errors"] = meter.errors - sampler.errors]]]
  /\ UNCHANGED <<registryVars, meterVars, queueVars, timeVars, turns>>

ApplySample ==
  /\ sampler.pending # Nothing
  /\ Counted(sampler.pending.at, sampler.pending.counts)
  /\ sampler' = [sampler EXCEPT !.pending = Nothing]
  /\ UNCHANGED <<seen, playing, auth, active, lag, meterVars, queueVars, timeVars, turns>>

-----------------------------------------------------------------------------

Next ==
  \/ \E t \in Times : Tick(t)
  \/ \E s \in Senders, e \in Events : Stamp(s, e)
  \/ \E s \in Senders : TryEmit(s)
  \/ Handle
  \/ Snapshot
  \/ \E x \in Transfers : \/ BeginTransfer(x)
                          \/ AddCheck(x)
                          \/ AddTotal(x)
                          \/ AddOwn(x)
                          \/ EndFinish(x)
  \/ \E x \in Transfers, failed \in BOOLEAN : EndClaim(x, failed)
  \/ \E n \in {0, 1} : DirectWrite(n, n = 0)
  \/ Sample
  \/ ApplySample

Spec == Init /\ [][Next]_vars

-----------------------------------------------------------------------------
(* Properties *)

TypeOK ==
  /\ clock \in Times /\ peak \in Times /\ clock <= peak
  /\ auth \in {"unknown", "healthy", "failing"}
  /\ DOMAIN sec.slots = 0..SecSize - 1 /\ sec.idx \in DOMAIN sec.slots
  /\ DOMAIN min.slots = 0..MinSize - 1 /\ min.idx \in DOMAIN min.slots
  /\ \A s \in Sessions : seen[s] \in Times \cup {Nothing} /\ playing[s] \in Times \cup {Nothing}

\* What a ring says of a window: the additions made, however late and in whatever
\* order, in the units that end at its head, each once and no other.
Truth(r, u, window, adds) ==
  LET head == IF r.inited THEN Larger(r.head, u) ELSE u IN
  FoldFunctionOnSet(Plus, Zero, adds, {v \in DOMAIN adds : head - window < v /\ v <= head})

RingTells(r, u, adds, window) ==
  \A w \in 1..Size(r) :
    /\ Sum(r, u, w) = Truth(r, u, w, adds)
    /\ \A i \in 1..w : LET p == SeriesOf(window, w)[i] IN
         p.value = IF p.unit \in DOMAIN adds THEN adds[p.unit] ELSE Zero

RingsTell == /\ RingTells(sec, clock, past.sec, "15m")
             /\ RingTells(min, Minute(clock), past.min, "24h")

\* Each byte of a transfer is in the total once, each byte sampled goes to the
\* rings once, and the completed count has no byte its transfers have not.
TotalOf(adds, f) == FoldFunction(LAMBDA c, n : n + c[f], 0, adds)
BytesTell ==
  /\ LET Parts(x) == x.own + (IF x.step = "totalled" THEN 1 ELSE 0) IN
     meter.total = meter.direct + FoldFunction(LAMBDA x, n : n + Parts(x), 0, transfer)
  /\ LET waiting == IF sampler.pending = Nothing THEN Zero ELSE sampler.pending.counts IN
     TotalOf(past.sec, "bytes") + waiting["bytes"] = sampler.bytes
  /\ sampler.bytes <= meter.total
  /\ meter.completed <= FoldFunction(LAMBDA x, n : n + (IF x.state = "ended" THEN x.own ELSE 0),
                                     0, transfer)

\* A reconfiguration that asks sees a load while a byte may still be on its way,
\* but for the step that a copier has begun before its transfer ended.
LoadTells ==
  ~HasActiveMediaLoad =>
    \A x \in Transfers : transfer[x].step # "idle" => transfer[x].state = "ended"

\* A session is listed only while some event of it, applied, is young enough for
\* the last look, and one applied late costs a session no more than its delay.
SessionsTell ==
  \A s \in Sessions :
    /\ seen[s] # Nothing => active[s] # Nothing /\ seen[s] <= active[s]
    /\ active[s] # Nothing /\ active[s] - lag[s] >= peak - SessionTTL => seen[s] # Nothing

\* The metrics tell of what happened, whatever the clock and the queue do.
TelemetrySound == TypeOK /\ RingsTell /\ BytesTell /\ SessionsTell /\ LoadTells
=============================================================================
