---------------------------- MODULE BufferHistory ----------------------------
(* What the administrator sees of the media copies: the bounded list of those  *)
(* under way, read in pages while copies come and go; the gauges that a        *)
(* sampler commits each second; and the ring of the last completed copies,     *)
(* which leave it by age or for want of room.  Completions go through a        *)
(* bounded channel that the sampler and every reader drain, each at the time   *)
(* it read before; a restart of the gateway forgets everything but the cursors *)
(* its readers hold.                                                           *)
EXTENDS Integers, Sequences, FiniteSets, FiniteSetsExt

CONSTANTS
  Ids,                   \* raw stream IDs, 1..n
  Capacity,              \* MediaBufferLiveCapacity
  ChanCap, RecentCap,    \* the channel and the ring of completions
  Age,                   \* mediaBufferRecentAge
  GaugeSize,             \* length of a ring of gauges
  Limit,                 \* the page size readers ask for
  MaxTime, MaxTurns, MaxBoots,    \* bounds
  Nothing

VARIABLES
  clock, boot, turns,
  stream,      \* each copy: state, health, completion time
  next,        \* the next raw ID
  slots, registrationDrops,          \* MediaBufferLiveRegistry
  chan, completionDrops,
  drainer,     \* the sampler and a reader: the time each read, what it holds
  ring,        \* mediaBufferCompletionRing
  gauges,      \* mediaBufferGaugeRing
  put,         \* every aggregate committed: by time, in order
  reader       \* the list a reader walks through, and what it has seen

liveVars == <<stream, next, slots, registrationDrops>>
recentVars == <<chan, completionDrops, drainer, ring>>
gaugeVars == <<gauges, put>>
timeVars == <<clock, boot, turns>>
vars == <<timeVars, liveVars, recentVars, gaugeVars, reader>>

Times == 0..MaxTime
Drainers == {"sampler", "reader"}
Larger(a, b) == IF a > b THEN a ELSE b

-----------------------------------------------------------------------------
(* The ring of completions *)

EmptyRing ==
  [slots |-> [i \in 0..RecentCap - 1 |-> Nothing], start |-> 0, count |-> 0, next |-> 0,
   evicted |-> 0, through |-> 0, latest |-> 0, expiry |-> Nothing]

Place(r, i) == (r.start + i) % RecentCap
Retained(r) == {r.slots[Place(r, i)] : i \in 0..r.count - 1}

Evict(r, x) ==
  [r EXCEPT !.evicted = @ + 1, !.through = Larger(@, x.seq), !.latest = Larger(@, x.at)]

Sooner(e, t) == IF e = Nothing THEN t ELSE IF t < e THEN t ELSE e

\* expire: nothing is looked at before the earliest expiry; then all that is too
\* old goes, wherever it is, and the rest keeps its order.
Expired_Faulty(r, now) ==
  IF r.count = 0 \/ r.slots[r.start].at >= now - Age THEN r
  ELSE [Evict(r, r.slots[r.start]) EXCEPT !.slots[r.start] = Nothing,
                                          !.start = (@ + 1) % RecentCap, !.count = @ - 1]
Expired(r, now) ==
  IF r.expiry = Nothing \/ (r.expiry # Nothing => now <= r.expiry) THEN r
  ELSE
    LET all == [i \in 1..r.count |-> r.slots[Place(r, i - 1)]]
        kept == SelectSeq(all, LAMBDA x : x.at >= now - Age)
        gone == {x \in Retained(r) : x.at < now - Age}
    IN [r EXCEPT
          !.slots = [i \in DOMAIN @ |->
             LET k == (i - r.start) % RecentCap IN IF k < Len(kept) THEN kept[k + 1] ELSE Nothing],
          !.count = Len(kept),
          !.expiry = IF kept = <<>> THEN Nothing
                     ELSE Min({kept[i].at : i \in DOMAIN kept}) + Age,
          !.evicted = @ + Cardinality(gone),
          !.through = Max({x.seq : x \in gone} \cup {@}),
          !.latest = Max({x.at : x \in gone} \cup {@})]

\* add: a completion already too old only counts as evicted.
Added(r0, now, id, at) ==
  LET r == [Expired(r0, now) EXCEPT !.next = @ + 1]
      x == [seq |-> r.next, at |-> at, id |-> id]
      s == [r EXCEPT !.expiry = Sooner(@, at + Age)]
  IN IF at < now - Age THEN Evict(r, x)
     ELSE IF r.count = RecentCap
          THEN [Evict(s, r.slots[r.start]) EXCEPT !.slots[r.start] = x,
                                                  !.start = (@ + 1) % RecentCap]
          ELSE [s EXCEPT !.slots[Place(r, r.count)] = x, !.count = @ + 1]

\* page: the newest first, below the cursor; a cursor that reaches what was
\* evicted is refused rather than continued past a gap.
CursorExpired(r, before) == before # 0 /\ (before > r.next \/ before <= r.through)

Below(r, before) == {x \in Retained(r) : before = 0 \/ x.seq < before}
NewestOf(S, n) == {x \in S : Cardinality({y \in S : y.seq > x.seq}) < n}

\* What a page says it is complete from.
AvailableFrom(r, now) == Larger(Larger(now - Age, 0), r.latest)

-----------------------------------------------------------------------------
(* The gauges *)

Rank(h) == CASE h = "critical" -> 5 [] h = "warning" -> 4 [] h = "healthy" -> 3 [] OTHER -> 2

EmptyGauges == [i \in 0..GaugeSize - 1 |-> Nothing]

\* MediaBufferPeaks.observe, each maximum on its own.
Observed(peaks, a) ==
  [health |-> IF Rank(a.health) > Rank(peaks.health) THEN a.health ELSE peaks.health,
   active |-> Larger(peaks.active, a.active)]
NoPeaks == [health |-> "idle", active |-> 0]

Put_Faulty(g, t, a) ==
  LET i == t % GaugeSize IN
  [g EXCEPT ![i] = [unit |-> t, aggregate |-> a,
                    peaks |-> Observed(IF g[i] # Nothing THEN g[i].peaks ELSE NoPeaks, a)]]
Put(g, t, a) ==
  LET i == t % GaugeSize
      same == g[i] # Nothing /\ (g[i] # Nothing => g[i].unit = t)
  IN [g EXCEPT ![i] = [unit |-> t, aggregate |-> a,
                       peaks |-> Observed(IF same THEN g[i].peaks ELSE NoPeaks, a)]]

\* A slot shows in a series only at the time it was committed for.
Point(g, u) ==
  IF u < 0 THEN Nothing
  ELSE LET s == g[u % GaugeSize] IN
       IF s = Nothing THEN Nothing ELSE IF s.unit = u THEN s ELSE Nothing
SeriesAt(now) == [age \in 0..GaugeSize - 1 |-> Point(gauges, now - age)]

-----------------------------------------------------------------------------
(* Initial state *)

NewStream == [state |-> "new", health |-> "healthy", at |-> 0]
IdleDrainer == [now |-> Nothing, held |-> Nothing, active |-> 0]
NoWalk == [list |-> "live", pc |-> "idle", boot |-> 0, cursor |-> 0, shown |-> {}, from |-> {}]

Fresh ==
  /\ stream = [i \in Ids |-> NewStream] /\ next = 1
  /\ slots = <<>> /\ registrationDrops = 0
  /\ chan = <<>> /\ completionDrops = 0
  /\ drainer = [d \in Drainers |-> IdleDrainer]
  /\ ring = EmptyRing /\ gauges = EmptyGauges
  /\ put = <<>>

Init ==
  /\ clock = 0 /\ boot = 1 /\ turns = 0
  /\ Fresh
  /\ reader \in {[NoWalk EXCEPT !.list = l] : l \in {"live", "recent"}}

-----------------------------------------------------------------------------
(* Copies *)

Turn == turns < MaxTurns /\ turns' = turns + 1
State(i) == stream[i].state
Terminal(i) == State(i) \in {"closed", "done"}
ActiveRequests == Cardinality({i \in Ids : State(i) \in {"live", "refused"}})

Tick ==
  /\ clock < MaxTime /\ Turn /\ clock' = clock + 1
  /\ UNCHANGED <<boot, liveVars, recentVars, gaugeVars, reader>>

Accepts == Len(slots) < Capacity

\* registerMediaBufferRequest: the ID and the slot are taken under one lock, so
\* only the capacity can refuse a copy.
Register ==
  /\ next \in Ids /\ Turn
  /\ next' = next + 1
  /\ IF Accepts
     THEN /\ slots' = Append(slots, next)
          /\ stream' = [stream EXCEPT ![next].state = "live"]
          /\ UNCHANGED registrationDrops
     ELSE /\ registrationDrops' = registrationDrops + 1
          /\ stream' = [stream EXCEPT ![next].state = "refused"]
          /\ UNCHANGED slots
  /\ UNCHANGED <<clock, boot, recentVars, gaugeVars, reader>>

ChangeHealth(i, h) ==
  /\ State(i) = "live" /\ stream[i].health # h /\ Turn
  /\ stream' = [stream EXCEPT ![i].health = h]
  /\ UNCHANGED <<clock, boot, next, slots, registrationDrops, recentVars, gaugeVars, reader>>

\* closeAndCaptureTerminal: a refused copy has nothing to report.
Close(i) ==
  /\ State(i) \in {"live", "refused"}
  /\ stream' = [stream EXCEPT ![i].state = IF State(i) = "live" THEN "closed" ELSE "gone",
                              ![i].at = clock]
  /\ UNCHANGED <<timeVars, next, slots, registrationDrops, recentVars, gaugeVars, reader>>

OfferCompletion(i) ==
  /\ State(i) = "closed"
  /\ stream' = [stream EXCEPT ![i].state = "done"]
  /\ IF Len(chan) < ChanCap
     THEN chan' = Append(chan, i) /\ UNCHANGED completionDrops
     ELSE completionDrops' = completionDrops + 1 /\ UNCHANGED chan
  /\ UNCHANGED <<timeVars, next, slots, registrationDrops, drainer, ring, gaugeVars, reader>>

-----------------------------------------------------------------------------
(* The sampler and the readers of completions *)

\* SampleMediaBufferOnce asks the controller first, a reader only the clock.
BeginDrain(d) ==
  /\ drainer[d].now = Nothing /\ Turn
  /\ d = "reader" => reader.list = "recent" /\ reader.pc \in {"idle", "walking"}
  /\ drainer' = [drainer EXCEPT ![d].now = clock, ![d].active = ActiveRequests]
  /\ UNCHANGED <<clock, boot, liveVars, chan, completionDrops, ring, gaugeVars, reader>>

TryCompletion(d) ==
  /\ drainer[d].now # Nothing /\ drainer[d].held = Nothing /\ chan # <<>>
  /\ drainer' = [drainer EXCEPT ![d].held = Head(chan)]
  /\ chan' = Tail(chan)
  /\ UNCHANGED <<timeVars, liveVars, completionDrops, ring, gaugeVars, reader>>

AddCompletion(d) ==
  /\ drainer[d].held # Nothing
  /\ ring' = Added(ring, drainer[d].now, drainer[d].held, stream[drainer[d].held].at)
  /\ drainer' = [drainer EXCEPT ![d].held = Nothing]
  /\ UNCHANGED <<timeVars, liveVars, chan, completionDrops, gaugeVars, reader>>

Drained(d) == drainer[d].now # Nothing /\ drainer[d].held = Nothing /\ chan = <<>>

\* aggregateCycle: at most as many live rows as the controller had requests.
Aggregate(active) ==
  LET live == SelectSeq(slots, LAMBDA i : ~Terminal(i))
      seen == {live[k] : k \in {j \in DOMAIN live : j <= active}}
      has(h) == \E i \in seen : stream[i].health = h
  IN [active |-> active, observed |-> Cardinality(seen),
      completeness |-> IF Cardinality(seen) < active THEN "limited" ELSE "complete",
      health |-> CASE active = 0 -> "idle"
                   [] has("critical") -> "critical"
                   [] has("warning") -> "warning"
                   [] seen = {} -> "idle"
                   [] OTHER -> "healthy"]

\* CompactTerminal
Compacted_Faulty == SelectSeq(slots, LAMBDA i : i = slots[Len(slots)])
Compacted == SelectSeq(slots, LAMBDA i : ~Terminal(i))

Sample ==
  /\ Drained("sampler")
  /\ LET a == Aggregate(drainer["sampler"].active)
         at == drainer["sampler"].now
     IN /\ gauges' = Put(gauges, at, a)
        /\ put' = Append(put, [at |-> at, aggregate |-> a])
  /\ slots' = Compacted
  /\ drainer' = [drainer EXCEPT !["sampler"] = IdleDrainer]
  /\ UNCHANGED <<timeVars, stream, next, registrationDrops, chan, completionDrops, ring, reader>>

-----------------------------------------------------------------------------
(* Readers *)

\* A page of live copies: Limit raw slots above the cursor, of which the reader
\* is shown those not terminal; a cursor of another boot is refused.
Page(cursor) ==
  LET above == SelectSeq(slots, LAMBDA i : i > cursor) IN
  [raw |-> SubSeq(above, 1, IF Len(above) < Limit THEN Len(above) ELSE Limit),
   more |-> Len(above) > Limit]

LivePage ==
  /\ reader.list = "live" /\ reader.pc \in {"idle", "walking"} /\ Turn
  /\ IF reader.pc = "walking" /\ reader.boot # boot
     THEN reader' = [reader EXCEPT !.pc = "refused"]
     ELSE LET p == Page(reader.cursor)
              items == {p.raw[k] : k \in {j \in DOMAIN p.raw : ~Terminal(p.raw[j])}}
          IN reader' = [reader EXCEPT
               !.pc = IF p.more THEN "walking" ELSE "done", !.boot = boot,
               !.cursor = IF p.raw = <<>> THEN @ ELSE p.raw[Len(p.raw)],
               !.shown = @ \cup items,
               !.from = IF reader.pc = "idle" THEN {slots[k] : k \in DOMAIN slots} ELSE @]
  /\ UNCHANGED <<clock, boot, liveVars, recentVars, gaugeVars>>

\* handleMediaBufferRecent, after its own drain.
RecentPage ==
  /\ Drained("reader")
  /\ LET now == drainer["reader"].now
         r == Expired(ring, now)
         items == NewestOf(Below(r, reader.cursor), Limit)
         more == Below(r, reader.cursor) # items
     IN /\ ring' = r
        /\ reader' =
             IF (reader.pc = "walking" /\ reader.boot # boot) \/ CursorExpired(r, reader.cursor)
             THEN [reader EXCEPT !.pc = "refused"]
             ELSE [reader EXCEPT
                    !.pc = IF more THEN "walking" ELSE "done", !.boot = boot,
                    !.cursor = IF more THEN Min({x.seq : x \in items}) ELSE @,
                    !.shown = @ \cup items,
                    !.from = IF reader.pc = "idle" THEN Retained(r) ELSE @]
  /\ drainer' = [drainer EXCEPT !["reader"] = IdleDrainer]
  /\ UNCHANGED <<timeVars, liveVars, chan, completionDrops, gaugeVars>>

Detail(id) == id \in {slots[k] : k \in DOMAIN slots} /\ ~Terminal(id)

Restart ==
  /\ boot < MaxBoots /\ Turn
  /\ boot' = boot + 1
  /\ stream' = [i \in Ids |-> NewStream] /\ next' = 1
  /\ slots' = <<>> /\ registrationDrops' = 0
  /\ chan' = <<>> /\ completionDrops' = 0
  /\ drainer' = [d \in Drainers |-> IdleDrainer]
  /\ ring' = EmptyRing /\ gauges' = EmptyGauges /\ put' = <<>>
  /\ UNCHANGED <<clock, reader>>

-----------------------------------------------------------------------------

Next ==
  \/ Tick
  \/ Register
  \/ \E i \in Ids, h \in {"healthy", "warning", "critical"} : ChangeHealth(i, h)
  \/ \E i \in Ids : Close(i) \/ OfferCompletion(i)
  \/ \E d \in Drainers : BeginDrain(d) \/ TryCompletion(d) \/ AddCompletion(d)
  \/ Sample
  \/ LivePage
  \/ RecentPage
  \/ Restart

Spec == Init /\ [][Next]_vars

-----------------------------------------------------------------------------
(* Properties *)

TypeOK ==
  /\ clock \in Times /\ boot \in 1..MaxBoots
  /\ ring.count \in 0..RecentCap /\ ring.start \in 0..RecentCap - 1
  /\ reader.pc \in {"idle", "walking", "done", "refused"}

\* Every copy not refused keeps one slot, in order, until it is terminal, and
\* none is refused while there is room or for the order of its ID.
ListIsComplete ==
  /\ Len(slots) <= Capacity
  /\ \A j, k \in DOMAIN slots : j < k => slots[j] < slots[k]
  /\ \A i \in Ids : State(i) = "live" => Detail(i)
  /\ registrationDrops = Cardinality({i \in Ids : State(i) \in {"refused", "gone"}})

\* A walk through the pages, however the list is appended to and compacted on
\* the way, shows every copy that was there from its start to its end.
WalksMissNothing ==
  reader.pc = "done" /\ reader.boot = boot =>
    IF reader.list = "live" THEN \A i \in reader.from : ~Terminal(i) => i \in reader.shown
    ELSE Retained(ring) \cap reader.from \subseteq reader.shown

\* Each completion offered is dropped, on its way, retained or evicted; those
\* retained are in the order they were added and none is past its age at a look;
\* and what a page says it is complete from has not lost anything later.
Held == {d \in Drainers : drainer[d].held # Nothing}
RecentTells ==
  /\ Cardinality({i \in Ids : State(i) = "done"}) =
       completionDrops + Len(chan) + Cardinality(Held) + ring.count + ring.evicted
  /\ \A j, k \in 0..ring.count - 1 :
       j < k => ring.slots[Place(ring, j)].seq < ring.slots[Place(ring, k)].seq
  /\ \A now \in Times : \A x \in Retained(Expired(ring, now)) : x.at >= now - Age
  /\ \A i \in Ids :
       (/\ State(i) = "done" /\ completionDrops = 0
        /\ i \notin {chan[k] : k \in DOMAIN chan} /\ i \notin {drainer[d].held : d \in Held}
        /\ stream[i].at > AvailableFrom(ring, clock)) =>
         \E x \in Retained(ring) : x.id = i

\* A point of the series is the last aggregate committed at its time, with the
\* highest values of all that were, and nothing of an earlier round of the ring.
GaugesTell ==
  \A age \in 0..GaugeSize - 1 :
    LET u == clock - age
        mine == SelectSeq(put, LAMBDA p : p.at = u)
        p == SeriesAt(clock)[age]
    IN IF mine = <<>> THEN p = Nothing
       ELSE /\ p # Nothing
            /\ p.aggregate = mine[Len(mine)].aggregate
            /\ p.peaks.active = Max({mine[k].aggregate.active : k \in DOMAIN mine})
            /\ Rank(p.peaks.health) = Max({Rank(mine[k].aggregate.health) : k \in DOMAIN mine})

\* The administrator is told of every copy and every completion there is.
HistorySound == TypeOK /\ ListIsComplete /\ WalksMissNothing /\ RecentTells /\ GaugesTell
=============================================================================
