---------------------------- MODULE BufferObserver ----------------------------
(* The live record of one media copy.  Its producer, its consumer and the      *)
(* controller of the buffer write timed words of it without a common lock, the *)
(* controller under its own; each wait that ends adds to a total.  Contention  *)
(* for the pool has no word of its own: it is the time when the producer waits *)
(* and the controller says that the pool is exhausted, which either of them    *)
(* may begin or end, by looking at both words and exchanging one more.         *)
EXTENDS Integers, Sequences, FiniteSets, FiniteSetsExt

CONSTANTS
  Short, Long,             \* mediaBufferConditionThreshold
  MaxTime, MaxTurns,       \* bounds
  Nothing

VARIABLES
  clock, turns,
  producer, consumer, lifecycle, blocker,   \* timed words
  phase,          \* where the producer is: reading, asking for a buffer, waiting
  refresh,        \* refreshPoolContention, of the producer and of the controller
  poolWait,       \* 0, or one more than the start of the contention under way
  total, longest, \* waitTotal and waitMax
  terminal,
  waited, slack   \* time really spent; time passed while a refresh was under way

\* The thresholds are lengths of time, of any order.
Assumption == Short \in Nat /\ Long \in Nat /\ MaxTime \in Nat /\ MaxTurns \in Nat

words == <<producer, consumer, lifecycle, blocker, terminal>>
waits == <<poolWait, total, longest>>
ghosts == <<waited, slack>>
vars == <<clock, turns, words, phase, refresh, waits, ghosts>>

Actors == {"producer", "controller"}
Conditions == {"buffer_acquire", "pool_contention", "consumer_starvation", "upstream_stall",
               "downstream_stall", "close_join_stall"}
Larger(a, b) == IF a > b THEN a ELSE b
Timed(v) == [value |-> v, at |-> clock]

-----------------------------------------------------------------------------
(* What an observer makes of the words, read at age now *)

Holds(s, c) ==
  CASE c = "close_join_stall" -> s.lifecycle.value = "closing"
    [] c = "downstream_stall" -> s.consumer.value = "writing"
    [] c = "upstream_stall" -> s.producer.value = "reading"
    [] c = "pool_contention" -> s.producer.value = "waiting" /\ s.blocker.value = "pool_exhausted"
    [] c = "buffer_acquire" -> s.producer.value = "waiting"
    [] c = "consumer_starvation" -> s.consumer.value = "waiting"

\* conditionTransitionMS
Since(s, c) ==
  CASE c = "close_join_stall" -> s.lifecycle.at
    [] c \in {"downstream_stall", "consumer_starvation"} -> s.consumer.at
    [] c = "pool_contention" -> Larger(s.producer.at, s.blocker.at)
    [] OTHER -> s.producer.at

\* The age is read before the words: a later transition has lasted no time.
Duration(s, c, now) == Larger(now - Since(s, c), 0)

Threshold(c) ==
  IF c \in {"buffer_acquire", "pool_contention", "consumer_starvation"} THEN Short ELSE Long

\* streamReasons: the acquisition of a buffer is no reason.
Reasons(s, now) ==
  {c \in Conditions \ {"buffer_acquire"} : Holds(s, c) /\ Duration(s, c, now) >= Threshold(c)}

StreamHealth_Faulty(s, now) ==
  IF Holds(s, "close_join_stall") /\ Duration(s, "close_join_stall", now) >= Short
  THEN "critical"
  ELSE IF \E c \in {"pool_contention", "consumer_starvation", "upstream_stall",
                    "downstream_stall"} : Holds(s, c) /\ Duration(s, c, now) >= Threshold(c)
       THEN "warning" ELSE "healthy"
StreamHealth(s, now) ==
  IF Holds(s, "close_join_stall") /\ Duration(s, "close_join_stall", now) >= Long
  THEN "critical"
  ELSE IF \E c \in {"pool_contention", "consumer_starvation", "upstream_stall",
                    "downstream_stall"} : Holds(s, c) /\ Duration(s, c, now) >= Threshold(c)
       THEN "warning" ELSE "healthy"

\* selectedCondition: the longest that holds, the first of them in this order.
Order == <<"close_join_stall", "downstream_stall", "upstream_stall", "pool_contention",
           "buffer_acquire", "consumer_starvation">>
Selected(s, now) ==
  LET candidates == {i \in DOMAIN Order : Holds(s, Order[i])}
      best == {i \in candidates : \A j \in candidates :
                 Duration(s, Order[i], now) >= Duration(s, Order[j], now)}
  IN IF candidates = {} THEN "none" ELSE Order[Min(best)]

-----------------------------------------------------------------------------
(* Initial state *)

NoRefresh == [pc |-> "none", producer |-> Nothing, now |-> 0, start |-> 0]

Init ==
  /\ clock = 0 /\ turns = 0
  /\ producer = Timed("idle") /\ consumer = Timed("idle")
  /\ lifecycle = Timed("starting") /\ blocker = Timed("none")
  /\ phase = "idle"
  /\ refresh = [a \in Actors |-> NoRefresh]
  /\ poolWait = 0
  /\ total = [c \in Conditions |-> 0] /\ longest = [c \in Conditions |-> 0]
  /\ terminal = FALSE
  /\ waited = [c \in Conditions |-> 0] /\ slack = 0

-----------------------------------------------------------------------------
(* Waits *)

Turn == turns < MaxTurns /\ turns' = turns + 1
Quiet(a) == refresh[a].pc = "none"
Refreshing(a) == [refresh EXCEPT ![a] = [NoRefresh EXCEPT !.pc = "producer", !.now = clock]]

\* finishWait: what has lasted no time is not counted.
FinishWait(c, d) ==
  /\ total' = [total EXCEPT ![c] = @ + Larger(d, 0)]
  /\ longest' = [longest EXCEPT ![c] = Larger(@, d)]

\* markTerminalAt's and refreshPoolContention's end of a contention under way.
FinishPool(now) ==
  IF poolWait = 0 THEN UNCHANGED waits
  ELSE poolWait' = 0 /\ FinishWait("pool_contention", now - (poolWait - 1))

\* refreshPoolContention reads the producer, then the blocker, then exchanges.
ReadProducer(a) ==
  /\ refresh[a].pc = "producer"
  /\ refresh' = [refresh EXCEPT ![a].pc = "blocker", ![a].producer = producer]
  /\ UNCHANGED <<clock, turns, words, phase, waits, ghosts>>

ReadBlocker(a) ==
  /\ refresh[a].pc = "blocker"
  /\ LET p == refresh[a].producer
         active == p.value = "waiting" /\ blocker.value = "pool_exhausted"
     IN refresh' = [refresh EXCEPT ![a].pc = IF active THEN "begin" ELSE "end",
                                   ![a].start = Larger(p.at, blocker.at)]
  /\ UNCHANGED <<clock, turns, words, phase, waits, ghosts>>

Exchange_Faulty(a) ==
  /\ refresh[a].pc \in {"begin", "end"}
  /\ IF refresh[a].pc = "begin"
     THEN poolWait' = refresh[a].start + 1 /\ UNCHANGED <<total, longest>>
     ELSE FinishWait("pool_contention", refresh[a].now - (poolWait - 1)) /\ UNCHANGED poolWait
  /\ refresh' = [refresh EXCEPT ![a] = NoRefresh]
  /\ UNCHANGED <<clock, turns, words, phase, ghosts>>
Exchange(a) ==
  /\ refresh[a].pc \in {"begin", "end"}
  /\ IF refresh[a].pc = "begin"
     THEN /\ poolWait' = IF poolWait = 0 THEN refresh[a].start + 1 ELSE poolWait
          /\ UNCHANGED <<total, longest>>
     ELSE FinishPool(refresh[a].now)
  /\ refresh' = [refresh EXCEPT ![a] = NoRefresh]
  /\ UNCHANGED <<clock, turns, words, phase, ghosts>>

-----------------------------------------------------------------------------
(* The producer *)

ConsumerParts == <<consumer, lifecycle, terminal>>

\* begin- and endProducerOperation around one read of the source.
BeginRead ==
  /\ phase = "idle" /\ lifecycle.value = "active" /\ Turn
  /\ phase' = "reading" /\ producer' = Timed("reading")
  /\ UNCHANGED <<clock, blocker, refresh, ConsumerParts, waits, ghosts>>

EndRead ==
  /\ phase = "reading"
  /\ phase' = "idle" /\ producer' = Timed("idle")
  /\ FinishWait("upstream_stall", clock - producer.at)
  /\ UNCHANGED <<clock, turns, blocker, refresh, ConsumerParts, poolWait,
                 ghosts>>

\* projectBlockerPreTerminal, under the lock of the controller: an unchanged word
\* costs no work.
Project(b) ==
  /\ Quiet("controller") /\ ~terminal
  /\ blocker' = IF blocker.value = b THEN blocker ELSE Timed(b)
  /\ refresh' = IF blocker.value = b THEN refresh ELSE Refreshing("controller")

Blockers == {"pool_exhausted", "at_target"}

\* requestOptional: the producer becomes a waiter, or has its buffer at once.
Request(b) ==
  /\ phase = "idle" /\ lifecycle.value = "active" /\ Turn
  /\ Project(b)
  /\ phase' = IF b = "none" THEN "idle" ELSE "asked"
  /\ UNCHANGED <<clock, producer, ConsumerParts, waits, ghosts>>

BeginWait ==
  /\ phase = "asked"
  /\ phase' = "waiting" /\ producer' = Timed("waiting")
  /\ refresh' = Refreshing("producer")
  /\ UNCHANGED <<clock, turns, blocker, ConsumerParts, waits, ghosts>>

\* A buffer of its own, a granted one or a cancellation ends the wait.
EndWait ==
  /\ phase = "waiting" /\ Quiet("producer")
  /\ phase' = "answered" /\ producer' = Timed("idle")
  /\ FinishWait("buffer_acquire", clock - producer.at)
  /\ refresh' = Refreshing("producer")
  /\ UNCHANGED <<clock, turns, blocker, ConsumerParts, poolWait, ghosts>>

\* Accepting a granted buffer, or cancelling the request, under the lock again.
Settle ==
  /\ phase = "answered" /\ Quiet("producer")
  /\ Project("none")
  /\ phase' = "idle"
  /\ UNCHANGED <<clock, turns, producer, ConsumerParts, waits, ghosts>>

-----------------------------------------------------------------------------
(* The controller, the consumer and the end *)

\* Other copies come, go and release: the waiter is granted, or waits for another
\* reason, and its share changes.
Reconsider(b) ==
  /\ phase \in {"asked", "waiting", "answered"} /\ blocker.value # b /\ Turn
  /\ blocker.value # "none"
  /\ Project(b)
  /\ UNCHANGED <<clock, producer, phase, ConsumerParts, waits, ghosts>>

ConsumerOnly == UNCHANGED <<clock, producer, blocker, phase, refresh,
                            poolWait, ghosts>>

Activate ==
  /\ lifecycle.value = "starting"
  /\ lifecycle' = Timed("active")
  /\ UNCHANGED <<turns, consumer, terminal, total, longest>> /\ ConsumerOnly

BeginConsume(v) ==
  /\ consumer.value = "idle" /\ lifecycle.value = "active" /\ Turn
  /\ consumer' = Timed(v)
  /\ UNCHANGED <<lifecycle, terminal, total, longest>> /\ ConsumerOnly

EndConsume ==
  /\ consumer.value \in {"waiting", "writing"}
  /\ consumer' = Timed("idle")
  /\ FinishWait(IF consumer.value = "waiting" THEN "consumer_starvation" ELSE "downstream_stall",
                clock - consumer.at)
  /\ UNCHANGED <<turns, lifecycle, terminal>> /\ ConsumerOnly

Closing ==
  /\ lifecycle.value = "active" /\ consumer.value = "idle" /\ Turn
  /\ lifecycle' = Timed("closing")
  /\ UNCHANGED <<consumer, terminal, total, longest>> /\ ConsumerOnly

ProducerDone ==
  /\ lifecycle.value = "closing" /\ phase = "idle" /\ Quiet("producer")
  /\ producer' = Timed("done") /\ phase' = "done"
  /\ UNCHANGED <<clock, turns, blocker, refresh, ConsumerParts, waits,
                 ghosts>>

\* closeAndCaptureTerminal, when the producer was joined, under the lock.
MarkTerminal ==
  /\ phase = "done" /\ ~terminal /\ Quiet("controller")
  /\ terminal' = TRUE /\ consumer' = Timed("done")
  /\ LET d == clock - lifecycle.at
         pool == IF poolWait = 0 THEN 0 ELSE Larger(clock - (poolWait - 1), 0)
     IN /\ total' = [total EXCEPT !["close_join_stall"] = @ + d, !["pool_contention"] = @ + pool]
        /\ longest' = [longest EXCEPT !["close_join_stall"] = Larger(@, d),
                                      !["pool_contention"] = Larger(@, pool)]
  /\ poolWait' = 0
  /\ UNCHANGED <<clock, turns, producer, lifecycle, blocker, phase, refresh,
                 ghosts>>

Now == [producer |-> producer, consumer |-> consumer, lifecycle |-> lifecycle, blocker |-> blocker]

Tick ==
  /\ clock < MaxTime /\ ~terminal
  /\ clock' = clock + 1
  /\ waited' = [c \in Conditions |-> IF Holds(Now, c) THEN waited[c] + 1 ELSE waited[c]]
  /\ slack' = IF phase = "answered" \/ \E a \in Actors : ~Quiet(a) THEN slack + 1 ELSE slack
  /\ UNCHANGED <<turns, words, phase, refresh, waits>>

-----------------------------------------------------------------------------

Next ==
  \/ \E a \in Actors : ReadProducer(a) \/ ReadBlocker(a) \/ Exchange(a)
  \/ BeginRead
  \/ EndRead
  \/ \E b \in Blockers \cup {"none"} : Request(b)
  \/ BeginWait
  \/ EndWait
  \/ Settle
  \/ \E b \in Blockers \cup {"none"} : Reconsider(b)
  \/ Activate
  \/ \E v \in {"waiting", "writing"} : BeginConsume(v)
  \/ EndConsume
  \/ Closing
  \/ ProducerDone
  \/ MarkTerminal
  \/ Tick

Spec == Init /\ [][Next]_vars

-----------------------------------------------------------------------------
(* Properties *)

TypeOK ==
  /\ producer.value \in {"idle", "reading", "waiting", "done"}
  /\ consumer.value \in {"idle", "waiting", "writing", "done"}
  /\ lifecycle.value \in {"starting", "active", "closing"}
  /\ blocker.value \in Blockers \cup {"none"}
  /\ \A c \in Conditions : longest[c] <= total[c]

\* Every wait that one actor begins and ends is counted to the moment: its total,
\* with what is still under way, is the time really spent in it.
WaitsAreExact ==
  \A c \in Conditions \ {"pool_contention"} :
    waited[c] = total[c] + (IF Holds(Now, c) /\ ~terminal THEN clock - Since(Now, c) ELSE 0)

\* Contention is counted within the time spent waiting for a buffer, but for what
\* passes between a change of a word and its refresh; once the producer has been
\* answered and the last refresh is over nothing is left open, nor at the end.
PoolWaitEnds ==
  /\ total["pool_contention"] <= waited["buffer_acquire"] + slack
  /\ (phase \in {"idle", "reading", "done"} /\ \A a \in Actors : Quiet(a)) => poolWait = 0
  /\ terminal => poolWait = 0

\* Of any words and at any later time: a critical copy is one that does not close
\* in time, a warning has a reason, every reason shows, and the wait that is shown
\* is one of those that hold and none holds longer.
HealthHasReasons ==
  \A now \in clock..MaxTime :
    LET r == Reasons(Now, now)
        h == StreamHealth(Now, now)
        c == Selected(Now, now)
    IN /\ h = "critical" <=> "close_join_stall" \in r
       /\ h = "healthy" <=> r = {}
       /\ c = "none" => r = {} /\ \A d \in Conditions : ~Holds(Now, d)
       /\ c # "none" => /\ Holds(Now, c)
                        /\ \A d \in Conditions :
                             Holds(Now, d) => Duration(Now, d, now) <= Duration(Now, c, now)

ObserverSound == TypeOK /\ WaitsAreExact /\ PoolWaitEnds /\ HealthHasReasons
=============================================================================
