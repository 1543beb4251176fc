----------------------------- MODULE SourceCache -----------------------------
(***************************************************************************)
(* The source range cache, internal/sourcecache: cache.go, capture.go and  *)
(* reader.go.                                                              *)
(*                                                                         *)
(* Open serves a byte range from a stored block, joins a fill in progress  *)
(* that covers it, starts a fill of its own, or bypasses the cache.        *)
(* Capture offers the pages its consumer reads anyway to one background    *)
(* writer.  Callers leave, sources and the disk fail, blocks are evicted,  *)
(* and Close may come at any time.  Everything under c.mu is one step; the *)
(* file and source operations between two critical sections are steps of   *)
(* their own.                                                              *)
(*                                                                         *)
(* A fill, and the entry it becomes, is named by the call or page that     *)
(* started it.                                                             *)
(***************************************************************************)
EXTENDS Integers, Sequences, FiniteSets, Functions

CONSTANTS
  Calls,       \* calls of Open
  Pages,       \* pages read by Capture's consumers
  Ranges,      \* the ranges asked for: [key, offset, length]
  Budget,      \* cfg.BudgetBytes
  MaxEntries,  \* cfg.MaxEntries
  QueueLimit,  \* captureQueuePages
  Nothing      \* no range, no fill, no holder of a lock

Fills == Calls \cup Pages

ASSUME SourceCacheAssumption ==
  /\ Calls \cap Pages = {} /\ Nothing \notin Fills
  /\ {Budget, MaxEntries, QueueLimit} \subseteq Nat \ {0}
  /\ \A s \in Ranges : s.offset \in Nat /\ s.length \in Nat \ {0}
  /\ IsFiniteSet(Fills) /\ Nothing \notin Ranges

VARIABLES
  call,      \* call[o]: the progress of Open, and the reader it returned
  fill,      \* fill[f]: the flight and then the entry that f started
  older,     \* older[f]: the entries behind f in c.lru, used before it
  used, reserved, inflight,        \* the counters of Cache
  disabled,  \* c.disabled
  stopped,   \* c.captureStopped
  disk,      \* the fills whose file exists
  page,      \* page[p]: the progress of a captured page
  lock,      \* the page whose enqueue holds captureMu
  queue,     \* captureQueue
  writer,    \* captureLoop
  closer     \* Close

vars == <<call, fill, older, used, reserved, inflight, disabled, stopped, disk, page,
          lock, queue, writer, closer>>

counters == <<used, reserved, inflight>>
capture == <<page, lock, queue, writer>>

NoFill == [st |-> "none", span |-> Nothing, waiters |-> 0, attached |-> FALSE,
           cancelled |-> FALSE, err |-> "none", entry |-> FALSE, pins |-> 0]

Init ==
  /\ call = [o \in Calls |-> [pc |-> "idle", span |-> Nothing, at |-> Nothing,
                              left |-> FALSE, err |-> "none"]]
  /\ fill = [f \in Fills |-> NoFill]
  /\ older = [f \in Fills |-> {}]
  /\ used = 0 /\ reserved = 0 /\ inflight = 0
  /\ disabled = FALSE /\ stopped = FALSE
  /\ disk = {}
  /\ page = [p \in Pages |-> "idle"]
  /\ lock = Nothing
  /\ queue = <<>>
  /\ writer = "loop"
  /\ closer = [pc |-> "open", readers |-> {}]

-----------------------------------------------------------------------------
(* The state under the mutex *)

\* c.closed, set by Close together with the cancellation of c.ctx
closed == closer.pc \notin {"open", "barrier", "mark"}

Entries == {f \in Fills : fill[f].entry}
Attached == {f \in Fills : fill[f].attached}                    \* c.flights
Running == {f \in Fills : fill[f].st \in {"create", "write", "finish"}}
Length(f) == IF fill[f].span = Nothing THEN 0 ELSE fill[f].span.length
Bytes(fs) == SumFunctionOnSet([f \in Fills |-> Length(f)], fs)

\* byteRange.covers
Covers(r, s) ==
  /\ r.key = s.key
  /\ r.offset <= s.offset /\ s.offset + s.length <= r.offset + r.length

CoveringEntries(s) == {e \in Entries : Covers(fill[e].span, s)}

CoveringFlights_Faulty(s) == {f \in Attached \cap Calls : Covers(fill[f].span, s)}

CoveringFlights(s) == {f \in Attached : Covers(fill[f].span, s)}

\* e is used now, and becomes an entry if it was none.
MoveToFront(e) ==
  older' = [g \in Fills |-> IF g = e THEN Entries \ {e} ELSE older[g] \ {e}]

\* disableLocked
Disable == disabled' = TRUE /\ stopped' = TRUE
StayEnabled == UNCHANGED <<disabled, stopped>>

\* The candidates for eviction in reserveLocked.
Unpinned_Faulty == Entries

Unpinned == {e \in Entries : fill[e].pins = 0}

\* What its loop, which takes the least recently used first, may have evicted so far.
Victims == {V \in SUBSET Unpinned : \A v \in V, e \in Unpinned \ V : v \in older[e]}

\* There is room for another n bytes without V.
Fits(V, n) ==
  /\ used - Bytes(V) + reserved <= Budget - n
  /\ Cardinality(Entries \ V) + inflight < MaxEntries

Evict(V) ==
  /\ older' = [g \in Fills |-> IF g \in V THEN {} ELSE older[g] \ V]
  /\ used' = used - Bytes(V)
  /\ disk' = disk \ V

Remaining(V) == [e \in Fills |->
  IF e \in V THEN [fill[e] EXCEPT !.entry = FALSE] ELSE fill[e]]

\* reserveLocked evicts until the new fill fits; it starts with f's flight.
Admit(f, flight) ==
  \E V \in Victims :
    /\ Fits(V, flight.span.length)
    /\ \A W \in Victims : W \subseteq V /\ Fits(W, flight.span.length) => W = V
    /\ Evict(V)
    /\ fill' = [Remaining(V) EXCEPT ![f] = flight]
    /\ reserved' = reserved + flight.span.length /\ inflight' = inflight + 1
    /\ StayEnabled

\* ... or until nothing is left to evict, or a file cannot be removed.
Refuse(n) ==
  \E V \in Victims :
    /\ \A W \in Victims : W \subseteq V => ~Fits(W, n)
    /\ Evict(V)
    /\ fill' = Remaining(V)
    /\ IF V # Unpinned THEN Disable ELSE StayEnabled
    /\ UNCHANGED <<reserved, inflight>>

NewFlight(s, n) == [NoFill EXCEPT !.st = "create", !.span = s, !.waiters = n,
                                  !.attached = TRUE]

-----------------------------------------------------------------------------
(* Open *)

\* Open is over: with a reader of the source itself that the cache does not
\* know (direct), with an error, or the cached reader was closed.
End(o, err) == call' = [call EXCEPT ![o] = [pc |-> "over", span |-> Nothing,
                                            at |-> Nothing, left |-> FALSE, err |-> err]]

\* readerLocked of an entry: a pin is taken unless it was promised before.  The
\* file may fail to open; then storage is disabled and the caller bypasses.
OpenReader(o, s, e, promised) ==
  \/ /\ call' = [call EXCEPT ![o].pc = "reading", ![o].span = s, ![o].at = e]
     /\ fill' = IF promised THEN [fill EXCEPT ![e].waiters = @ - 1]
                            ELSE [fill EXCEPT ![e].pins = @ + 1]
     /\ MoveToFront(e)
     /\ StayEnabled
  \/ /\ End(o, "none")
     /\ fill' = IF promised THEN [fill EXCEPT ![e].waiters = @ - 1, ![e].pins = @ - 1]
                            ELSE fill
     /\ Disable
     /\ UNCHANGED older

\* The cache is closed, or cannot hold the range.
OpenPast(o, s) ==
  /\ closed \/ disabled \/ s.length > Budget
  /\ End(o, "none")
  /\ UNCHANGED <<fill, older, counters, disabled, stopped, disk>>

OpenHit(o, s) ==
  /\ \E e \in CoveringEntries(s) : OpenReader(o, s, e, FALSE)
  /\ UNCHANGED <<counters, disk>>

OpenJoin(o, s) ==
  /\ CoveringEntries(s) = {}
  /\ \E f \in CoveringFlights(s) :
       /\ fill' = [fill EXCEPT ![f].waiters = @ + 1]
       /\ call' = [call EXCEPT ![o].pc = "wait", ![o].span = s, ![o].at = f]
  /\ UNCHANGED <<older, counters, disabled, stopped, disk>>

OpenMiss(o, s) ==
  /\ CoveringEntries(s) = {} /\ CoveringFlights(s) = {}
  /\ \/ /\ Admit(o, NewFlight(s, 1))
        /\ call' = [call EXCEPT ![o].pc = "wait", ![o].span = s, ![o].at = o]
     \/ Refuse(s.length) /\ End(o, "none")

Open(o) ==
  /\ call[o].pc = "idle"
  /\ \E s \in Ranges :
       \/ OpenPast(o, s)
       \/ /\ ~closed /\ ~disabled /\ s.length <= Budget
          /\ OpenHit(o, s) \/ OpenJoin(o, s) \/ OpenMiss(o, s)
  /\ UNCHANGED <<capture, closer>>

\* The caller's context ends while it waits.
Leave(o) ==
  /\ call[o].pc = "wait" /\ ~call[o].left
  /\ call' = [call EXCEPT ![o].left = TRUE]
  /\ UNCHANGED <<fill, older, counters, disabled, stopped, disk, capture, closer>>

\* wait, after its select: a caller that left, or that a closed cache turns away,
\* gives its promised pin back, or cancels a fill nobody else waits for.
TurnAway_Faulty(o, f) ==
  fill' = IF fill[f].entry THEN [fill EXCEPT ![f].waiters = @ - 1, ![f].pins = @ - 1]
          ELSE IF fill[f].st # "done" /\ f \in Calls
            THEN [fill EXCEPT ![f].waiters = @ - 1, ![f].attached = FALSE, ![f].cancelled = TRUE]
          ELSE [fill EXCEPT ![f].waiters = @ - 1]

TurnAway(o, f) ==
  fill' = IF fill[f].entry THEN [fill EXCEPT ![f].waiters = @ - 1, ![f].pins = @ - 1]
          ELSE IF fill[f].st # "done" /\ fill[f].waiters = 1 /\ f \in Calls
            THEN [fill EXCEPT ![f].waiters = 0, ![f].attached = FALSE, ![f].cancelled = TRUE]
          ELSE [fill EXCEPT ![f].waiters = @ - 1]

WaitTurnedAway(o) ==
  LET f == call[o].at IN
  /\ call[o].pc = "wait" /\ (call[o].left \/ closed)
  /\ TurnAway(o, f)
  /\ End(o, "none")
  /\ UNCHANGED <<older, counters, disabled, stopped, disk, capture, closer>>

\* A storage failure is bypassed; a failure of the source is the caller's result.
WaitFailed(o) ==
  LET f == call[o].at IN
  /\ call[o].pc = "wait" /\ ~call[o].left /\ ~closed
  /\ fill[f].st = "done" /\ fill[f].err # "none"
  /\ fill' = [fill EXCEPT ![f].waiters = @ - 1]
  /\ End(o, IF fill[f].err = "storage" THEN "none" ELSE fill[f].err)
  /\ UNCHANGED <<older, counters, disabled, stopped, disk, capture, closer>>

WaitServed(o) ==
  LET f == call[o].at IN
  /\ call[o].pc = "wait" /\ ~call[o].left /\ ~closed
  /\ fill[f].st = "done" /\ fill[f].err = "none"
  /\ OpenReader(o, call[o].span, f, TRUE)
  /\ UNCHANGED <<counters, disk, capture, closer>>

\* cachedReader.Close, by the caller or by Cache.Close
CloseReader(o) ==
  /\ call[o].pc = "reading"
  /\ End(o, "none")
  /\ fill' = [fill EXCEPT ![call[o].at].pins = @ - 1]
  /\ UNCHANGED <<older, counters, disabled, stopped, disk, capture, closer>>

-----------------------------------------------------------------------------
(* fill and offer: the work of a flight outside the mutex *)

\* f.ctx.Err() may be set: its waiters are gone or the cache is closed.
Cancellable(f) == f \in Calls /\ (fill[f].cancelled \/ closed)

\* The temporary file is created.
CreateFile(f) ==
  /\ fill[f].st = "create"
  /\ \/ fill' = [fill EXCEPT ![f].st = "write"] /\ disk' = disk \cup {f}
     \/ /\ fill' = [fill EXCEPT ![f].st = "finish", ![f].err = "storage"]
        /\ UNCHANGED disk
     \/ /\ Cancellable(f)
        /\ fill' = [fill EXCEPT ![f].st = "finish", ![f].err = "canceled"]
        /\ UNCHANGED disk
  /\ UNCHANGED <<call, older, counters, disabled, stopped, capture, closer>>

\* The range is fetched, written and renamed; a captured page is only written.
WriteFile(f) ==
  /\ fill[f].st = "write"
  /\ \E err \in {"none", "source", "storage", "canceled"} :
       /\ err = "source" => f \in Calls
       /\ err = "canceled" => Cancellable(f)
       /\ fill' = [fill EXCEPT ![f].st = "finish", ![f].err = err]
  /\ UNCHANGED <<call, older, counters, disabled, stopped, disk, capture, closer>>

\* finish: what was written is unwanted when the cache closed or nobody waits.
Verdict(f) ==
  IF fill[f].err = "none" /\ (closed \/ (fill[f].waiters = 0 /\ f \in Calls))
    THEN "canceled" ELSE fill[f].err

Settled(f) == [fill EXCEPT ![f].st = "done", ![f].attached = FALSE, ![f].err = Verdict(f)]

FinishFailed_Faulty(f) ==
  /\ Verdict(f) # "none"
  /\ fill' = Settled(f)
  /\ reserved' = reserved - fill[f].span.length
  /\ \/ disk' = disk \ {f}
       /\ IF Verdict(f) = "storage" THEN Disable ELSE StayEnabled
     \/ /\ f \in disk /\ UNCHANGED disk
        /\ Disable
  /\ UNCHANGED <<older, used>>

\* A file that cannot be removed keeps its reservation and disables the cache.
FinishFailed(f) ==
  /\ Verdict(f) # "none"
  /\ fill' = Settled(f)
  /\ \/ /\ disk' = disk \ {f}
        /\ reserved' = reserved - fill[f].span.length
        /\ IF Verdict(f) = "storage" THEN Disable ELSE StayEnabled
     \/ /\ f \in disk /\ UNCHANGED <<disk, reserved>>
        /\ Disable
  /\ UNCHANGED <<older, used>>

FinishStored_Faulty(f) ==
  /\ Verdict(f) = "none"
  /\ fill' = [Settled(f) EXCEPT ![f].entry = TRUE]
  /\ MoveToFront(f)
  /\ reserved' = reserved - fill[f].span.length
  /\ used' = used + fill[f].span.length
  /\ UNCHANGED <<disk, disabled, stopped>>

FinishStored(f) ==
  /\ Verdict(f) = "none"
  /\ fill' = [Settled(f) EXCEPT ![f].entry = TRUE, ![f].pins = fill[f].waiters]
  /\ MoveToFront(f)
  /\ reserved' = reserved - fill[f].span.length
  /\ used' = used + fill[f].span.length
  /\ UNCHANGED <<disk, disabled, stopped>>

Finish(f) ==
  /\ fill[f].st = "finish"
  /\ FinishFailed(f) \/ FinishStored(f)
  /\ inflight' = inflight - 1
  /\ UNCHANGED <<call, capture, closer>>

-----------------------------------------------------------------------------
(* Capture *)

\* enqueue: a page is dropped when capture is stopped or captureMu is taken.
Enqueue(p) ==
  /\ page[p] = "idle"
  /\ \/ /\ ~stopped /\ lock = Nothing
        /\ lock' = p /\ page' = [page EXCEPT ![p] = "locked"]
     \/ /\ stopped \/ lock # Nothing
        /\ page' = [page EXCEPT ![p] = "gone"] /\ UNCHANGED lock
  /\ UNCHANGED <<call, fill, older, counters, disabled, stopped, disk, queue, writer,
                 closer>>

\* Under captureMu the admission is checked again.
Recheck_Faulty(p) ==
  /\ page[p] = "locked"
  /\ page' = [page EXCEPT ![p] = IF stopped THEN "gone" ELSE "admitted"]
  /\ UNCHANGED <<call, fill, older, counters, disabled, stopped, disk, lock, queue,
                 writer, closer>>

Recheck(p) ==
  /\ page[p] = "locked"
  /\ IF stopped THEN page' = [page EXCEPT ![p] = "gone"] /\ lock' = Nothing
     ELSE page' = [page EXCEPT ![p] = "admitted"] /\ UNCHANGED lock
  /\ UNCHANGED <<call, fill, older, counters, disabled, stopped, disk, queue, writer,
                 closer>>

\* The page is sent unless the queue is full.
Send(p) ==
  /\ page[p] = "admitted"
  /\ lock' = Nothing
  /\ IF Len(queue) >= QueueLimit
       THEN page' = [page EXCEPT ![p] = "gone"] /\ UNCHANGED queue
       ELSE page' = [page EXCEPT ![p] = "queued"] /\ queue' = Append(queue, p)
  /\ UNCHANGED <<call, fill, older, counters, disabled, stopped, disk, writer, closer>>

Take == /\ queue # <<>>
        /\ queue' = Tail(queue)
        /\ page' = [page EXCEPT ![Head(queue)] = "gone"]

WriterIdle == writer = "loop" /\ Running \cap Pages = {}

\* offer: the page at hand is dropped, is known already, or becomes a flight.
Offer(p, s) ==
  \/ /\ stopped \/ closed \/ disabled \/ s.length > Budget
          \/ CoveringEntries(s) \cup CoveringFlights(s) # {}
     /\ UNCHANGED <<fill, older, counters, disabled, stopped, disk>>
  \/ /\ ~stopped /\ ~closed /\ ~disabled /\ s.length <= Budget
     /\ CoveringEntries(s) \cup CoveringFlights(s) = {}
     /\ Admit(p, NewFlight(s, 0)) \/ Refuse(s.length)

\* captureLoop receives a page.
WriterTake ==
  /\ WriterIdle /\ Take
  /\ \E s \in Ranges : Offer(Head(queue), s)
  /\ UNCHANGED <<call, lock, writer, closer>>

\* Once the context is cancelled the loop drains the queue and ends.
WriterStop ==
  /\ WriterIdle /\ closed
  /\ writer' = "drain"
  /\ UNCHANGED <<call, fill, older, counters, disabled, stopped, disk, page, lock, queue,
                 closer>>

WriterDrain ==
  /\ writer = "drain"
  /\ \/ Take /\ UNCHANGED writer
     \/ queue = <<>> /\ writer' = "done" /\ UNCHANGED <<queue, page>>
  /\ UNCHANGED <<call, fill, older, counters, disabled, stopped, disk, lock, closer>>

-----------------------------------------------------------------------------
(* Close *)

CloseBegin ==
  /\ closer.pc = "open"
  /\ closer' = [closer EXCEPT !.pc = "barrier"]
  /\ UNCHANGED <<call, fill, older, counters, disabled, stopped, disk, capture>>

\* captureMu is taken to stop admissions: no page can be sent afterwards.
CloseBarrier_Faulty ==
  /\ closer.pc = "barrier"
  /\ stopped' = TRUE
  /\ closer' = [closer EXCEPT !.pc = "mark"]
  /\ UNCHANGED <<call, fill, older, counters, disabled, disk, capture>>

CloseBarrier ==
  /\ closer.pc = "barrier" /\ lock = Nothing
  /\ stopped' = TRUE
  /\ closer' = [closer EXCEPT !.pc = "mark"]
  /\ UNCHANGED <<call, fill, older, counters, disabled, disk, capture>>

\* c.closed is set, fills are cancelled, the open readers are listed.
CloseMark ==
  /\ closer.pc = "mark"
  /\ closer' = [pc |-> "readers", readers |-> {o \in Calls : call[o].pc = "reading"}]
  /\ UNCHANGED <<call, fill, older, counters, disabled, stopped, disk, capture>>

CloseReaders ==
  /\ closer.pc = "readers"
  /\ IF \E o \in closer.readers : call[o].pc = "reading"
       THEN \E o \in closer.readers : CloseReader(o)
       ELSE /\ closer' = [pc |-> "wait", readers |-> {}]
            /\ UNCHANGED <<call, fill, older, counters, disabled, stopped, disk, capture>>

\* wg.Wait, and the blocks are removed as far as that succeeds.
CloseWait ==
  /\ closer.pc = "wait" /\ Running = {} /\ writer = "done"
  /\ disk' \in {{}, disk}
  /\ closer' = [closer EXCEPT !.pc = "done"]
  /\ UNCHANGED <<call, fill, older, counters, disabled, stopped, capture>>

-----------------------------------------------------------------------------
Flight == \E f \in Fills : CreateFile(f) \/ WriteFile(f) \/ Finish(f)
Wait(o) == WaitTurnedAway(o) \/ WaitFailed(o) \/ WaitServed(o)
Writer == WriterTake \/ WriterStop \/ WriterDrain
Close == CloseBarrier \/ CloseMark \/ CloseReaders \/ CloseWait

Next ==
  \/ \E o \in Calls : Open(o) \/ Leave(o) \/ Wait(o) \/ CloseReader(o)
  \/ Flight
  \/ \E p \in Pages : Enqueue(p) \/ Recheck(p) \/ Send(p)
  \/ Writer
  \/ CloseBegin \/ Close

Spec == Init /\ [][Next]_vars

\* Goroutines run and the disk answers.  A source may be silent for ever, unless
\* its fill was cancelled: "fetch must obey its context" (cache.go:154).
Fairness ==
  /\ \A f \in Fills : /\ WF_vars(CreateFile(f)) /\ WF_vars(Finish(f))
                      /\ WF_vars((f \in Calls => Cancellable(f)) /\ WriteFile(f))
  /\ \A o \in Calls : WF_vars(Wait(o))
  /\ \A p \in Pages : WF_vars(Recheck(p) \/ Send(p))
  /\ WF_vars(Writer) /\ WF_vars(Close)

FairSpec == Spec /\ Fairness

-----------------------------------------------------------------------------
(* Properties *)

\* The cache keeps its types.
TypeOK ==
  /\ call \in [Calls -> [pc : {"idle", "wait", "reading", "over"},
                         span : Ranges \cup {Nothing}, at : Fills \cup {Nothing},
                         left : BOOLEAN, err : {"none", "source", "canceled"}]]
  /\ fill \in [Fills -> [st : {"none", "create", "write", "finish", "done"},
                         span : Ranges \cup {Nothing}, waiters : 0..Cardinality(Calls),
                         attached : BOOLEAN, cancelled : BOOLEAN, entry : BOOLEAN,
                         err : {"none", "source", "storage", "canceled"},
                         pins : 0..Cardinality(Calls)]]
  /\ {used, reserved} \subseteq 0..Budget /\ inflight \in 0..Cardinality(Fills)
  /\ disk \subseteq Fills /\ {disabled, stopped} \subseteq BOOLEAN
  /\ page \in [Pages -> {"idle", "locked", "admitted", "queued", "gone"}]
  /\ lock \in Pages \cup {Nothing} /\ Len(queue) <= QueueLimit

\* The counters are the truth, whatever failed or was abandoned: the stored
\* entries, the fills at work, and the files that could not be removed.  So the
\* files never exceed the budget or the number of entries, also when blocks
\* cannot be removed, fills were cancelled and others took over.
Stuck == {f \in disk : fill[f].st = "done" /\ ~fill[f].entry}

Accounting ==
  /\ TypeOK
  /\ used = Bytes(Entries)
  /\ inflight = Cardinality(Running)
  /\ \A f \in Fills : older[f] \subseteq (IF f \in Entries THEN Entries \ {f} ELSE {})
  /\ \A f, g \in Entries : f # g => (f \in older[g] <=> g \notin older[f])
  /\ closer.pc # "done" => reserved = Bytes(Running \cup Stuck)
  /\ Bytes(disk) <= Budget /\ Cardinality(disk) <= MaxEntries

\* An entry is pinned by its open readers and by the callers it is promised to,
\* each once, and a fill knows how many wait for it; so no pin is lost (an entry
\* evicted under a reader) and none is left over (an entry that cannot go).
HoldersCounted ==
  \A f \in Fills :
    LET at(pc) == Cardinality({o \in Calls : call[o].at = f /\ call[o].pc = pc}) IN
    /\ fill[f].waiters = at("wait")
    /\ fill[f].pins = IF fill[f].entry THEN at("wait") + at("reading") ELSE 0

\* Bytes, files and pins together.
BooksBalance == Accounting /\ HoldersCounted

\* What a caller reads, or is about to read, is stored, covers its range, and
\* has its file.
ServedFromDisk ==
  \A o \in Calls :
    \/ call[o].pc = "reading"
    \/ call[o].pc = "wait" /\ fill[call[o].at].entry /\ ~closed
    => /\ call[o].at \in Entries \cap disk
       /\ Covers(fill[call[o].at].span, call[o].span)

\* A range is stored once or being filled once: the maps of entries and flights
\* never overwrite one, also when a fill was abandoned and started again.
UniqueRanges ==
  \A f, g \in Entries \cup Attached : fill[f].span = fill[g].span => f = g

\* The index of the cache never lies: one block per range, each with its file.
IndexSound == ServedFromDisk /\ UniqueRanges

\* "Canceling one caller does not cancel another caller's fill" (cache.go:162):
\* who stays is only failed by the source.
CancelIsPrivate == \A o \in Calls : call[o].err \in {"none", "source"}

\* After Close nothing is at work, no cached reader is open and no page is left.
QuietAfterClose ==
  closer.pc = "done" =>
    /\ Running = {} /\ queue = <<>> /\ writer = "done"
    /\ \A o \in Calls : call[o].pc # "reading"

\* Close comes to an end, whatever is being filled, read or captured.
CloseFinishes == closer.pc = "barrier" ~> closer.pc = "done"
=============================================================================
