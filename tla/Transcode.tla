------------------------------- MODULE Transcode -------------------------------
(***************************************************************************)
(* The jobs of the audio conversion, internal/transcode/manager.go.        *)
(*                                                                         *)
(* Players ask for the segments of a job.  A segment the catalog has is    *)
(* opened at once; for another one the player registers a demand, which    *)
(* protects the segment, the job is queued, and the player sleeps until    *)
(* the job changes.  A worker takes the job, runs FFmpeg from the oldest   *)
(* demand on over a window of segments and commits each as it is           *)
(* complete.  A job can be stopped, replaced or ended at any time, and the *)
(* run that is under way must then publish nothing.                        *)
(*                                                                         *)
(* Each critical section of m.mu is one step.  The catalog is the store it *)
(* promises to be (SegmentStore).  A run is obsolete when the generation   *)
(* of its job has moved on, so the generation is a flag of the run.        *)
(***************************************************************************)
EXTENDS Integers, Sequences, FiniteSets, FiniteSetsExt

CONSTANTS
  Jobs,       \* the jobs that may be created, each with an id of its own
  Length,     \* the segments of a timeline, timeline.Len()
  Openers,    \* requests of players
  Workers,
  MaxJobs,    \* cfg.MaxJobs: jobs, and the length of the queue
  Lookahead,  \* lookaheadSegments
  Nothing     \* no job, no segment

ASSUME TranscodeAssumption ==
  /\ {Length, MaxJobs, Lookahead} \subseteq Nat \ {0}
  /\ IsFiniteSet(Jobs) /\ IsFiniteSet(Openers) /\ IsFiniteSet(Workers)
  /\ MaxJobs >= Cardinality(Workers)
  /\ Nothing \notin Jobs

Segments == 0..Length - 1
Header == -1   \* the index of the initialization data
Indexes == Segments \cup {Header}

VARIABLES
  job,      \* the fields of each job
  queue,    \* m.queue
  worker,   \* the workers, with the run each is busy with
  opener,   \* where each request is in Open, and for what
  closed,   \* m.closed
  entries, wanted, held  \* the catalog

store == <<entries, wanted, held>>
vars == <<job, queue, worker, opener, closed, entries, wanted, held>>

Catalog == INSTANCE SegmentStore WITH Readers <- Openers

NewJob == [made |-> FALSE, closed |-> FALSE, prep |-> "none", state |-> "ready",
           failure |-> "", queued |-> FALSE, running |-> FALSE, init |-> FALSE,
           replacement |-> Nothing,
           count |-> [i \in Indexes |-> 0],    \* count of each demand
           older |-> [i \in Indexes |-> {}]]   \* order: the demands made before it
NoRun == [at |-> "idle", job |-> Nothing, start |-> 0, seg |-> 0,
          obsolete |-> FALSE, err |-> ""]
Idler == [at |-> "idle", job |-> Nothing, index |-> 0]

Init ==
  /\ job = [j \in Jobs |-> NewJob]
  /\ queue = <<>>
  /\ worker = [w \in Workers |-> NoRun]
  /\ opener = [o \in Openers |-> Idler]
  /\ closed = FALSE
  /\ Catalog!Init

-----------------------------------------------------------------------------
\* get
Live(j) == j # Nothing /\ job[j].made /\ ~job[j].closed

\* The data that was asked for is there.
Has(j, i) == IF i = Header THEN job[j].init ELSE <<j, i>> \in entries

\* changed: who sleeps on one of the jobs js wakes up.
Wake(js) ==
  opener' = [o \in Openers |-> IF opener[o].at = "waiting" /\ opener[o].job \in js
                               THEN [opener[o] EXCEPT !.at = "woken"] ELSE opener[o]]

Looks(o) == opener[o].at \in {"loop", "woken"}

Goto(o, at) == opener' = [opener EXCEPT ![o].at = at]

Busy == {"start", "run", "write", "wrote", "returned"}
Runs(j) == {w \in Workers : worker[w].job = j /\ worker[w].at \in Busy}

\* The generation of the jobs js moves on and their runs are cancelled.
Obsolete(js) ==
  [w \in Workers |-> IF worker[w].job \in js /\ worker[w].at \in Busy
                     THEN [worker[w] EXCEPT !.obsolete = TRUE] ELSE worker[w]]

\* enqueue, for a job whose fields are r by now; the result is its fields after it.
Idle_Faulty(r) == ~r.queued /\ ~r.closed

Idle(r) == ~r.queued /\ ~r.running /\ ~r.closed

Enqueued(r) ==
  IF ~Idle(r) THEN r
  ELSE IF Len(queue) < MaxJobs THEN [r EXCEPT !.queued = TRUE, !.state = "queued"]
  ELSE [r EXCEPT !.state = "failed", !.failure = "capacity_exhausted"]

Enqueue(j, r) ==
  /\ job' = [job EXCEPT ![j] = Enqueued(r)]
  /\ queue' = IF Idle(r) /\ Len(queue) < MaxJobs THEN Append(queue, j) ELSE queue

-----------------------------------------------------------------------------
(* Jobs *)

Create(j) ==
  /\ ~closed /\ ~job[j].made
  /\ Cardinality({i \in Jobs : Live(i)}) < MaxJobs
  /\ job' = [job EXCEPT ![j].made = TRUE]
  /\ UNCHANGED <<queue, worker, opener, closed, store>>

\* The goroutine of prepare: a slot for the probe, the timeline, and its end.
PrepareStart(j) ==
  /\ job[j].prep = "asked"
  /\ Cardinality({i \in Jobs : job[i].prep = "probing"}) < Cardinality(Workers)
  /\ job' = [job EXCEPT ![j].prep = "probing"]
  /\ UNCHANGED <<queue, worker, opener, closed, store>>

PrepareEnd(j) ==
  /\ \/ job[j].prep = "probing"
     \/ job[j].prep = "asked"   \* its time is over, or the job has ended
  /\ \E ok \in {job[j].prep = "probing", FALSE} :
       LET r == [job[j] EXCEPT !.prep = IF ok THEN "ok" ELSE "failed"] IN
       job' = [job EXCEPT ![j] =
                 IF r.closed THEN r
                 ELSE IF ok THEN [r EXCEPT !.state = "ready"]
                 ELSE [r EXCEPT !.state = "failed", !.failure = "source"]]
  /\ Wake({j})
  /\ UNCHANGED <<queue, worker, closed, store>>

\* StopEncoding: with a replacement the job ends; without one its run does, and
\* the address stays.
StopEncoding(j) ==
  LET next == job[j].replacement IN
  /\ Live(j) /\ ~Live(next)
  /\ worker' = Obsolete({j})
  /\ job' = [job EXCEPT ![j].failure = ""]
  /\ Wake({j})
  /\ UNCHANGED <<queue, closed, store>>

LinkReplacement(j, next) ==
  /\ j # next /\ Live(j) /\ Live(next)
  /\ job' = [job EXCEPT ![j].replacement = next]
  /\ UNCHANGED <<queue, worker, opener, closed, store>>

\* end, for several jobs at once: by End, by EndOwner, by StopEncoding of a job
\* that was replaced, by maintain when jobs are idle for too long or their owner
\* is no longer valid, and by Close.
End(js) ==
  /\ job' = [j \in Jobs |->
       IF j \notin js THEN job[j]
       ELSE [job[j] EXCEPT !.closed = TRUE,
                           !.state = IF job[j].failure = "" THEN "stopped" ELSE "failed"]]
  /\ worker' = Obsolete(js)
  /\ Wake(js)
  /\ Catalog!Drop(js)

EndJobs(js) ==
  /\ js # {} /\ \A j \in js : Live(j)
  /\ End(js)
  /\ UNCHANGED <<queue, closed>>

\* Close, up to the point where it waits for the goroutines.
Close ==
  /\ ~closed
  /\ closed' = TRUE
  /\ End({j \in Jobs : Live(j)})
  /\ UNCHANGED queue

-----------------------------------------------------------------------------
(* Open *)

\* prepare: the first request of a job starts its preparation.
Ask(o, j, i) ==
  /\ opener[o].at = "idle" /\ Live(j)
  /\ opener' = [opener EXCEPT ![o] = [at |-> "preparing", job |-> j, index |-> i]]
  /\ job' = IF job[j].prep = "none"
            THEN [job EXCEPT ![j] = [job[j] EXCEPT !.prep = "asked", !.state = "preparing"]]
            ELSE job
  /\ UNCHANGED <<queue, worker, closed, store>>

Prepared(o) ==
  /\ opener[o].at = "preparing"
  /\ Goto(o, "ready") /\ job[opener[o].job].prep = "ok" /\ Live(opener[o].job)
  /\ UNCHANGED <<job, queue, worker, closed, store>>

\* The request is cancelled, the job ended, or the source cannot be prepared.
NotPrepared(o) ==
  /\ opener[o].at = "preparing"
  /\ opener' = [opener EXCEPT ![o] = Idler]
  /\ UNCHANGED <<job, queue, worker, closed, store>>

\* j.demands: what somebody waits for.
Demanded(j) == {i \in Indexes : job[j].count[i] > 0}

\* The demand is registered and protects its segment.
Register_Faulty(o) ==
  LET j == opener[o].job  i == opener[o].index IN
  /\ opener[o].at = "ready"
  /\ job' = [job EXCEPT ![j] =
                [job[j] EXCEPT !.count[i] = @ + 1,
                               !.older[i] = IF i \in Demanded(j) THEN @ ELSE Demanded(j)]]
  /\ Goto(o, "loop")
  /\ IF i # Header /\ job[j].count[i] = 0 THEN Catalog!Protect(<<j, i>>, 1) ELSE UNCHANGED store
  /\ UNCHANGED <<queue, worker, closed>>

Register(o) ==
  LET j == opener[o].job  i == opener[o].index IN
  /\ opener[o].at = "ready"
  /\ job' = [job EXCEPT ![j] =
                [job[j] EXCEPT !.count[i] = @ + 1,
                               !.older[i] = IF i \in Demanded(j) THEN @ ELSE Demanded(j)]]
  /\ Goto(o, "loop")
  /\ IF i # Header THEN Catalog!Protect(<<j, i>>, 1) ELSE UNCHANGED store
  /\ UNCHANGED <<queue, worker, closed>>

\* The loop finds the data, or a reason to give up.
Serve(o) ==
  LET j == opener[o].job  i == opener[o].index IN
  /\ Looks(o) /\ Live(j) /\ Has(j, i)
  /\ IF i = Header THEN UNCHANGED store ELSE Catalog!Open(o, <<j, i>>)
  /\ Goto(o, "leaving")
  /\ UNCHANGED <<job, queue, worker, closed>>

Refuse(o) ==
  LET j == opener[o].job IN
  /\ Looks(o)
  /\ ~Live(j) \/ (~Has(j, opener[o].index) /\ job[j].failure # "")
  /\ Goto(o, "leaving")
  /\ UNCHANGED <<job, queue, worker, closed, store>>

\* The loop finds nothing: the job is queued and the request sleeps, unless the
\* queue is full, which is a failure of the job.
Sleep(o) ==
  LET j == opener[o].job IN
  /\ Looks(o) /\ Live(j)
  /\ ~Has(j, opener[o].index) /\ job[j].failure = ""
  /\ Enqueue(j, job[j])
  /\ IF Enqueued(job[j]).failure = "" THEN Goto(o, "waiting")
     ELSE opener' = [p \in Openers |->
            IF p = o THEN [opener[p] EXCEPT !.at = "leaving"]
            ELSE IF opener[p].at = "waiting" /\ opener[p].job = j
              THEN [opener[p] EXCEPT !.at = "woken"] ELSE opener[p]]
  /\ UNCHANGED <<worker, closed, store>>

\* The request is cancelled or its time is over.
GiveUp(o) ==
  /\ opener[o].at \in {"waiting", "woken"}
  /\ Goto(o, "leaving")
  /\ UNCHANGED <<job, queue, worker, closed, store>>

\* delete, of the demand i
Deleted(older, i) == [k \in Indexes |-> IF k = i THEN {} ELSE older[k] \ {i}]

\* The deferred end of the demand.  (The faulty form deletes a demand others share.)
Release_Faulty(o) ==
  LET j == opener[o].job  i == opener[o].index IN
  /\ opener[o].at = "leaving"
  /\ job' = [job EXCEPT ![j] = [job[j] EXCEPT !.count[i] = 0, !.older = Deleted(@, i)]]
  /\ IF i = Header THEN UNCHANGED store ELSE Catalog!Protect(<<j, i>>, -1)
  /\ opener' = [opener EXCEPT ![o] = IF held[o] = Nothing THEN Idler
                                    ELSE [opener[o] EXCEPT !.at = "reading"]]
  /\ UNCHANGED <<queue, worker, closed>>

Release(o) ==
  LET j == opener[o].job  i == opener[o].index IN
  /\ opener[o].at = "leaving"
  /\ job' = [job EXCEPT ![j] =
                [job[j] EXCEPT !.count[i] = @ - 1,
                               !.older = IF job[j].count[i] = 1 THEN Deleted(@, i) ELSE @]]
  /\ IF i = Header THEN UNCHANGED store ELSE Catalog!Protect(<<j, i>>, -1)
  /\ opener' = [opener EXCEPT ![o] = IF held[o] = Nothing THEN Idler
                                    ELSE [opener[o] EXCEPT !.at = "reading"]]
  /\ UNCHANGED <<queue, worker, closed>>

CloseLease(o) ==
  /\ opener[o].at = "reading"
  /\ Catalog!Close(o)
  /\ opener' = [opener EXCEPT ![o] = Idler]
  /\ UNCHANGED <<job, queue, worker, closed>>

-----------------------------------------------------------------------------
(* The workers *)

\* The select of worker: a job from the queue, or the end of the manager.
Take(w) ==
  /\ worker[w].at = "idle" /\ queue # <<>>
  /\ worker' = [worker EXCEPT ![w] = [NoRun EXCEPT !.at = "taken", !.job = Head(queue)]]
  /\ queue' = Tail(queue)
  /\ UNCHANGED <<job, opener, closed, store>>

\* (The faulty form waits on the queue alone and looks at m.ctx afterwards.)
Exit_Faulty(w) ==
  /\ worker[w].at = "idle" /\ closed /\ queue # <<>>
  /\ worker' = [worker EXCEPT ![w].at = "exited"]
  /\ UNCHANGED <<job, queue, opener, closed, store>>

Exit(w) ==
  /\ worker[w].at = "idle" /\ closed
  /\ worker' = [worker EXCEPT ![w].at = "exited"]
  /\ UNCHANGED <<job, queue, opener, closed, store>>

\* The demands of a job that are not met yet.
Unmet(j) == {i \in Demanded(j) : ~Has(j, i)}

\* The demand a run is started for: the oldest.
Chosen(j) == CHOOSE i \in Unmet(j) : job[j].older[i] \cap Unmet(j) = {}

\* work finds nothing to do: the job was closed, or every demand is met.
NoWork(w) ==
  LET j == worker[w].job IN
  /\ worker[w].at = "taken"
  /\ ~Live(j) \/ Unmet(j) = {}
  /\ job' = [job EXCEPT ![j] = [job[j] EXCEPT !.queued = FALSE,
                                              !.state = IF Live(j) THEN "ready" ELSE @]]
  /\ worker' = [worker EXCEPT ![w] = NoRun]
  /\ UNCHANGED <<queue, opener, closed, store>>

\* work starts a run; the initialization data comes with a run of any segment,
\* here the first.
StartRun(w) ==
  LET j == worker[w].job IN
  /\ worker[w].at = "taken" /\ Live(j) /\ Unmet(j) # {}
  /\ LET start == IF Chosen(j) = Header THEN 0 ELSE Chosen(j) IN
       worker' = [Obsolete({j}) EXCEPT
                    ![w] = [NoRun EXCEPT !.at = "start", !.job = j, !.start = start,
                                         !.seg = start - 1]]
  /\ job' = [job EXCEPT ![j] = [job[j] EXCEPT !.queued = FALSE, !.running = TRUE,
                                              !.state = "producing"]]
  /\ Wake({j})
  /\ UNCHANGED <<queue, closed, store>>

\* The callbacks of a run act only for the current generation of an open job.
Valid_Faulty(w) == worker[w].job \in Jobs

Valid(w) == Live(worker[w].job) /\ ~worker[w].obsolete

Advance(w, at) == worker' = [worker EXCEPT ![w].at = at]

\* runFFmpeg returns, with no error when the window is complete.
Return(w, err) == worker' = [worker EXCEPT ![w] = [@ EXCEPT !.at = "returned", !.err = err]]

\* The error of a context that was cancelled comes before any other.
Fail(w, err) == Return(w, IF worker[w].obsolete THEN "canceled" ELSE err)

\* Init: the initialization data of the first run stays; another that differs is
\* an error.
RunInit(w) ==
  LET j == worker[w].job IN
  /\ worker[w].at = "start"
  /\ \/ /\ Valid(w)
        /\ Advance(w, "run")
        /\ job' = [job EXCEPT ![j].init = TRUE]
        /\ IF job[j].init THEN UNCHANGED opener ELSE Wake({j})
     \/ ~Valid(w) /\ Return(w, "canceled") /\ UNCHANGED <<job, opener>>
  /\ UNCHANGED <<queue, closed, store>>

WindowEnd(w) == Min({Length, worker[w].start + Lookahead})

\* A fragment of a later segment: a writer is created for it, or it lies behind
\* the window, which is then complete.
Fragment(w, n) ==
  /\ worker[w].at = "run" /\ n > worker[w].seg /\ n < WindowEnd(w)
  /\ IF Valid(w) THEN worker' = [worker EXCEPT ![w] = [@ EXCEPT !.at = "write", !.seg = n]]
                 ELSE Return(w, "canceled")
  /\ UNCHANGED <<job, queue, opener, closed, store>>

WindowComplete(w) ==
  /\ worker[w].at = "run"
  /\ WindowEnd(w) < Length \/ worker[w].seg = Length - 1
  /\ Return(w, "none")
  /\ UNCHANGED <<job, queue, opener, closed, store>>

\* The data is written, for which the catalog may have to forget something.
WriteSegment(w) ==
  /\ worker[w].at = "write"
  /\ \E ks \in SUBSET Catalog!Idle : Catalog!Forget(ks)
  /\ Advance(w, "wrote") \/ Fail(w, "capacity_exhausted")
  /\ UNCHANGED <<job, queue, opener, closed>>

CommitSegment_Faulty(w) ==
  LET k == <<worker[w].job, worker[w].seg>> IN
  /\ worker[w].at = "wrote"
  /\ IF Valid(w)
       THEN (\E ks \in SUBSET (Catalog!Idle \ {k}) : Catalog!Put(k, ks)) /\ Advance(w, "run")
       ELSE Return(w, "canceled") /\ UNCHANGED store
  /\ UNCHANGED <<job, queue, opener, closed>>

CommitSegment(w) ==
  LET k == <<worker[w].job, worker[w].seg>> IN
  /\ worker[w].at = "wrote"
  /\ \/ /\ Valid(w)
        /\ \E ks \in SUBSET (Catalog!Idle \ {k}) : Catalog!Put(k, ks)
        /\ Advance(w, "run")
        /\ Wake({worker[w].job})
     \/ /\ Valid(w) /\ Return(w, "capacity_exhausted") /\ UNCHANGED <<opener, store>>
     \/ /\ ~Valid(w) /\ Return(w, "canceled") /\ UNCHANGED <<opener, store>>
  /\ UNCHANGED <<job, queue, closed>>

\* The source, FFmpeg or the time of the run fails, or the run was cancelled; an
\* unfinished segment is discarded.
RunFails(w) ==
  /\ worker[w].at \in {"start", "run", "write", "wrote"}
  /\ Fail(w, "worker")
  /\ UNCHANGED <<job, queue, opener, closed, store>>

\* The end of work: what is still demanded is queued again.
EndRun(w) ==
  LET j == worker[w].job
      failed == worker[w].err \notin {"none", "canceled"}
      r == [job[j] EXCEPT !.running = FALSE, !.state = IF failed THEN "failed" ELSE "ready",
                          !.failure = IF failed THEN worker[w].err ELSE @] IN
  /\ worker[w].at = "returned"
  /\ worker' = [worker EXCEPT ![w] = NoRun]
  /\ IF ~Live(j)
       THEN job' = [job EXCEPT ![j].running = FALSE] /\ UNCHANGED <<queue, opener>>
       ELSE /\ Wake({j})
            /\ IF r.failure = "" /\ Unmet(j) # {}
                 THEN Enqueue(j, r)
                 ELSE job' = [job EXCEPT ![j] = r] /\ UNCHANGED queue
  /\ UNCHANGED <<closed, store>>

-----------------------------------------------------------------------------
Prepare(j) == PrepareStart(j) \/ PrepareEnd(j)

Step(o) ==
  Prepared(o) \/ NotPrepared(o) \/ Register(o) \/ Serve(o) \/ Refuse(o) \/ Sleep(o)
    \/ Release(o)

Run(w) ==
  NoWork(w) \/ StartRun(w) \/ RunInit(w) \/ (\E n \in Segments : Fragment(w, n))
    \/ WindowComplete(w) \/ WriteSegment(w) \/ CommitSegment(w) \/ RunFails(w) \/ EndRun(w)

Next ==
  \/ \E j \in Jobs : \/ Create(j) \/ Prepare(j) \/ StopEncoding(j)
                     \/ \E next \in Jobs : LinkReplacement(j, next)
                     \/ \E o \in Openers, i \in Indexes : Ask(o, j, i)
  \/ \E o \in Openers : Step(o) \/ GiveUp(o) \/ CloseLease(o)
  \/ \E w \in Workers : Take(w) \/ Exit(w) \/ Run(w)
  \/ \E js \in SUBSET Jobs : EndJobs(js)
  \/ Close

Spec == Init /\ [][Next]_vars

\* Goroutines run; a run ends, at the latest when its time is over, and so does
\* a preparation.
Fairness ==
  /\ \A j \in Jobs : WF_vars(Prepare(j))
  /\ \A w \in Workers : WF_vars(Take(w) \/ Exit(w)) /\ WF_vars(Run(w))

FairSpec == Spec /\ Fairness

-----------------------------------------------------------------------------
(* Properties *)

\* Every part of the manager keeps its type.
TypeOK ==
  /\ \A j \in Jobs :
       /\ {job[j].made, job[j].closed, job[j].queued, job[j].running, job[j].init} \subseteq BOOLEAN
       /\ job[j].prep \in {"none", "asked", "probing", "ok", "failed"}
       /\ job[j].state \in {"preparing", "queued", "producing", "ready", "stopped", "failed"}
       /\ job[j].failure \in {"", "source", "worker", "capacity_exhausted"}
       /\ job[j].replacement \in Jobs \cup {Nothing}
       /\ job[j].count \in [Indexes -> 0..Cardinality(Openers)]
       /\ job[j].older \in [Indexes -> SUBSET Indexes]
  /\ queue \in Seq(Jobs) /\ Len(queue) <= MaxJobs
  /\ entries \subseteq Catalog!Keys
  /\ wanted \in [Catalog!Keys -> 0..Cardinality(Openers)]

\* "Single-flight production": a job has one run or none, waits in the queue
\* once or not at all, and shows it truthfully, whoever asks, stops or seeks.
SingleFlight ==
  /\ TypeOK
  /\ \A j \in Jobs :
       /\ Cardinality(Runs(j)) = IF job[j].running THEN 1 ELSE 0
       /\ Cardinality({i \in DOMAIN queue : queue[i] = j})
            + Cardinality({w \in Workers : worker[w].job = j /\ worker[w].at = "taken"})
            = IF job[j].queued THEN 1 ELSE 0
       /\ ~(job[j].queued /\ job[j].running)
       /\ Live(j) => /\ job[j].running <=> job[j].state = "producing"
                     /\ job[j].queued <=> job[j].state = "queued"

\* Who is in the loop of Open for the segment.
Asking(j, i) ==
  {o \in Openers : /\ opener[o].job = j /\ opener[o].index = i
                   /\ opener[o].at \in {"loop", "waiting", "woken", "leaving"}}

\* The demands of a job are those who wait in Open, and they protect their
\* segments, also when requests of one segment come and go and the job ends.
DemandsCounted ==
  \A j \in Jobs, i \in Indexes :
    /\ job[j].count[i] = Cardinality(Asking(j, i))
    /\ i # Header => wanted[<<j, i>>] = Cardinality(Asking(j, i))

\* older is the order of the demands: each has those before it, of two one is the
\* older, and what is older than an older one is older.
InOrder(older, is) ==
  /\ \A i \in Indexes : older[i] \subseteq is \ {i}
  /\ \A i, k \in is : /\ i # k => (i \in older[k] <=> k \notin older[i])
                      /\ i \in older[k] => older[i] \subseteq older[k]

\* The demands of a job keep the order they came in, of which the oldest that is not
\* met is served first.
DemandsInOrder == \A j \in Jobs : InOrder(job[j].older, Demanded(j))

\* Who sleeps in Open has something to wait for: the data is not there, the job
\* is open and has not failed, and a run is under way or will be.
NoLostDemand ==
  \A o \in Openers : opener[o].at = "waiting" =>
    LET j == opener[o].job IN
    /\ Live(j) /\ job[j].failure = "" /\ ~Has(j, opener[o].index)
    /\ job[j].queued \/ job[j].running

\* A run that is under way when its job ends publishes nothing any more: there
\* are no segments but of open jobs, so none that nobody would ever drop.
EndedLeavesNothing == \A k \in entries : Live(k[1])

\* Demands and segments belong to those who ask and to jobs that are open.
DemandsAndSegments == DemandsCounted /\ DemandsInOrder /\ EndedLeavesNothing

\* A segment that somebody waits for stays until it is served: it is not
\* forgotten between its commit and the wakeup of the one who asked for it.
DemandedIsKept ==
  [][\A o \in Openers, j \in Jobs, i \in Segments :
       /\ opener[o].at \in {"loop", "waiting", "woken"}
       /\ opener[o].job = j /\ opener[o].index = i
       /\ <<j, i>> \in entries /\ Live(j)'
       => <<j, i>> \in entries']_vars

\* "Stopping an encoding without a replacement leaves the same output address
\* available for later demand" (docs/adr/0004:84): a run that was stopped leaves
\* no failure behind, which every later demand would meet.
StopKeepsAddress ==
  [][\A w \in Workers :
       /\ worker[w].at = "returned" /\ worker[w].obsolete /\ worker'[w].at = "idle"
       /\ job[worker[w].job].failure = ""
       => job'[worker[w].job].failure # "worker"]_vars

\* Close waits for the workers and the preparations, and all of them end,
\* whatever they are in the middle of and whoever is still asking.
CloseFinishes ==
  closed ~> /\ \A w \in Workers : worker[w].at = "exited"
            /\ \A j \in Jobs : job[j].prep \notin {"asked", "probing"}
===============================================================================
