---------------------------- MODULE TranscodeProofs ----------------------------
(***************************************************************************)
(* What is true of the jobs of the audio conversion for every number of    *)
(* jobs, requests and workers: a job has one run, no demand is lost or     *)
(* miscounted, what is waited for is kept, and an ended job leaves nothing *)
(* behind.                                                                 *)
(*                                                                         *)
(* The argument: a job is in one place at a time, the queue, the hands of  *)
(* a worker or a run, and its flags say which; only what is prepared is    *)
(* demanded or queued, so an end of a preparation never hides a run; and   *)
(* every step that takes from a sleeper what it sleeps on wakes it up.     *)
(***************************************************************************)
EXTENDS Transcode, FiniteSetTheorems, TLAPS

\* The records of the jobs, the workers and the requests.
JobRec ==
  [made : BOOLEAN, closed : BOOLEAN, prep : {"none", "asked", "probing", "ok", "failed"},
   state : {"preparing", "queued", "producing", "ready", "stopped", "failed"},
   failure : {"", "source", "worker", "capacity_exhausted"},
   queued : BOOLEAN, running : BOOLEAN, init : BOOLEAN, replacement : Jobs \cup {Nothing},
   count : [Indexes -> Int], older : [Indexes -> SUBSET Indexes]]

RunRec ==
  [at : {"idle", "taken", "exited"} \cup Busy, job : Jobs \cup {Nothing}, start : Segments,
   seg : Int, obsolete : BOOLEAN,
   err : {"", "none", "canceled", "worker", "capacity_exhausted"}]

OpenerRec ==
  [at : {"idle", "preparing", "ready", "loop", "waiting", "woken", "leaving", "reading"},
   job : Jobs \cup {Nothing}, index : Indexes]

\* The types.
Typed ==
  /\ job \in [Jobs -> JobRec]
  /\ queue \in Seq(Jobs) /\ Len(queue) <= MaxJobs
  /\ worker \in [Workers -> RunRec]
  /\ opener \in [Openers -> OpenerRec]
  /\ entries \in SUBSET Catalog!Keys
  /\ wanted \in [Catalog!Keys -> Int]

\* A worker that is at work has a job, and writes a segment of the timeline.
Engaged ==
  \A w \in Workers :
    /\ worker[w].at \in Busy \cup {"taken"} => worker[w].job \in Jobs
    /\ worker[w].at \in {"write", "wrote"} => worker[w].seg \in Segments

\* A request has a job, whose preparation succeeded before anything was demanded.
Placed ==
  \A o \in Openers :
    /\ opener[o].at # "idle" => opener[o].job \in Jobs
    /\ opener[o].at \notin {"idle", "preparing"} => job[opener[o].job].prep = "ok"

\* Only what is made is prepared, and only what is prepared is queued and runs.
Ordered ==
  \A j \in Jobs :
    /\ ~job[j].made => job[j].prep = "none" /\ job[j].state = "ready" /\ ~job[j].closed
    /\ job[j].queued \/ job[j].running => job[j].prep = "ok"

\* A job runs once at most, and its flag says so.
OneRun ==
  /\ \A w \in Workers : worker[w].at \in Busy => job[worker[w].job].running
  /\ \A j \in Jobs : job[j].running => \E w \in Workers : w \in Runs(j)
  /\ \A v, w \in Workers : /\ worker[v].at \in Busy /\ worker[w].at \in Busy
                           /\ worker[v].job = worker[w].job
                           => v = w

\* A job waits once at most, in the queue or in the hands of a worker, and its flag
\* says so.
InQueue(j) == \E n \in 1..Len(queue) : queue[n] = j
NoneTwice == \A m, n \in 1..Len(queue) : queue[m] = queue[n] => m = n
Taken(j) == \E w \in Workers : worker[w].at = "taken" /\ worker[w].job = j

OnePlace ==
  /\ \A j \in Jobs : /\ job[j].queued <=> InQueue(j) \/ Taken(j)
                     /\ ~(InQueue(j) /\ Taken(j))
  /\ NoneTwice
  /\ \A v, w \in Workers : /\ worker[v].at = "taken" /\ worker[w].at = "taken"
                           /\ worker[v].job = worker[w].job
                           => v = w

\* It does not wait while it runs.
Apart == \A j \in Jobs : ~(job[j].queued /\ job[j].running)

\* What an open job shows.
Shows ==
  \A j \in Jobs : Live(j) => /\ job[j].running <=> job[j].state = "producing"
                             /\ job[j].queued <=> job[j].state = "queued"

IInv ==
  /\ Typed /\ Engaged /\ Placed /\ Ordered
  /\ OneRun /\ OnePlace /\ Apart /\ Shows
  /\ DemandsCounted /\ DemandsInOrder /\ EndedLeavesNothing /\ NoLostDemand

-----------------------------------------------------------------------------
(* What the steps do, field by field *)

\* The fields of the jobs that a step leaves alone.
KeepsRuns == \A k \in Jobs : /\ job'[k].queued <=> job[k].queued
                             /\ job'[k].running <=> job[k].running
KeepsPrep == \A k \in Jobs : /\ job'[k].made = job[k].made /\ job'[k].prep = job[k].prep
KeepsShown == \A k \in Jobs : job'[k].closed = job[k].closed /\ job'[k].state = job[k].state
KeepsData == \A k \in Jobs : job'[k].failure = job[k].failure /\ job'[k].init = job[k].init
KeepsDemands == \A k \in Jobs : job'[k].count = job[k].count /\ job'[k].older = job[k].older

\* A job gets new fields.
LEMMA Sets ==
  ASSUME Typed, NEW j \in Jobs, NEW r \in JobRec, job' = [job EXCEPT ![j] = r]
  PROVE  job' \in [Jobs -> JobRec] /\ job'[j] = r /\ \A k \in Jobs \ {j} : job'[k] = job[k]
BY DEF Typed

\* A job is made.
LEMMA Creates ==
  ASSUME Typed, NEW j \in Jobs, Create(j)
  PROVE  /\ job' \in [Jobs -> JobRec]
         /\ KeepsRuns /\ KeepsShown /\ KeepsData /\ KeepsDemands
         /\ \A k \in Jobs : job'[k].prep = job[k].prep /\ (job'[k].made <=> k = j \/ job[k].made)
<1>1. PICK x \in JobRec : x = job[j]
  BY DEF Typed
<1>2. PICK r : r = [x EXCEPT !.made = TRUE]
  OBVIOUS
<1>3. job' = [job EXCEPT ![j] = r]
  BY <1>1, <1>2 DEF Create
<1>4. /\ r \in JobRec /\ r.made
      /\ r.closed = x.closed /\ r.prep = x.prep /\ r.state = x.state
      /\ r.failure = x.failure /\ r.queued = x.queued /\ r.running = x.running
      /\ r.init = x.init /\ r.count = x.count /\ r.older = x.older
  BY <1>2 DEF JobRec
<1>5. job' \in [Jobs -> JobRec] /\ job'[j] = r /\ \A k \in Jobs \ {j} : job'[k] = job[k]
  BY <1>3, <1>4, Sets
<1> QED BY <1>1, <1>4, <1>5 DEF KeepsRuns, KeepsShown, KeepsData, KeepsDemands

\* A preparation starts.
LEMMA PreparesStart ==
  ASSUME Typed, NEW j \in Jobs, PrepareStart(j)
  PROVE  /\ job' \in [Jobs -> JobRec]
         /\ KeepsRuns /\ KeepsShown /\ KeepsData /\ KeepsDemands
         /\ job[j].prep = "asked" /\ job'[j].prep = "probing"
         /\ \A k \in Jobs : job'[k].made = job[k].made /\ (k # j => job'[k].prep = job[k].prep)
<1>1. PICK x \in JobRec : x = job[j]
  BY DEF Typed
<1>2. PICK r : r = [x EXCEPT !.prep = "probing"]
  OBVIOUS
<1>3. job' = [job EXCEPT ![j] = r] /\ x.prep = "asked"
  BY <1>1, <1>2 DEF PrepareStart
<1>4. /\ r \in JobRec /\ r.prep = "probing" /\ r.made = x.made
      /\ r.closed = x.closed /\ r.state = x.state
      /\ r.failure = x.failure /\ r.queued = x.queued /\ r.running = x.running
      /\ r.init = x.init /\ r.count = x.count /\ r.older = x.older
  BY <1>2 DEF JobRec
<1>5. job' \in [Jobs -> JobRec] /\ job'[j] = r /\ \A k \in Jobs \ {j} : job'[k] = job[k]
  BY <1>3, <1>4, Sets
<1> QED BY <1>1, <1>3, <1>4, <1>5 DEF KeepsRuns, KeepsShown, KeepsData, KeepsDemands

\* A preparation ends: what it does to an open job.
LEMMA PreparesEnd ==
  ASSUME Typed, NEW j \in Jobs, PrepareEnd(j)
  PROVE  /\ job' \in [Jobs -> JobRec]
         /\ KeepsRuns /\ KeepsDemands
         /\ job[j].prep \in {"asked", "probing"} /\ job'[j].prep \in {"ok", "failed"}
         /\ ~job[j].closed => job'[j].state \in {"ready", "failed"}
         /\ job'[j].made = job[j].made /\ job'[j].closed = job[j].closed
         /\ job'[j].init = job[j].init
         /\ \A k \in Jobs \ {j} : job'[k] = job[k]
<1>1. PICK x \in JobRec : x = job[j]
  BY DEF Typed
<1>2. PICK ok \in BOOLEAN :
        LET r == [x EXCEPT !.prep = IF ok THEN "ok" ELSE "failed"] IN
        job' = [job EXCEPT ![j] = IF r.closed THEN r
                                  ELSE IF ok THEN [r EXCEPT !.state = "ready"]
                                  ELSE [r EXCEPT !.state = "failed", !.failure = "source"]]
  BY <1>1 DEF PrepareEnd
<1>3. PICK r : r = [x EXCEPT !.prep = IF ok THEN "ok" ELSE "failed"]
  OBVIOUS
<1>4. PICK s : s = IF r.closed THEN r
                   ELSE IF ok THEN [r EXCEPT !.state = "ready"]
                   ELSE [r EXCEPT !.state = "failed", !.failure = "source"]
  OBVIOUS
<1>5. job' = [job EXCEPT ![j] = s]
  BY <1>2, <1>3, <1>4
<1>6. /\ r \in JobRec /\ r.prep \in {"ok", "failed"}
      /\ r.made = x.made /\ r.closed = x.closed /\ r.init = x.init
      /\ r.queued = x.queued /\ r.running = x.running
      /\ r.count = x.count /\ r.older = x.older
  BY <1>3 DEF JobRec
<1>7. /\ s \in JobRec /\ s.prep = r.prep /\ s.made = r.made /\ s.closed = r.closed
      /\ s.init = r.init /\ s.queued = r.queued /\ s.running = r.running
      /\ s.count = r.count /\ s.older = r.older
      /\ ~r.closed => s.state \in {"ready", "failed"}
  <2>1. CASE r.closed
    BY <1>4, <1>6, <2>1
  <2>2. CASE ~r.closed /\ ok
    BY <1>4, <1>6, <2>2 DEF JobRec
  <2>3. CASE ~r.closed /\ ~ok
    BY <1>4, <1>6, <2>3 DEF JobRec
  <2> QED BY <2>1, <2>2, <2>3
<1>8. job' \in [Jobs -> JobRec] /\ job'[j] = s /\ \A k \in Jobs \ {j} : job'[k] = job[k]
  BY <1>5, <1>7, Sets
<1>9. x.prep \in {"asked", "probing"}
  BY <1>1 DEF PrepareEnd
<1> QED BY <1>1, <1>6, <1>7, <1>8, <1>9 DEF KeepsRuns, KeepsDemands

\* enqueue: a job that may be queued is, or it fails.
LEMMA Enqueues ==
  ASSUME NEW r \in JobRec
  PROVE  /\ Enqueued(r) \in JobRec
         /\ Enqueued(r).made = r.made /\ Enqueued(r).closed = r.closed
         /\ Enqueued(r).prep = r.prep /\ Enqueued(r).init = r.init
         /\ Enqueued(r).running = r.running
         /\ Enqueued(r).count = r.count /\ Enqueued(r).older = r.older
         /\ ~Idle(r) => Enqueued(r) = r
         /\ Idle(r) /\ Len(queue) < MaxJobs =>
              /\ Enqueued(r).queued /\ Enqueued(r).state = "queued"
              /\ Enqueued(r).failure = r.failure
         /\ Idle(r) /\ ~(Len(queue) < MaxJobs) =>
              /\ ~Enqueued(r).queued /\ Enqueued(r).state = "failed"
              /\ Enqueued(r).failure = "capacity_exhausted"
<1>1. CASE ~Idle(r)
  BY <1>1 DEF Enqueued
<1>2. CASE Idle(r) /\ Len(queue) < MaxJobs
  BY <1>2 DEF JobRec, Enqueued
<1>3. CASE Idle(r) /\ ~(Len(queue) < MaxJobs)
  <2>1. Enqueued(r) = [r EXCEPT !.state = "failed", !.failure = "capacity_exhausted"] /\ ~r.queued
    BY <1>3 DEF Enqueued, Idle
  <2> QED BY <1>3, <2>1 DEF JobRec
<1> QED BY <1>1, <1>2, <1>3

\* A worker ends its run, and its job waits again or not.
LEMMA RunsEnd ==
  ASSUME Typed, NEW w \in Workers, EndRun(w),
         NEW j \in Jobs, j = worker[w].job, ~job[j].queued
  PROVE  /\ job' \in [Jobs -> JobRec]
         /\ KeepsDemands
         /\ ~job'[j].running /\ job'[j].made = job[j].made /\ job'[j].prep = job[j].prep
         /\ job'[j].closed = job[j].closed /\ job'[j].init = job[j].init
         /\ \A k \in Jobs \ {j} : job'[k] = job[k]
         /\ \/ /\ ~job'[j].queued /\ queue' = queue
               /\ Live(j) => job'[j].state \in {"ready", "failed"}
            \/ /\ job'[j].queued /\ queue' = Append(queue, j) /\ Len(queue) < MaxJobs
               /\ job'[j].state = "queued"
<1>0. PICK x \in JobRec : x = job[j]
  BY DEF Typed
<1>a. PICK ended : ended = [x EXCEPT !.running = FALSE]
  OBVIOUS
<1>b. PICK r : LET failed == worker[w].err \notin {"none", "canceled"} IN
        r = [x EXCEPT !.running = FALSE, !.state = IF failed THEN "failed" ELSE "ready",
                      !.failure = IF failed THEN worker[w].err ELSE x.failure]
  OBVIOUS
<1>1. \/ job' = [job EXCEPT ![j] = ended] /\ queue' = queue /\ ~Live(j)
      \/ job' = [job EXCEPT ![j] = r] /\ queue' = queue
      \/ Enqueue(j, r) /\ Live(j)
  <2>1. CASE ~Live(j)
    BY <1>0, <1>a, <2>1 DEF EndRun, Typed
  <2>2. CASE Live(j)
    BY <1>0, <1>b, <2>2 DEF EndRun
  <2> QED BY <2>1, <2>2
<1>2. /\ ended \in JobRec /\ ~ended.running /\ ended.queued = x.queued
      /\ ended.made = x.made /\ ended.closed = x.closed
      /\ ended.prep = x.prep /\ ended.init = x.init
      /\ ended.count = x.count /\ ended.older = x.older
  BY <1>a DEF JobRec
<1>3. /\ r \in JobRec /\ ~r.running /\ r.queued = x.queued
      /\ r.made = x.made /\ r.closed = x.closed
      /\ r.prep = x.prep /\ r.init = x.init
      /\ r.count = x.count /\ r.older = x.older
      /\ r.state \in {"ready", "failed"}
  <2>1. worker[w].err \in {"", "none", "canceled", "worker", "capacity_exhausted"}
    BY DEF Typed, RunRec
  <2> QED BY ZenonT(60), <1>b, <2>1 DEF JobRec
<1>4. CASE job' = [job EXCEPT ![j] = ended] /\ queue' = queue /\ ~Live(j)
  <2>1. job' \in [Jobs -> JobRec] /\ job'[j] = ended /\ \A k \in Jobs \ {j} : job'[k] = job[k]
    BY <1>2, <1>4, Sets
  <2> QED BY <1>0, <1>2, <1>4, <2>1 DEF KeepsDemands
<1>5. CASE job' = [job EXCEPT ![j] = r] /\ queue' = queue
  <2>1. job' \in [Jobs -> JobRec] /\ job'[j] = r /\ \A k \in Jobs \ {j} : job'[k] = job[k]
    BY <1>3, <1>5, Sets
  <2> QED BY <1>0, <1>3, <1>5, <2>1 DEF KeepsDemands
<1>6. CASE Enqueue(j, r) /\ Live(j)
  <2> DEFINE s == Enqueued(r)
  <2>1. Idle(r)
    BY <1>0, <1>3, <1>6 DEF Idle, Live
  <2>2. /\ s \in JobRec /\ s.running = r.running /\ s.made = r.made /\ s.closed = r.closed
        /\ s.prep = r.prep /\ s.init = r.init /\ s.count = r.count /\ s.older = r.older
        /\ Len(queue) < MaxJobs => s.queued /\ s.state = "queued"
        /\ ~(Len(queue) < MaxJobs) => ~s.queued /\ s.state = "failed"
    BY <1>3, <2>1, Enqueues
  <2>3. /\ job' = [job EXCEPT ![j] = s]
        /\ Len(queue) < MaxJobs => queue' = Append(queue, j)
        /\ ~(Len(queue) < MaxJobs) => queue' = queue
    BY <1>6, <2>1 DEF Enqueue
  <2> HIDE DEF s
  <2>4. job' \in [Jobs -> JobRec] /\ job'[j] = s /\ \A k \in Jobs \ {j} : job'[k] = job[k]
    BY <2>2, <2>3, Sets
  <2> QED BY <1>0, <1>3, <2>2, <2>3, <2>4 DEF KeepsDemands
<1> QED BY <1>1, <1>4, <1>5, <1>6

\* StopEncoding: a failure is forgotten.
LEMMA Stops ==
  ASSUME Typed, NEW j \in Jobs, job' = [job EXCEPT ![j].failure = ""]
  PROVE  /\ job' \in [Jobs -> JobRec]
         /\ KeepsRuns /\ KeepsPrep /\ KeepsShown /\ KeepsDemands
         /\ \A k \in Jobs : job'[k].init = job[k].init /\ (k # j => job'[k] = job[k])
<1>1. PICK x \in JobRec : x = job[j]
  BY DEF Typed
<1>2. PICK r : r = [x EXCEPT !.failure = ""]
  OBVIOUS
<1>3. job' = [job EXCEPT ![j] = r]
  BY <1>1, <1>2
<1>4. /\ r \in JobRec /\ r.made = x.made
      /\ r.closed = x.closed /\ r.prep = x.prep /\ r.state = x.state
      /\ r.queued = x.queued /\ r.running = x.running
      /\ r.init = x.init /\ r.count = x.count /\ r.older = x.older
  BY <1>2 DEF JobRec
<1>5. job' \in [Jobs -> JobRec] /\ job'[j] = r /\ \A k \in Jobs \ {j} : job'[k] = job[k]
  BY <1>3, <1>4, Sets
<1> QED BY <1>1, <1>4, <1>5 DEF KeepsRuns, KeepsPrep, KeepsShown, KeepsDemands

\* LinkReplacement: nothing else is written.
LEMMA Links ==
  ASSUME Typed, NEW j \in Jobs, NEW next \in Jobs, LinkReplacement(j, next)
  PROVE  /\ job' \in [Jobs -> JobRec]
         /\ KeepsRuns /\ KeepsPrep /\ KeepsShown /\ KeepsData /\ KeepsDemands
<1>1. PICK x \in JobRec : x = job[j]
  BY DEF Typed
<1>2. PICK r : r = [x EXCEPT !.replacement = next]
  OBVIOUS
<1>3. job' = [job EXCEPT ![j] = r]
  BY <1>1, <1>2 DEF LinkReplacement
<1>4. /\ r \in JobRec /\ r.made = x.made
      /\ r.closed = x.closed /\ r.prep = x.prep /\ r.state = x.state
      /\ r.failure = x.failure /\ r.queued = x.queued /\ r.running = x.running
      /\ r.init = x.init /\ r.count = x.count /\ r.older = x.older
  BY <1>2 DEF JobRec
<1>5. job' \in [Jobs -> JobRec] /\ job'[j] = r /\ \A k \in Jobs \ {j} : job'[k] = job[k]
  BY <1>3, <1>4, Sets
<1> QED BY <1>1, <1>4, <1>5 DEF KeepsRuns, KeepsPrep, KeepsShown, KeepsData, KeepsDemands

\* end: the jobs js are closed.
LEMMA Closes ==
  ASSUME Typed, NEW js, End(js)
  PROVE  /\ job' \in [Jobs -> JobRec]
         /\ KeepsRuns /\ KeepsPrep /\ KeepsData /\ KeepsDemands
         /\ \A k \in Jobs : /\ k \in js => job'[k].closed
                            /\ k \notin js => job'[k] = job[k]
<1>1. ASSUME NEW k \in Jobs
      PROVE  /\ job'[k] \in JobRec /\ job'[k].made = job[k].made /\ job'[k].prep = job[k].prep
             /\ job'[k].failure = job[k].failure /\ job'[k].init = job[k].init
             /\ job'[k].queued = job[k].queued /\ job'[k].running = job[k].running
             /\ job'[k].count = job[k].count /\ job'[k].older = job[k].older
             /\ k \in js => job'[k].closed
             /\ k \notin js => job'[k] = job[k]
  <2>1. PICK x \in JobRec : x = job[k]
    BY DEF Typed
  <2>2. PICK state \in {"stopped", "failed"} :
          state = IF x.failure = "" THEN "stopped" ELSE "failed"
    OBVIOUS
  <2>3. PICK r : r = [x EXCEPT !.closed = TRUE, !.state = state]
    OBVIOUS
  <2>4. /\ r \in JobRec /\ r.closed /\ r.made = x.made /\ r.prep = x.prep
        /\ r.failure = x.failure /\ r.queued = x.queued /\ r.running = x.running
        /\ r.init = x.init /\ r.count = x.count /\ r.older = x.older
    BY <2>3 DEF JobRec
  <2>5. job'[k] = IF k \notin js THEN x ELSE r
    BY <2>1, <2>2, <2>3 DEF End
  <2> QED BY <2>1, <2>4, <2>5
<1>2. job' \in [Jobs -> JobRec]
  BY <1>1 DEF End
<1> QED BY <1>1, <1>2 DEF KeepsRuns, KeepsPrep, KeepsData, KeepsDemands

\* prepare: the first request asks for the preparation.
LEMMA Asks ==
  ASSUME Typed, NEW j \in Jobs, NEW o \in Openers, NEW i \in Indexes, Ask(o, j, i)
  PROVE  /\ job' \in [Jobs -> JobRec]
         /\ KeepsRuns /\ KeepsData /\ KeepsDemands
         /\ \A k \in Jobs : /\ job'[k].made = job[k].made /\ job'[k].closed = job[k].closed
                            /\ k # j => job'[k] = job[k]
         /\ \/ job'[j] = job[j]
            \/ job[j].prep = "none" /\ job'[j].state = "preparing"
<1>1. PICK x \in JobRec : x = job[j]
  BY DEF Typed
<1>2. PICK r : r = [x EXCEPT !.prep = "asked", !.state = "preparing"]
  OBVIOUS
<1>3. \/ job' = job
      \/ job' = [job EXCEPT ![j] = r] /\ x.prep = "none"
  <2>1. CASE x.prep = "none"
    BY <1>1, <1>2, <2>1 DEF Ask
  <2>2. CASE x.prep # "none"
    <3>1. job' = IF job[j].prep = "none"
                 THEN [job EXCEPT ![j] = [@ EXCEPT !.prep = "asked", !.state = "preparing"]]
                 ELSE job
      BY DEF Ask
    <3> QED BY <1>1, <2>2, <3>1
  <2> QED BY <2>1, <2>2
<1>4. /\ r \in JobRec /\ r.state = "preparing" /\ r.made = x.made /\ r.closed = x.closed
      /\ r.failure = x.failure /\ r.queued = x.queued /\ r.running = x.running
      /\ r.init = x.init /\ r.count = x.count /\ r.older = x.older
  BY <1>2 DEF JobRec
<1>5. CASE job' = job
  <2>1. job' \in [Jobs -> JobRec]
    BY <1>5 DEF Typed
  <2>2. \A k \in Jobs : job'[k] = job[k]
    BY <1>5
  <2>3. KeepsRuns /\ KeepsData /\ KeepsDemands
    BY <2>2 DEF KeepsRuns, KeepsData, KeepsDemands
  <2> QED BY <2>1, <2>2, <2>3
<1>6. CASE job' = [job EXCEPT ![j] = r] /\ x.prep = "none"
  <2>1. job' \in [Jobs -> JobRec] /\ job'[j] = r /\ \A k \in Jobs \ {j} : job'[k] = job[k]
    BY <1>4, <1>6, Sets
  <2> QED BY <1>1, <1>4, <1>6, <2>1 DEF KeepsRuns, KeepsData, KeepsDemands
<1> QED BY <1>3, <1>5, <1>6

\* A demand is registered or ends: only the demands of the job change.
LEMMA Demands ==
  ASSUME Typed, NEW j \in Jobs, NEW c \in [Indexes -> Int],
         NEW older \in [Indexes -> SUBSET Indexes], NEW r,
         r = [job[j] EXCEPT !.count = c, !.older = older], job' = [job EXCEPT ![j] = r]
  PROVE  /\ job' \in [Jobs -> JobRec]
         /\ KeepsRuns /\ KeepsPrep /\ KeepsShown /\ KeepsData
         /\ job'[j].count = c /\ job'[j].older = older
         /\ \A k \in Jobs \ {j} : job'[k] = job[k]
<1>1. PICK x \in JobRec : x = job[j]
  BY DEF Typed
<1>2. /\ r \in JobRec /\ r.made = x.made
      /\ r.closed = x.closed /\ r.prep = x.prep /\ r.state = x.state
      /\ r.failure = x.failure /\ r.queued = x.queued /\ r.running = x.running
      /\ r.init = x.init /\ r.count = c /\ r.older = older
  BY <1>1 DEF JobRec
<1>3. job' \in [Jobs -> JobRec] /\ job'[j] = r /\ \A k \in Jobs \ {j} : job'[k] = job[k]
  BY <1>2, Sets
<1> QED BY <1>1, <1>2, <1>3 DEF KeepsRuns, KeepsPrep, KeepsShown, KeepsData

\* work finds nothing to do: the job waits no more.
LEMMA Rests ==
  ASSUME Typed, NEW w \in Workers, NEW j \in Jobs, j = worker[w].job, NoWork(w)
  PROVE  /\ job' \in [Jobs -> JobRec]
         /\ KeepsPrep /\ KeepsData /\ KeepsDemands
         /\ ~job'[j].queued /\ job'[j].running = job[j].running
         /\ job'[j].closed = job[j].closed
         /\ job'[j].state = IF Live(j) THEN "ready" ELSE job[j].state
         /\ \A k \in Jobs \ {j} : job'[k] = job[k]
<1>1. PICK x \in JobRec : x = job[j]
  BY DEF Typed
<1>2. PICK state \in {"preparing", "queued", "producing", "ready", "stopped", "failed"} :
        state = IF Live(j) THEN "ready" ELSE x.state
  BY DEF JobRec
<1>3. PICK r : r = [x EXCEPT !.queued = FALSE, !.state = state]
  OBVIOUS
<1>4. job' = [job EXCEPT ![j] = r]
  <2>2. CASE Live(j)
    <3>1. job' = [job EXCEPT ![j] = [@ EXCEPT !.queued = FALSE, !.state = "ready"]]
      BY <2>2 DEF NoWork
    <3> QED BY <1>1, <1>2, <1>3, <2>2, <3>1
  <2>3. CASE ~Live(j)
    <3>1. job' = [job EXCEPT ![j] = [@ EXCEPT !.queued = FALSE, !.state = x.state]]
      BY <1>1, <2>3 DEF NoWork
    <3> QED BY <1>1, <1>2, <1>3, <2>3, <3>1
  <2> QED BY <2>2, <2>3
<1>5. /\ r \in JobRec /\ ~r.queued /\ r.running = x.running /\ r.state = state
      /\ r.made = x.made /\ r.prep = x.prep /\ r.closed = x.closed
      /\ r.failure = x.failure /\ r.init = x.init /\ r.count = x.count /\ r.older = x.older
  BY <1>3 DEF JobRec
<1>6. job' \in [Jobs -> JobRec] /\ job'[j] = r /\ \A k \in Jobs \ {j} : job'[k] = job[k]
  BY <1>4, <1>5, Sets
<1> QED BY <1>1, <1>2, <1>5, <1>6 DEF KeepsPrep, KeepsData, KeepsDemands

\* work starts a run.
LEMMA Starts ==
  ASSUME Typed, NEW w \in Workers, NEW j \in Jobs, j = worker[w].job, StartRun(w)
  PROVE  /\ job' \in [Jobs -> JobRec]
         /\ KeepsPrep /\ KeepsData /\ KeepsDemands
         /\ ~job'[j].queued /\ job'[j].running /\ job'[j].state = "producing"
         /\ job'[j].closed = job[j].closed
         /\ \A k \in Jobs \ {j} : job'[k] = job[k]
<1>1. PICK x \in JobRec : x = job[j]
  BY DEF Typed
<1>2. PICK r : r = [x EXCEPT !.queued = FALSE, !.running = TRUE, !.state = "producing"]
  OBVIOUS
<1>3. job' = [job EXCEPT ![j] = r]
  BY <1>1, <1>2 DEF StartRun
<1>4. /\ r \in JobRec /\ ~r.queued /\ r.running /\ r.state = "producing"
      /\ r.made = x.made /\ r.prep = x.prep /\ r.closed = x.closed
      /\ r.failure = x.failure /\ r.init = x.init /\ r.count = x.count /\ r.older = x.older
  BY <1>2 DEF JobRec
<1>5. job' \in [Jobs -> JobRec] /\ job'[j] = r /\ \A k \in Jobs \ {j} : job'[k] = job[k]
  BY <1>3, <1>4, Sets
<1> QED BY <1>1, <1>4, <1>5 DEF KeepsPrep, KeepsData, KeepsDemands

\* The initialization data of a run is kept.
LEMMA Inits ==
  ASSUME Typed, NEW j \in Jobs, job' = [job EXCEPT ![j].init = TRUE]
  PROVE  /\ job' \in [Jobs -> JobRec]
         /\ KeepsRuns /\ KeepsPrep /\ KeepsShown /\ KeepsDemands
         /\ job'[j].failure = job[j].failure /\ job'[j].init
         /\ \A k \in Jobs \ {j} : job'[k] = job[k]
<1>1. PICK x \in JobRec : x = job[j]
  BY DEF Typed
<1>2. PICK r : r = [x EXCEPT !.init = TRUE]
  OBVIOUS
<1>3. job' = [job EXCEPT ![j] = r]
  BY <1>1, <1>2
<1>4. /\ r \in JobRec /\ r.made = x.made /\ r.closed = x.closed /\ r.prep = x.prep
      /\ r.state = x.state /\ r.failure = x.failure /\ r.queued = x.queued
      /\ r.running = x.running /\ r.init /\ r.count = x.count /\ r.older = x.older
  BY <1>2 DEF JobRec
<1>5. job' \in [Jobs -> JobRec] /\ job'[j] = r /\ \A k \in Jobs \ {j} : job'[k] = job[k]
  BY <1>3, <1>4, Sets
<1> QED BY <1>1, <1>4, <1>5 DEF KeepsRuns, KeepsPrep, KeepsShown, KeepsDemands

\* The loop finds nothing: the job waits, or the queue is full.
LEMMA Falls ==
  ASSUME Typed, NEW o \in Openers, NEW j \in Jobs, j = opener[o].job, Sleep(o)
  PROVE  /\ job' \in [Jobs -> JobRec]
         /\ KeepsPrep /\ KeepsDemands
         /\ job'[j].running = job[j].running /\ job'[j].closed = job[j].closed
         /\ job'[j].init = job[j].init
         /\ \A k \in Jobs \ {j} : job'[k] = job[k]
         /\ \/ /\ job'[j] = job[j] /\ queue' = queue /\ Goto(o, "waiting")
               /\ job[j].queued \/ job[j].running
            \/ /\ job'[j].queued /\ queue' = Append(queue, j) /\ Len(queue) < MaxJobs
               /\ job'[j].state = "queued" /\ job'[j].failure = "" /\ Goto(o, "waiting")
               /\ ~job[j].running /\ ~job[j].queued
            \/ /\ ~job'[j].queued /\ queue' = queue /\ job'[j].state = "failed"
               /\ ~job[j].running /\ ~job[j].queued /\ ~Goto(o, "waiting")
<1>1. PICK x \in JobRec : x = job[j]
  BY DEF Typed
<1>2. /\ Enqueue(j, x) /\ ~x.closed /\ x.failure = ""
      /\ Enqueued(x).failure = "" => Goto(o, "waiting")
      /\ Enqueued(x).failure # "" => opener'[o].at = "leaving"
  <2>1. Enqueue(j, job[j]) /\ Live(j) /\ job[j].failure = ""
    BY DEF Sleep
  <2>2. Enqueued(x).failure = "" => Goto(o, "waiting")
    BY <1>1 DEF Sleep
  <2>3. ASSUME Enqueued(x).failure # ""
        PROVE  opener'[o].at = "leaving"
    BY <1>1, <2>3 DEF Sleep, Typed, OpenerRec
  <2> QED BY <1>1, <2>1, <2>2, <2>3 DEF Live
<1>3. PICK r : r = Enqueued(x)
  OBVIOUS
<1>4. /\ r \in JobRec /\ r.made = x.made /\ r.closed = x.closed /\ r.prep = x.prep
      /\ r.init = x.init /\ r.running = x.running
      /\ r.count = x.count /\ r.older = x.older
  BY <1>3, Enqueues
<1>5. job' = [job EXCEPT ![j] = r]
  BY <1>2, <1>3 DEF Enqueue
<1>6. job' \in [Jobs -> JobRec] /\ job'[j] = r /\ \A k \in Jobs \ {j} : job'[k] = job[k]
  BY <1>4, <1>5, Sets
<1>7. \/ r = x /\ queue' = queue /\ (x.queued \/ x.running)
      \/ /\ r.queued /\ queue' = Append(queue, j) /\ Len(queue) < MaxJobs
         /\ r.state = "queued" /\ r.failure = "" /\ ~x.running /\ ~x.queued
      \/ /\ ~r.queued /\ queue' = queue /\ r.state = "failed" /\ ~x.running /\ ~x.queued
         /\ r.failure = "capacity_exhausted"
  <2>1. CASE ~Idle(x)
    BY <1>2, <1>3, <2>1, Enqueues DEF Enqueue, Idle
  <2>2. CASE Idle(x) /\ Len(queue) < MaxJobs
    BY <1>2, <1>3, <2>2, Enqueues DEF Enqueue, Idle
  <2>3. CASE Idle(x) /\ ~(Len(queue) < MaxJobs)
    BY <1>2, <1>3, <2>3, Enqueues DEF Enqueue, Idle
  <2> QED BY <2>1, <2>2, <2>3
<1>8. r.failure # "" => ~Goto(o, "waiting")
  BY <1>2, <1>3 DEF Goto, Typed, OpenerRec
<1> QED BY ZenonT(60), <1>1, <1>2, <1>3, <1>4, <1>6, <1>7, <1>8 DEF KeepsPrep, KeepsDemands

\* What a step does to the requests: those that slept on one of the jobs js wake up.
Awakes(js) ==
  /\ opener' \in [Openers -> OpenerRec]
  /\ \A o \in Openers :
       /\ opener'[o].job = opener[o].job /\ opener'[o].index = opener[o].index
       /\ opener'[o].at = IF opener[o].at = "waiting" /\ opener[o].job \in js
                          THEN "woken" ELSE opener[o].at

\* changed.
LEMMA Wakes ==
  ASSUME Typed, NEW js, Wake(js)
  PROVE  Awakes(js)
<1>1. ASSUME NEW o \in Openers
      PROVE  /\ opener'[o] \in OpenerRec
             /\ opener'[o].job = opener[o].job /\ opener'[o].index = opener[o].index
             /\ opener'[o].at = IF opener[o].at = "waiting" /\ opener[o].job \in js
                                THEN "woken" ELSE opener[o].at
  <2>1. opener[o] \in OpenerRec
    BY DEF Typed
  <2>2. opener'[o] = IF opener[o].at = "waiting" /\ opener[o].job \in js
                     THEN [opener[o] EXCEPT !.at = "woken"] ELSE opener[o]
    BY DEF Wake
  <2>3. CASE opener[o].at = "waiting" /\ opener[o].job \in js
    BY <2>1, <2>2, <2>3 DEF OpenerRec
  <2>4. CASE ~(opener[o].at = "waiting" /\ opener[o].job \in js)
    BY <2>1, <2>2, <2>4
  <2> QED BY <2>3, <2>4
<1> QED BY <1>1 DEF Wake, Awakes

\* A request gets to another place, and no other one does.
Comes(o, at) ==
  /\ opener' \in [Openers -> OpenerRec]
  /\ opener'[o].at = at /\ opener'[o].job = opener[o].job /\ opener'[o].index = opener[o].index
  /\ \A p \in Openers \ {o} : opener'[p] = opener[p]

\* Goto.
LEMMA Goes ==
  ASSUME Typed, NEW o \in Openers,
         NEW at \in {"idle", "preparing", "ready", "loop", "waiting", "woken", "leaving",
                     "reading"},
         Goto(o, at)
  PROVE  Comes(o, at)
<1>1. PICK x \in OpenerRec : x = opener[o]
  BY DEF Typed
<1>2. PICK r : r = [x EXCEPT !.at = at]
  OBVIOUS
<1>3. r \in OpenerRec /\ r.at = at /\ r.job = x.job /\ r.index = x.index
  BY <1>2 DEF OpenerRec
<1>4. opener' = [opener EXCEPT ![o] = r]
  BY <1>1, <1>2 DEF Goto
<1> QED BY <1>1, <1>3, <1>4 DEF Comes, Typed

\* A request is over.
LEMMA Leaves ==
  ASSUME Typed, NEW o \in Openers, opener' = [opener EXCEPT ![o] = Idler]
  PROVE  /\ opener' \in [Openers -> OpenerRec] /\ opener'[o].at = "idle"
         /\ \A p \in Openers \ {o} : opener'[p] = opener[p]
<1>1. Idler \in OpenerRec /\ Idler.at = "idle"
  BY TranscodeAssumption DEF Idler, OpenerRec, Indexes, Segments
<1> QED BY <1>1 DEF Typed

\* What a step does to the workers: some runs are obsolete from now on.
Outdates ==
  /\ worker' \in [Workers -> RunRec]
  /\ \A w \in Workers : /\ worker'[w].at = worker[w].at /\ worker'[w].job = worker[w].job
                        /\ worker'[w].seg = worker[w].seg

\* The generation of jobs moves on.
LEMMA Obsoletes ==
  ASSUME Typed, NEW js, worker' = Obsolete(js)
  PROVE  Outdates
<1>1. ASSUME NEW w \in Workers
      PROVE  /\ worker'[w] \in RunRec /\ worker'[w].at = worker[w].at
             /\ worker'[w].job = worker[w].job /\ worker'[w].seg = worker[w].seg
  <2>1. worker[w] \in RunRec
    BY DEF Typed
  <2>2. worker'[w] = IF worker[w].job \in js /\ worker[w].at \in Busy
                     THEN [worker[w] EXCEPT !.obsolete = TRUE] ELSE worker[w]
    BY DEF Obsolete
  <2>3. CASE worker[w].job \in js /\ worker[w].at \in Busy
    BY <2>1, <2>2, <2>3 DEF RunRec
  <2>4. CASE ~(worker[w].job \in js /\ worker[w].at \in Busy)
    BY <2>1, <2>2, <2>4
  <2> QED BY <2>3, <2>4
<1> QED BY <1>1 DEF Obsolete, Outdates

\* A worker goes on with its job, and no other one does.
Works(w, at) ==
  /\ worker' \in [Workers -> RunRec]
  /\ worker'[w].at = at /\ worker'[w].job = worker[w].job
  /\ \A v \in Workers \ {w} : worker'[v] = worker[v]

\* The callbacks of a run return.
LEMMA Advances ==
  ASSUME Typed, NEW w \in Workers, NEW at \in {"idle", "taken", "exited"} \cup Busy,
         Advance(w, at)
  PROVE  Works(w, at) /\ worker'[w].seg = worker[w].seg
<1>1. PICK x \in RunRec : x = worker[w]
  BY DEF Typed
<1>2. PICK r : r = [x EXCEPT !.at = at]
  OBVIOUS
<1>3. r \in RunRec /\ r.at = at /\ r.job = x.job /\ r.seg = x.seg
  BY <1>2 DEF RunRec
<1>4. worker' = [worker EXCEPT ![w] = r]
  BY <1>1, <1>2 DEF Advance
<1> QED BY <1>1, <1>3, <1>4 DEF Works, Typed

\* runFFmpeg returns.
LEMMA Returns ==
  ASSUME Typed, NEW w \in Workers,
         NEW err \in {"", "none", "canceled", "worker", "capacity_exhausted"},
         Return(w, err)
  PROVE  Works(w, "returned")
<1>1. PICK x \in RunRec : x = worker[w]
  BY DEF Typed
<1>2. PICK r : r = [x EXCEPT !.at = "returned", !.err = err]
  OBVIOUS
<1>3. r \in RunRec /\ r.at = "returned" /\ r.job = x.job
  BY <1>2 DEF RunRec, Busy
<1>4. worker' = [worker EXCEPT ![w] = r]
  BY <1>1, <1>2 DEF Return
<1> QED BY <1>1, <1>3, <1>4 DEF Works, Typed

\* runFFmpeg fails.
LEMMA Fails ==
  ASSUME Typed, NEW w \in Workers, NEW err \in {"worker", "capacity_exhausted"}, Fail(w, err)
  PROVE  Works(w, "returned")
<1>1. CASE worker[w].obsolete
  BY <1>1, Returns DEF Fail
<1>2. CASE ~worker[w].obsolete
  BY <1>2, Returns DEF Fail
<1> QED BY <1>1, <1>2

\* A worker has no job any more.
LEMMA NoRunIdle == NoRun \in RunRec /\ NoRun.at = "idle"
BY TranscodeAssumption DEF NoRun, RunRec, Segments

-----------------------------------------------------------------------------
(* What a step keeps because it leaves alone what it is about *)

\* Who is in the loop of Open.
InOpen(x) == x.at \in {"loop", "waiting", "woken", "leaving"}

SameAsking ==
  \A o \in Openers : /\ InOpen(opener'[o]) <=> InOpen(opener[o])
                     /\ InOpen(opener[o]) => /\ opener'[o].job = opener[o].job
                                             /\ opener'[o].index = opener[o].index

SamePlaces ==
  /\ queue' = queue
  /\ \A w \in Workers : worker'[w].at = worker[w].at /\ worker'[w].job = worker[w].job

\* No job is taken, run, queued or done.
LEMMA FlightsRest ==
  ASSUME Typed, Engaged, OneRun, OnePlace, Apart, KeepsRuns, SamePlaces
  PROVE  OneRun' /\ OnePlace' /\ Apart'
<1>1. OneRun'
  BY DEF Engaged, OneRun, KeepsRuns, SamePlaces, Runs, Busy
<1>2. \A j \in Jobs : (InQueue(j)' <=> InQueue(j)) /\ (Taken(j)' <=> Taken(j))
  BY DEF SamePlaces, InQueue, Taken
<1>3. OnePlace'
  BY <1>2 DEF OnePlace, NoneTwice, KeepsRuns, SamePlaces
<1>4. Apart'
  BY DEF Apart, KeepsRuns
<1> QED BY <1>1, <1>3, <1>4

\* No demand begins or ends.
LEMMA DemandsRest ==
  ASSUME DemandsCounted, DemandsInOrder, KeepsDemands, SameAsking, wanted' = wanted
  PROVE  DemandsCounted' /\ DemandsInOrder'
<1>1. ASSUME NEW j \in Jobs, NEW i \in Indexes
      PROVE  Asking(j, i)' = Asking(j, i)
  BY DEF SameAsking, Asking, InOpen
<1>2. DemandsCounted'
  BY <1>1 DEF DemandsCounted, KeepsDemands
<1>3. \A j \in Jobs : Demanded(j)' = Demanded(j)
  BY DEF Demanded, KeepsDemands
<1>4. DemandsInOrder'
  BY <1>3 DEF DemandsInOrder, KeepsDemands
<1> QED BY <1>2, <1>4

\* A request sleeps on a segment, and it has something to wait for.
Sleeps(o, k, i) == opener[o].at = "waiting" /\ opener[o].job = k /\ opener[o].index = i

Hope(k, i) ==
  Live(k) /\ job[k].failure = "" /\ ~Has(k, i) /\ (job[k].queued \/ job[k].running)

\* NoLostDemand, before a step.
LEMMA SleepersHope ==
  ASSUME NoLostDemand, NEW o \in Openers, NEW k \in Jobs, NEW i \in Indexes, Sleeps(o, k, i)
  PROVE  Hope(k, i)
BY DEF NoLostDemand, Sleeps, Hope

\* NoLostDemand, after it.
LEMMA SleepersRest ==
  ASSUME Typed', Placed',
         \A o \in Openers, k \in Jobs, i \in Indexes : Sleeps(o, k, i)' => Hope(k, i)'
  PROVE  NoLostDemand'
<1> SUFFICES ASSUME NEW o \in Openers, opener'[o].at = "waiting"
             PROVE  Hope(opener[o].job, opener[o].index)'
  BY DEF NoLostDemand, Hope
<1>1. opener'[o].job \in Jobs /\ opener'[o].index \in Indexes
  BY DEF Typed, Placed, OpenerRec
<1>2. PICK k \in Jobs, i \in Indexes : k = opener'[o].job /\ i = opener'[o].index
  BY <1>1
<1>3. Hope(k, i)'
  BY <1>2 DEF Sleeps
<1> QED BY <1>2, <1>3

\* A job is left alone, and nothing is stored.
LEMMA HopeRests ==
  ASSUME NEW k \in Jobs, NEW i \in Indexes, Hope(k, i), job'[k] = job[k],
         entries' \subseteq entries
  PROVE  Hope(k, i)'
BY DEF Hope, Live, Has

\* What is open stays open and nothing is stored: ended jobs have left nothing behind.
LEMMA StoreRests ==
  ASSUME Typed, EndedLeavesNothing, entries' \subseteq entries,
         \A j \in Jobs : Live(j) => Live(j)'
  PROVE  EndedLeavesNothing' /\ entries' \in SUBSET Catalog!Keys
BY DEF Typed, EndedLeavesNothing, Catalog!Keys

-----------------------------------------------------------------------------
(* The initial state *)

\* Nothing is made, demanded or run.
LEMMA Initially == Init => IInv
<1> SUFFICES ASSUME Init PROVE IInv
  OBVIOUS
<1>1. NewJob \in JobRec /\ ~NewJob.made /\ ~NewJob.queued /\ ~NewJob.running
      /\ NewJob.prep = "none" /\ NewJob.state = "ready" /\ ~NewJob.closed
  BY DEF NewJob, JobRec
<1>2. Idler \in OpenerRec /\ Idler.at = "idle"
  BY TranscodeAssumption DEF Idler, OpenerRec, Indexes, Segments
<1>3. Typed
  BY <1>1, <1>2, NoRunIdle, TranscodeAssumption DEF Init, Typed, Catalog!Init, Catalog!Keys
<1>4. Engaged /\ Placed /\ OneRun
  BY <1>1, <1>2, NoRunIdle DEF Init, Engaged, Placed, OneRun, Busy
<1>5. Ordered /\ Apart /\ Shows /\ NoLostDemand /\ EndedLeavesNothing
  BY <1>1, <1>2 DEF Init, Ordered, Apart, Shows, NoLostDemand, EndedLeavesNothing, Live,
                    Catalog!Init
<1>6. OnePlace
  BY <1>1, NoRunIdle DEF Init, OnePlace, InQueue, NoneTwice, Taken
<1>7. DemandsCounted
  <2>1. \A j \in Jobs, i \in Indexes : Asking(j, i) = {}
    BY <1>2 DEF Init, Asking
  <2>2. \A j \in Jobs, i \in Indexes : job[j].count[i] = 0
    BY DEF Init, NewJob
  <2>3. \A j \in Jobs, i \in Indexes : i # Header => wanted[<<j, i>>] = 0
    BY DEF Init, Catalog!Init, Catalog!Keys, Indexes
  <2> QED BY <2>1, <2>2, <2>3, FS_EmptySet DEF DemandsCounted
<1>8. DemandsInOrder
  <2>1. \A j \in Jobs, i \in Indexes : job[j].count[i] = 0 /\ job[j].older[i] = {}
    BY DEF Init, NewJob
  <2>2. \A j \in Jobs : Demanded(j) = {}
    BY <2>1 DEF Demanded
  <2> QED BY <2>1, <2>2 DEF DemandsInOrder, InOrder
<1> QED BY <1>3, <1>4, <1>5, <1>6, <1>7, <1>8 DEF IInv

-----------------------------------------------------------------------------
(* The steps of the jobs *)

\* Create.
LEMMA CreateKeeps ==
  ASSUME IInv, NEW j \in Jobs, Create(j)
  PROVE  IInv'
<1> USE DEF IInv
<1>1. /\ job' \in [Jobs -> JobRec]
      /\ KeepsRuns /\ KeepsShown /\ KeepsData /\ KeepsDemands
      /\ \A k \in Jobs : job'[k].prep = job[k].prep /\ (job'[k].made <=> (k = j \/ job[k].made))
  BY Creates
<1>2. /\ UNCHANGED <<queue, worker, opener, closed, entries, wanted, held>>
      /\ ~job[j].made
  BY DEF Create, store
<1>3. Typed' /\ Engaged'
  BY <1>1, <1>2 DEF Typed, Engaged, Busy
<1>4. Placed'
  BY <1>1, <1>2 DEF Placed
<1>5. Ordered'
  BY <1>1 DEF Ordered, KeepsRuns, KeepsShown
<1>6. OneRun' /\ OnePlace' /\ Apart'
  BY <1>1, <1>2, FlightsRest DEF SamePlaces
<1>7. Shows'
  BY <1>1, <1>2 DEF Shows, Ordered, KeepsRuns, KeepsShown, Live
<1>8. DemandsCounted' /\ DemandsInOrder'
  BY <1>1, <1>2, DemandsRest DEF SameAsking
<1>9. EndedLeavesNothing'
  BY <1>1, <1>2, StoreRests DEF KeepsShown, Live
<1>10. NoLostDemand'
  BY ZenonT(60), <1>1, <1>2
     DEF NoLostDemand, Placed, KeepsRuns, KeepsShown, KeepsData, Live, Has
<1> QED BY <1>3, <1>4, <1>5, <1>6, <1>7, <1>8, <1>9, <1>10

\* The probe of a preparation starts.
LEMMA PrepareStartKeeps ==
  ASSUME IInv, NEW j \in Jobs, PrepareStart(j)
  PROVE  IInv'
<1> USE DEF IInv
<1>1. /\ job' \in [Jobs -> JobRec]
      /\ KeepsRuns /\ KeepsShown /\ KeepsData /\ KeepsDemands
      /\ job[j].prep = "asked" /\ job'[j].prep = "probing"
      /\ \A k \in Jobs : job'[k].made = job[k].made /\ (k # j => job'[k].prep = job[k].prep)
  BY PreparesStart
<1>2. UNCHANGED <<queue, worker, opener, closed, entries, wanted, held>>
  BY DEF PrepareStart, store
<1>3. Typed' /\ Engaged'
  BY <1>1, <1>2 DEF Typed, Engaged, Busy
<1>4. Placed'
  BY <1>1, <1>2 DEF Placed
<1>5. Ordered'
  BY <1>1 DEF Ordered, KeepsRuns, KeepsShown
<1>6. OneRun' /\ OnePlace' /\ Apart'
  BY <1>1, <1>2, FlightsRest DEF SamePlaces
<1>7. Shows'
  BY <1>1, <1>2 DEF Shows, KeepsRuns, KeepsShown, Live
<1>8. DemandsCounted' /\ DemandsInOrder'
  BY <1>1, <1>2, DemandsRest DEF SameAsking
<1>9. EndedLeavesNothing'
  BY <1>1, <1>2, StoreRests DEF KeepsShown, Live
<1>10. NoLostDemand'
  BY ZenonT(60), <1>1, <1>2
     DEF NoLostDemand, Placed, KeepsRuns, KeepsShown, KeepsData, Live, Has
<1> QED BY <1>3, <1>4, <1>5, <1>6, <1>7, <1>8, <1>9, <1>10

\* A preparation ends: nobody sleeps on the job, and it neither waits nor runs.
LEMMA PrepareEndKeeps ==
  ASSUME IInv, NEW j \in Jobs, PrepareEnd(j)
  PROVE  IInv'
<1> USE DEF IInv
<1>1. /\ job' \in [Jobs -> JobRec]
      /\ KeepsRuns /\ KeepsDemands
      /\ job[j].prep \in {"asked", "probing"} /\ job'[j].prep \in {"ok", "failed"}
      /\ ~job[j].closed => job'[j].state \in {"ready", "failed"}
      /\ job'[j].made = job[j].made /\ job'[j].closed = job[j].closed
      /\ job'[j].init = job[j].init
      /\ \A k \in Jobs \ {j} : job'[k] = job[k]
  BY PreparesEnd
<1>2. UNCHANGED <<queue, worker, closed, entries, wanted, held>> /\ Wake({j})
  BY DEF PrepareEnd, store
<1>3. Awakes({j})
  BY <1>2, Wakes
<1>4. Typed' /\ Engaged'
  BY <1>1, <1>2, <1>3 DEF Typed, Engaged, Busy, Awakes
<1>5. Placed'
  BY <1>1, <1>3 DEF Placed, Awakes
<1>6. Ordered'
  BY <1>1 DEF Ordered, KeepsRuns
<1>7. OneRun' /\ OnePlace' /\ Apart'
  BY <1>1, <1>2, FlightsRest DEF SamePlaces
<1>8. Shows'
  BY <1>1 DEF Shows, Ordered, KeepsRuns, Live
<1>9. DemandsCounted' /\ DemandsInOrder'
  BY <1>1, <1>2, <1>3, DemandsRest DEF SameAsking, InOpen, Awakes
<1>10. EndedLeavesNothing'
  BY <1>1, <1>2, StoreRests DEF Live
<1>11. NoLostDemand'
  <2>1. ASSUME NEW o \in Openers, NEW k \in Jobs, NEW i \in Indexes, Sleeps(o, k, i)'
        PROVE  Hope(k, i)'
    <3>1. Sleeps(o, k, i) /\ k # j
      BY <1>3, <2>1 DEF Awakes, Sleeps
    <3>2. Hope(k, i)
      BY <3>1, SleepersHope
    <3> QED BY <1>1, <1>2, <3>1, <3>2, HopeRests
  <2> QED BY <1>4, <1>5, <2>1, SleepersRest
<1> QED BY <1>4, <1>5, <1>6, <1>7, <1>8, <1>9, <1>10, <1>11

\* StopEncoding: the run is obsolete, but it still runs.
LEMMA StopEncodingKeeps ==
  ASSUME IInv, NEW j \in Jobs, StopEncoding(j)
  PROVE  IInv'
<1> USE DEF IInv
<1>1. /\ UNCHANGED <<queue, closed, entries, wanted, held>> /\ Wake({j})
      /\ worker' = Obsolete({j}) /\ job' = [job EXCEPT ![j].failure = ""]
  BY DEF StopEncoding, store
<1>2. /\ job' \in [Jobs -> JobRec]
      /\ KeepsRuns /\ KeepsPrep /\ KeepsShown /\ KeepsDemands
      /\ \A k \in Jobs : job'[k].init = job[k].init /\ (k # j => job'[k] = job[k])
  BY <1>1, Stops
<1>3. Awakes({j})
  BY <1>1, Wakes
<1>4. Outdates
  BY <1>1, Obsoletes
<1>5. Typed' /\ Engaged'
  BY <1>1, <1>2, <1>3, <1>4 DEF Typed, Engaged, Busy, Awakes, Outdates
<1>6. Placed'
  BY <1>2, <1>3 DEF Placed, Awakes, KeepsPrep
<1>7. Ordered'
  BY <1>2 DEF Ordered, KeepsRuns, KeepsPrep, KeepsShown
<1>8. OneRun' /\ OnePlace' /\ Apart'
  BY <1>1, <1>2, <1>4, FlightsRest DEF SamePlaces, Outdates
<1>9. Shows'
  BY <1>2 DEF Shows, KeepsRuns, KeepsPrep, KeepsShown, Live
<1>10. DemandsCounted' /\ DemandsInOrder'
  BY <1>1, <1>2, <1>3, DemandsRest DEF SameAsking, InOpen, Awakes
<1>11. EndedLeavesNothing'
  BY <1>1, <1>2, StoreRests DEF Live, KeepsPrep, KeepsShown
<1>12. NoLostDemand'
  <2>1. ASSUME NEW o \in Openers, NEW k \in Jobs, NEW i \in Indexes, Sleeps(o, k, i)'
        PROVE  Hope(k, i)'
    <3>1. Sleeps(o, k, i) /\ k # j
      BY <1>3, <2>1 DEF Awakes, Sleeps
    <3>2. Hope(k, i)
      BY <3>1, SleepersHope
    <3> QED BY <1>1, <1>2, <3>1, <3>2, HopeRests
  <2> QED BY <1>5, <1>6, <2>1, SleepersRest
<1> QED BY <1>5, <1>6, <1>7, <1>8, <1>9, <1>10, <1>11, <1>12

\* LinkReplacement.
LEMMA LinkReplacementKeeps ==
  ASSUME IInv, NEW j \in Jobs, NEW next \in Jobs, LinkReplacement(j, next)
  PROVE  IInv'
<1> USE DEF IInv
<1>1. /\ job' \in [Jobs -> JobRec]
      /\ KeepsRuns /\ KeepsPrep /\ KeepsShown /\ KeepsData /\ KeepsDemands
  BY Links
<1>2. UNCHANGED <<queue, worker, opener, closed, entries, wanted, held>>
  BY DEF LinkReplacement, store
<1>3. Typed' /\ Engaged'
  BY <1>1, <1>2 DEF Typed, Engaged, Busy
<1>4. Placed' /\ Ordered'
  BY <1>1, <1>2 DEF Placed, Ordered, KeepsRuns, KeepsPrep, KeepsShown
<1>5. OneRun' /\ OnePlace' /\ Apart'
  BY <1>1, <1>2, FlightsRest DEF SamePlaces
<1>6. Shows'
  BY <1>1 DEF Shows, KeepsRuns, KeepsPrep, KeepsShown, Live
<1>7. DemandsCounted' /\ DemandsInOrder'
  BY <1>1, <1>2, DemandsRest DEF SameAsking
<1>8. EndedLeavesNothing'
  BY <1>1, <1>2, StoreRests DEF Live, KeepsPrep, KeepsShown
<1>9. NoLostDemand'
  BY ZenonT(60), <1>1, <1>2
     DEF NoLostDemand, Placed, KeepsRuns, KeepsPrep, KeepsShown, KeepsData, Live, Has
<1> QED BY <1>3, <1>4, <1>5, <1>6, <1>7, <1>8, <1>9

\* end, of jobs js: who slept on them is awake, and their segments are gone.
LEMMA EndKeeps ==
  ASSUME IInv, NEW js \in SUBSET Jobs, \A j \in js : Live(j), End(js), queue' = queue
  PROVE  IInv'
<1> USE DEF IInv
<1>1. /\ worker' = Obsolete(js) /\ Wake(js)
      /\ entries' = {k \in entries : k[1] \notin js} /\ wanted' = wanted
  BY DEF End, Catalog!Drop
<1>2. /\ job' \in [Jobs -> JobRec]
      /\ KeepsRuns /\ KeepsPrep /\ KeepsData /\ KeepsDemands
      /\ \A k \in Jobs : /\ k \in js => job'[k].closed
                         /\ k \notin js => job'[k] = job[k]
  BY Closes
<1>3. Awakes(js)
  BY <1>1, Wakes
<1>4. Outdates
  BY <1>1, Obsoletes
<1>5. Typed' /\ Engaged'
  BY <1>1, <1>2, <1>3, <1>4 DEF Typed, Engaged, Busy, Awakes, Outdates
<1>6. Placed'
  BY <1>2, <1>3 DEF Placed, Awakes, KeepsPrep
<1>7. Ordered'
  BY <1>2 DEF Ordered, KeepsRuns, KeepsPrep, Live
<1>8. OneRun' /\ OnePlace' /\ Apart'
  BY <1>1, <1>2, <1>4, FlightsRest DEF SamePlaces, Outdates
<1>9. Shows'
  BY <1>2 DEF Shows, Live
<1>10. DemandsCounted' /\ DemandsInOrder'
  BY <1>1, <1>2, <1>3, DemandsRest DEF SameAsking, InOpen, Awakes
<1>11. EndedLeavesNothing'
  BY <1>1, <1>2 DEF EndedLeavesNothing, Live, Typed, Catalog!Keys
<1>12. NoLostDemand'
  <2>1. ASSUME NEW o \in Openers, NEW k \in Jobs, NEW i \in Indexes, Sleeps(o, k, i)'
        PROVE  Hope(k, i)'
    <3>1. Sleeps(o, k, i) /\ k \notin js
      BY <1>3, <2>1 DEF Awakes, Sleeps
    <3>2. Hope(k, i)
      BY <3>1, SleepersHope
    <3> QED BY <1>1, <1>2, <3>1, <3>2, HopeRests
  <2> QED BY <1>5, <1>6, <2>1, SleepersRest
<1> QED BY <1>5, <1>6, <1>7, <1>8, <1>9, <1>10, <1>11, <1>12

-----------------------------------------------------------------------------
(* The steps of the requests *)

\* Nothing but the requests changes, and none of them falls asleep.
LEMMA RequestsMove ==
  ASSUME IInv, UNCHANGED <<job, queue, worker, entries, wanted>>,
         opener' \in [Openers -> OpenerRec], SameAsking, Placed',
         \A o \in Openers : opener'[o].at = "waiting" => opener'[o] = opener[o]
  PROVE  IInv'
<1> USE DEF IInv
<1>1. KeepsRuns /\ KeepsPrep /\ KeepsShown /\ KeepsData /\ KeepsDemands
  BY DEF KeepsRuns, KeepsPrep, KeepsShown, KeepsData, KeepsDemands
<1>2. Typed' /\ Engaged'
  BY DEF Typed, Engaged, Busy
<1>3. Ordered' /\ Shows'
  BY DEF Ordered, Shows, Live
<1>4. OneRun' /\ OnePlace' /\ Apart'
  BY <1>1, FlightsRest DEF SamePlaces
<1>5. DemandsCounted' /\ DemandsInOrder'
  BY <1>1, DemandsRest
<1>6. EndedLeavesNothing'
  BY DEF EndedLeavesNothing, Live
<1>7. NoLostDemand'
  <2>1. ASSUME NEW o \in Openers, NEW k \in Jobs, NEW i \in Indexes, Sleeps(o, k, i)'
        PROVE  Hope(k, i)'
    <3>1. Sleeps(o, k, i)
      BY <2>1 DEF Sleeps
    <3>2. Hope(k, i)
      BY <3>1, SleepersHope
    <3> QED BY <3>2, HopeRests
  <2> QED BY <1>2, <2>1, SleepersRest
<1> QED BY <1>2, <1>3, <1>4, <1>5, <1>6, <1>7

\* prepare returns, with a job that is prepared or with an error.
LEMMA PreparedKeeps ==
  ASSUME IInv, NEW o \in Openers, Prepared(o) \/ NotPrepared(o)
  PROVE  IInv'
<1> USE DEF IInv
<1>1. UNCHANGED <<job, queue, worker, entries, wanted>> /\ opener[o].at = "preparing"
  BY DEF Prepared, NotPrepared, store
<1>2. CASE Prepared(o)
  <2>1. Comes(o, "ready")
    BY <1>2, Goes DEF Prepared
  <2>2. opener' \in [Openers -> OpenerRec] /\ SameAsking
        /\ \A p \in Openers : opener'[p].at = "waiting" => opener'[p] = opener[p]
    BY <1>1, <2>1 DEF Comes, SameAsking, InOpen
  <2>3. Placed'
    BY <1>1, <1>2, <2>1 DEF Placed, Comes, Prepared
  <2> QED BY <1>1, <2>2, <2>3, RequestsMove
<1>3. CASE NotPrepared(o)
  <2>1. /\ opener' \in [Openers -> OpenerRec] /\ opener'[o].at = "idle"
        /\ \A p \in Openers \ {o} : opener'[p] = opener[p]
    BY <1>3, Leaves DEF NotPrepared
  <2>2. SameAsking /\ \A p \in Openers : opener'[p].at = "waiting" => opener'[p] = opener[p]
    BY <1>1, <2>1 DEF SameAsking, InOpen
  <2>3. Placed'
    BY <1>1, <2>1 DEF Placed
  <2> QED BY <1>1, <2>1, <2>2, <2>3, RequestsMove
<1> QED BY <1>2, <1>3

\* The loop ends: with the data, with an error, or because the request is over.
LEMMA LoopEndKeeps ==
  ASSUME IInv, NEW o \in Openers, Serve(o) \/ Refuse(o) \/ GiveUp(o)
  PROVE  IInv'
<1> USE DEF IInv
<1>1. UNCHANGED <<job, queue, worker, entries, wanted>> /\ Goto(o, "leaving")
      /\ opener[o].at \in {"loop", "waiting", "woken"}
  BY DEF Serve, Refuse, GiveUp, store, Looks, Catalog!Open
<1>2. Comes(o, "leaving")
  BY <1>1, Goes
<1>3. opener' \in [Openers -> OpenerRec] /\ SameAsking
      /\ \A p \in Openers : opener'[p].at = "waiting" => opener'[p] = opener[p]
  BY <1>1, <1>2 DEF Comes, SameAsking, InOpen
<1>4. Placed'
  BY <1>1, <1>2 DEF Placed, Comes
<1> QED BY <1>1, <1>3, <1>4, RequestsMove

\* The data was read.
LEMMA CloseLeaseKeeps ==
  ASSUME IInv, NEW o \in Openers, CloseLease(o)
  PROVE  IInv'
<1> USE DEF IInv
<1>1. UNCHANGED <<job, queue, worker, entries, wanted>> /\ opener[o].at = "reading"
      /\ opener' = [opener EXCEPT ![o] = Idler]
  BY DEF CloseLease, Catalog!Close
<1>2. /\ opener' \in [Openers -> OpenerRec] /\ opener'[o].at = "idle"
      /\ \A p \in Openers \ {o} : opener'[p] = opener[p]
  BY <1>1, Leaves
<1>3. SameAsking /\ \A p \in Openers : opener'[p].at = "waiting" => opener'[p] = opener[p]
  BY <1>1, <1>2 DEF SameAsking, InOpen
<1>4. Placed'
  BY <1>1, <1>2 DEF Placed
<1> QED BY <1>1, <1>2, <1>3, <1>4, RequestsMove

\* The first request of a job asks for its preparation.
LEMMA AskKeeps ==
  ASSUME IInv, NEW j \in Jobs, NEW o \in Openers, NEW i \in Indexes, Ask(o, j, i)
  PROVE  IInv'
<1> USE DEF IInv
<1>1. /\ job' \in [Jobs -> JobRec]
      /\ KeepsRuns /\ KeepsData /\ KeepsDemands
      /\ \A k \in Jobs : /\ job'[k].made = job[k].made /\ job'[k].closed = job[k].closed
                         /\ k # j => job'[k] = job[k]
      /\ \/ job'[j] = job[j]
         \/ job[j].prep = "none" /\ job'[j].state = "preparing"
  BY Asks
<1>2. UNCHANGED <<queue, worker, closed, entries, wanted, held>> /\ Live(j)
      /\ opener[o].at = "idle"
  BY DEF Ask, store
<1>3. /\ opener' \in [Openers -> OpenerRec]
      /\ opener'[o].at = "preparing" /\ opener'[o].job = j
      /\ \A p \in Openers \ {o} : opener'[p] = opener[p]
  BY DEF Ask, Typed, OpenerRec
<1>4. Typed' /\ Engaged'
  BY <1>1, <1>2, <1>3 DEF Typed, Engaged, Busy
<1>5. Placed'
  BY <1>1, <1>3 DEF Placed
<1>6. Ordered'
  BY <1>1, <1>2 DEF Ordered, KeepsRuns, Live
<1>7. OneRun' /\ OnePlace' /\ Apart'
  BY <1>1, <1>2, FlightsRest DEF SamePlaces
<1>8. Shows'
  BY <1>1 DEF Shows, Ordered, KeepsRuns, Live
<1>9. SameAsking
  BY <1>2, <1>3 DEF SameAsking, InOpen
<1>10. DemandsCounted' /\ DemandsInOrder'
  BY <1>1, <1>2, <1>9, DemandsRest
<1>11. EndedLeavesNothing'
  BY <1>1, <1>2, StoreRests DEF Live
<1>12. NoLostDemand'
  <2>1. ASSUME NEW p \in Openers, NEW k \in Jobs, NEW n \in Indexes, Sleeps(p, k, n)'
        PROVE  Hope(k, n)'
    <3>1. Sleeps(p, k, n)
      BY <1>3, <2>1 DEF Sleeps
    <3>2. Hope(k, n)
      BY <3>1, SleepersHope
    <3> QED BY <1>1, <1>2, <3>2 DEF Hope, Live, Has, KeepsRuns, KeepsData
  <2> QED BY <1>4, <1>5, <2>1, SleepersRest
<1> QED BY <1>4, <1>5, <1>6, <1>7, <1>8, <1>10, <1>11, <1>12

-----------------------------------------------------------------------------
(* The demands *)

\* Those who wait are finitely many.
LEMMA AskingFinite ==
  ASSUME NEW j, NEW i
  PROVE  /\ IsFiniteSet(Asking(j, i)) /\ Cardinality(Asking(j, i)) \in Nat
         /\ Asking(j, i) # {} => Cardinality(Asking(j, i)) > 0
<1>1. IsFiniteSet(Asking(j, i))
  BY TranscodeAssumption, FS_Subset DEF Asking
<1> QED BY <1>1, FS_CardinalityType, FS_EmptySet

\* The youngest demand comes last.
LEMMA OrderGrows ==
  ASSUME NEW older, NEW is \in SUBSET Indexes, InOrder(older, is), NEW i \in Indexes, i \notin is,
         NEW next, \A k \in Indexes : next[k] = IF k = i THEN is ELSE older[k]
  PROVE  InOrder(next, is \cup {i})
<1>1. ASSUME NEW k \in Indexes
      PROVE  next[k] \subseteq (is \cup {i}) \ {k}
  <2>1. older[k] \subseteq is \ {k}
    BY DEF InOrder
  <2>2. CASE k = i
    BY <2>2
  <2>3. CASE k # i
    BY <2>1, <2>3
  <2> QED BY <2>2, <2>3
<1>2. ASSUME NEW n \in is \cup {i}, NEW k \in is \cup {i}
      PROVE  /\ n # k => (n \in next[k] <=> k \notin next[n])
             /\ n \in next[k] => next[n] \subseteq next[k]
  <2>1. older[n] \subseteq is \ {n} /\ older[k] \subseteq is \ {k}
    BY DEF InOrder
  <2>2. CASE n = i \/ k = i
    BY <2>1, <2>2
  <2>3. CASE n # i /\ k # i
    <3>1. next[n] = older[n] /\ next[k] = older[k]
      BY <2>3
    <3> QED BY <2>3, <3>1 DEF InOrder
  <2> QED BY <2>2, <2>3
<1> QED BY <1>1, <1>2 DEF InOrder

\* A demand is deleted.
LEMMA OrderShrinks ==
  ASSUME NEW older, NEW is \in SUBSET Indexes, InOrder(older, is), NEW i \in Indexes
  PROVE  InOrder(Deleted(older, i), is \ {i})
<1> DEFINE next == Deleted(older, i)
<1>1. \A k \in Indexes : next[k] = IF k = i THEN {} ELSE older[k] \ {i}
  BY DEF Deleted
<1> HIDE DEF next
<1>2. ASSUME NEW k \in Indexes
      PROVE  next[k] \subseteq (is \ {i}) \ {k}
  <2>1. older[k] \subseteq is \ {k}
    BY DEF InOrder
  <2> QED BY <1>1, <2>1
<1>3. ASSUME NEW n \in is \ {i}, NEW k \in is \ {i}
      PROVE  /\ n # k => (n \in next[k] <=> k \notin next[n])
             /\ n \in next[k] => next[n] \subseteq next[k]
  <2>1. next[n] = older[n] \ {i} /\ next[k] = older[k] \ {i}
    BY <1>1
  <2>2. /\ n # k => (n \in older[k] <=> k \notin older[n])
        /\ n \in older[k] => older[n] \subseteq older[k]
    BY DEF InOrder
  <2> QED BY <2>1, <2>2
<1> QED BY <1>2, <1>3 DEF InOrder, next

\* A demand is new, or shared: the order of the demands is kept.
LEMMA RegisterOrders ==
  ASSUME Typed, DemandsInOrder, NEW j \in Jobs, NEW i \in Indexes,
         \A k \in Jobs \ {j} : job'[k] = job[k], job[j].count[i] >= 0,
         job'[j].count = [job[j].count EXCEPT ![i] = @ + 1],
         job'[j].older = [job[j].older EXCEPT ![i] = IF i \in Demanded(j) THEN @
                                                     ELSE Demanded(j)]
  PROVE  DemandsInOrder'
<1>1. job[j].count \in [Indexes -> Int] /\ job[j].older \in [Indexes -> SUBSET Indexes]
  BY DEF Typed, JobRec
<1>2. Demanded(j)' = Demanded(j) \cup {i}
  BY <1>1 DEF Demanded
<1>3. ASSUME NEW k \in Jobs \ {j}
      PROVE  Demanded(k)' = Demanded(k)
  BY DEF Demanded
<1>4. InOrder(job[j].older, Demanded(j)) /\ Demanded(j) \in SUBSET Indexes
  BY DEF DemandsInOrder, Demanded
<1>5. InOrder(job'[j].older, Demanded(j)')
  <2>1. CASE i \in Demanded(j)
    <3>1. job'[j].older = job[j].older /\ Demanded(j)' = Demanded(j)
      BY <1>1, <1>2, <2>1
    <3> QED BY <1>4, <3>1
  <2>2. CASE i \notin Demanded(j)
    <3>1. \A k \in Indexes : job'[j].older[k] = IF k = i THEN Demanded(j) ELSE job[j].older[k]
      BY <1>1, <2>2
    <3>2. PICK older, is, next :
            older = job[j].older /\ is = Demanded(j) /\ next = job'[j].older
      OBVIOUS
    <3>3. is \in SUBSET Indexes /\ InOrder(older, is) /\ i \notin is
          /\ \A k \in Indexes : next[k] = IF k = i THEN is ELSE older[k]
      BY <1>4, <2>2, <3>1, <3>2
    <3>4. InOrder(next, is \cup {i})
      BY <3>3, OrderGrows
    <3> QED BY <1>2, <3>2, <3>4
  <2> QED BY <2>1, <2>2
<1>6. ASSUME NEW k \in Jobs
      PROVE  InOrder(job[k].older, Demanded(k))'
  <2>1. CASE k = j
    BY <1>5, <2>1
  <2>2. CASE k # j
    <3>1. InOrder(job[k].older, Demanded(k))
      BY DEF DemandsInOrder
    <3> QED BY <1>3, <2>2, <3>1
  <2> QED BY <2>1, <2>2
<1> QED BY <1>6 DEF DemandsInOrder

\* A demand is still shared, or deleted.
LEMMA ReleaseOrders ==
  ASSUME Typed, DemandsInOrder, NEW j \in Jobs, NEW i \in Indexes,
         \A k \in Jobs \ {j} : job'[k] = job[k], job[j].count[i] > 0,
         job'[j].count = [job[j].count EXCEPT ![i] = @ - 1],
         job'[j].older = IF job[j].count[i] = 1 THEN Deleted(job[j].older, i) ELSE job[j].older
  PROVE  DemandsInOrder'
<1>1. job[j].count \in [Indexes -> Int] /\ job[j].older \in [Indexes -> SUBSET Indexes]
  BY DEF Typed, JobRec
<1>2. Demanded(j)' = IF job[j].count[i] = 1 THEN Demanded(j) \ {i} ELSE Demanded(j)
  BY <1>1 DEF Demanded
<1>3. ASSUME NEW k \in Jobs \ {j}
      PROVE  Demanded(k)' = Demanded(k)
  BY DEF Demanded
<1>4. InOrder(job[j].older, Demanded(j)) /\ Demanded(j) \in SUBSET Indexes
  BY DEF DemandsInOrder, Demanded
<1>5. InOrder(job'[j].older, Demanded(j)')
  <2>1. CASE job[j].count[i] # 1
    BY <1>2, <1>4, <2>1
  <2>2. CASE job[j].count[i] = 1
    BY <1>2, <1>4, <2>2, OrderShrinks
  <2> QED BY <2>1, <2>2
<1>6. ASSUME NEW k \in Jobs
      PROVE  InOrder(job[k].older, Demanded(k))'
  <2>1. CASE k = j
    BY <1>5, <2>1
  <2>2. CASE k # j
    <3>1. InOrder(job[k].older, Demanded(k))
      BY DEF DemandsInOrder
    <3> QED BY <1>3, <2>2, <3>1
  <2> QED BY <2>1, <2>2
<1> QED BY <1>6 DEF DemandsInOrder

\* The demands of the segment i of j are one more or one less, d, and those of the
\* others are what they were.
LEMMA Counted ==
  ASSUME Typed, DemandsCounted, NEW j \in Jobs, NEW i \in Indexes, NEW d \in {1, -1},
         \A k \in Jobs \ {j} : job'[k] = job[k],
         job'[j].count = [job[j].count EXCEPT ![i] = @ + d],
         wanted' = IF i = Header THEN wanted ELSE [wanted EXCEPT ![<<j, i>>] = @ + d],
         Cardinality(Asking(j, i)') = Cardinality(Asking(j, i)) + d,
         \A k \in Jobs, n \in Indexes : k # j \/ n # i => Asking(k, n)' = Asking(k, n)
  PROVE  DemandsCounted'
<1>1. job[j].count \in [Indexes -> Int] /\ wanted \in [Catalog!Keys -> Int]
  BY DEF Typed, JobRec
<1>2. ASSUME NEW k \in Jobs, NEW n \in Indexes
      PROVE  /\ job'[k].count[n] = Cardinality(Asking(k, n)')
             /\ n # Header => wanted'[<<k, n>>] = Cardinality(Asking(k, n)')
  <2>1. /\ job[k].count[n] = Cardinality(Asking(k, n))
        /\ n # Header => wanted[<<k, n>>] = Cardinality(Asking(k, n))
    BY DEF DemandsCounted
  <2>2. n # Header => <<k, n>> \in Catalog!Keys
    BY DEF Catalog!Keys, Indexes
  <2>3. CASE k = j /\ n = i
    <3>1. job'[k].count[n] = job[k].count[n] + d
      BY <1>1, <2>3
    <3>2. n # Header => wanted'[<<k, n>>] = wanted[<<k, n>>] + d
      BY <1>1, <2>2, <2>3
    <3> QED BY <2>1, <2>3, <3>1, <3>2
  <2>4. CASE k # j \/ n # i
    <3>1. job'[k].count[n] = job[k].count[n]
      BY <1>1, <2>4
    <3>2. n # Header => wanted'[<<k, n>>] = wanted[<<k, n>>]
      BY <1>1, <2>2, <2>4
    <3> QED BY <2>1, <2>4, <3>1, <3>2
  <2> QED BY <2>3, <2>4
<1> QED BY <1>2 DEF DemandsCounted

\* Only the demands of a job change, and nobody falls asleep.
LEMMA DemandsMove ==
  ASSUME IInv, NEW j \in Jobs, NEW o \in Openers,
         UNCHANGED <<queue, worker, entries>>,
         job' \in [Jobs -> JobRec], KeepsRuns, KeepsPrep, KeepsShown, KeepsData,
         wanted' \in [Catalog!Keys -> Int], DemandsCounted', DemandsInOrder',
         opener' \in [Openers -> OpenerRec], Placed', opener'[o].at # "waiting",
         \A p \in Openers \ {o} : opener'[p] = opener[p]
  PROVE  IInv'
<1> USE DEF IInv
<1>1. Typed' /\ Engaged'
  BY DEF Typed, Engaged, Busy
<1>2. Ordered' /\ Shows'
  BY DEF Ordered, Shows, Live, KeepsRuns, KeepsPrep, KeepsShown
<1>3. OneRun' /\ OnePlace' /\ Apart'
  BY FlightsRest DEF SamePlaces
<1>4. EndedLeavesNothing'
  BY StoreRests DEF Live, KeepsPrep, KeepsShown
<1>5. NoLostDemand'
  <2>1. ASSUME NEW p \in Openers, NEW k \in Jobs, NEW i \in Indexes, Sleeps(p, k, i)'
        PROVE  Hope(k, i)'
    <3>1. Sleeps(p, k, i)
      BY <2>1 DEF Sleeps
    <3>2. Hope(k, i)
      BY <3>1, SleepersHope
    <3> QED BY <3>2 DEF Hope, Live, Has, KeepsRuns, KeepsPrep, KeepsShown, KeepsData
  <2> QED BY <1>1, <2>1, SleepersRest
<1> QED BY <1>1, <1>2, <1>3, <1>4, <1>5

\* A demand begins.
LEMMA RegisterKeeps ==
  ASSUME IInv, NEW o \in Openers, Register(o)
  PROVE  IInv'
<1> USE DEF IInv
<1>1. UNCHANGED <<queue, worker, closed, entries, held>> /\ opener[o].at = "ready"
      /\ Goto(o, "loop")
  BY DEF Register, store, Catalog!Protect
<1>2. PICK j \in Jobs, i \in Indexes : j = opener[o].job /\ i = opener[o].index
  BY <1>1 DEF Placed, Typed, OpenerRec
<1>3. Comes(o, "loop")
  BY <1>1, Goes
<1>4. job[j].count \in [Indexes -> Int] /\ job[j].older \in [Indexes -> SUBSET Indexes]
      /\ wanted \in [Catalog!Keys -> Int] /\ (i # Header => <<j, i>> \in Catalog!Keys)
  BY DEF Typed, JobRec, Catalog!Keys, Indexes
<1>5. PICK c, older :
        /\ c = [job[j].count EXCEPT ![i] = @ + 1]
        /\ older = [job[j].older EXCEPT ![i] = IF i \in Demanded(j) THEN @ ELSE Demanded(j)]
  OBVIOUS
<1>6. c \in [Indexes -> Int] /\ older \in [Indexes -> SUBSET Indexes]
  BY <1>4, <1>5 DEF Demanded
<1>7. job' = [job EXCEPT ![j] = [job[j] EXCEPT !.count = c, !.older = older]]
  BY <1>2, <1>5 DEF Register
<1>8. /\ job' \in [Jobs -> JobRec]
      /\ KeepsRuns /\ KeepsPrep /\ KeepsShown /\ KeepsData
      /\ job'[j].count = c /\ job'[j].older = older
      /\ \A k \in Jobs \ {j} : job'[k] = job[k]
  BY <1>6, <1>7, Demands
<1>9. wanted' = IF i = Header THEN wanted ELSE [wanted EXCEPT ![<<j, i>>] = @ + 1]
  BY <1>2 DEF Register, Catalog!Protect, store
<1>10. wanted' \in [Catalog!Keys -> Int]
  BY <1>4, <1>9
<1>11. Placed'
  BY <1>1, <1>3, <1>8 DEF Placed, Comes, KeepsPrep
<1>12. Asking(j, i)' = Asking(j, i) \cup {o} /\ o \notin Asking(j, i)
  BY <1>1, <1>2, <1>3 DEF Asking, Comes
<1>13. ASSUME NEW k \in Jobs, NEW n \in Indexes, k # j \/ n # i
       PROVE  Asking(k, n)' = Asking(k, n)
  BY <1>1, <1>2, <1>3, <1>13 DEF Asking, Comes
<1>14. DemandsCounted'
  <2>1. PICK d \in {1, -1} : d = 1
    OBVIOUS
  <2>2. Cardinality(Asking(j, i)') = Cardinality(Asking(j, i)) + d
    BY <1>12, <2>1, AskingFinite, FS_AddElement
  <2>3. job'[j].count = [job[j].count EXCEPT ![i] = @ + d]
    BY <1>5, <1>8, <2>1
  <2>4. wanted' = IF i = Header THEN wanted ELSE [wanted EXCEPT ![<<j, i>>] = @ + d]
    BY <1>9, <2>1
  <2> QED BY <1>8, <1>13, <2>2, <2>3, <2>4, Counted
<1>15. DemandsInOrder'
  <2>1. job[j].count[i] >= 0
    <3>1. Cardinality(Asking(j, i)) \in Nat
      BY AskingFinite
    <3>2. job[j].count[i] = Cardinality(Asking(j, i))
      BY DEF DemandsCounted
    <3> QED BY <3>1, <3>2
  <2> QED BY <1>5, <1>8, <2>1, RegisterOrders
<1>16. opener' \in [Openers -> OpenerRec] /\ opener'[o].at # "waiting"
       /\ \A p \in Openers \ {o} : opener'[p] = opener[p]
  BY <1>3 DEF Comes
<1> QED BY <1>1, <1>8, <1>10, <1>11, <1>14, <1>15, <1>16, DemandsMove

\* A demand ends.
LEMMA ReleaseKeeps ==
  ASSUME IInv, NEW o \in Openers, Release(o)
  PROVE  IInv'
<1> USE DEF IInv
<1>1. UNCHANGED <<queue, worker, closed, entries, held>> /\ opener[o].at = "leaving"
  BY DEF Release, store, Catalog!Protect
<1>2. PICK j \in Jobs, i \in Indexes : j = opener[o].job /\ i = opener[o].index
  BY <1>1 DEF Placed, Typed, OpenerRec
<1>3. /\ opener' \in [Openers -> OpenerRec]
      /\ opener'[o].at \in {"idle", "reading"}
      /\ opener'[o].at = "reading" => opener'[o].job = opener[o].job
      /\ \A p \in Openers \ {o} : opener'[p] = opener[p]
  <2>1. CASE held[o] = Nothing
    <3>1. opener' = [opener EXCEPT ![o] = Idler]
      BY <2>1 DEF Release
    <3> QED BY <3>1, Leaves
  <2>2. CASE held[o] # Nothing
    <3>1. Goto(o, "reading")
      BY <2>2 DEF Release, Goto
    <3> QED BY <3>1, Goes DEF Comes
  <2> QED BY <2>1, <2>2
<1>4. job[j].count \in [Indexes -> Int] /\ job[j].older \in [Indexes -> SUBSET Indexes]
      /\ wanted \in [Catalog!Keys -> Int] /\ (i # Header => <<j, i>> \in Catalog!Keys)
  BY DEF Typed, JobRec, Catalog!Keys, Indexes
<1>5. PICK c, older :
        /\ c = [job[j].count EXCEPT ![i] = @ - 1]
        /\ older = IF job[j].count[i] = 1 THEN Deleted(job[j].older, i) ELSE job[j].older
  OBVIOUS
<1>6. c \in [Indexes -> Int] /\ older \in [Indexes -> SUBSET Indexes]
  BY <1>4, <1>5 DEF Deleted
<1>7. job' = [job EXCEPT ![j] = [job[j] EXCEPT !.count = c, !.older = older]]
  BY <1>2, <1>5 DEF Release
<1>8. /\ job' \in [Jobs -> JobRec]
      /\ KeepsRuns /\ KeepsPrep /\ KeepsShown /\ KeepsData
      /\ job'[j].count = c /\ job'[j].older = older
      /\ \A k \in Jobs \ {j} : job'[k] = job[k]
  BY <1>6, <1>7, Demands
<1>9. wanted' = IF i = Header THEN wanted ELSE [wanted EXCEPT ![<<j, i>>] = @ + -1]
  BY <1>2 DEF Release, Catalog!Protect, store
<1>10. wanted' \in [Catalog!Keys -> Int]
  BY <1>4, <1>9
<1>11. Placed'
  BY <1>1, <1>3, <1>8 DEF Placed, KeepsPrep
<1>12. Asking(j, i)' = Asking(j, i) \ {o} /\ o \in Asking(j, i)
  BY <1>1, <1>2, <1>3 DEF Asking
<1>13. ASSUME NEW k \in Jobs, NEW n \in Indexes, k # j \/ n # i
       PROVE  Asking(k, n)' = Asking(k, n)
  BY <1>1, <1>2, <1>3, <1>13 DEF Asking
<1>14. DemandsCounted'
  <2>1. Cardinality(Asking(j, i)') = Cardinality(Asking(j, i)) + -1
    BY <1>12, AskingFinite, FS_RemoveElement
  <2>2. c = [job[j].count EXCEPT ![i] = @ + -1]
    BY <1>4, <1>5
  <2> QED BY <1>8, <1>9, <1>13, <2>1, <2>2, Counted
<1>15. DemandsInOrder'
  <2>1. job[j].count[i] > 0
    BY <1>12, AskingFinite DEF DemandsCounted
  <2> QED BY <1>5, <1>8, <2>1, ReleaseOrders
<1>16. opener'[o].at # "waiting"
  BY <1>3
<1> QED BY <1>1, <1>3, <1>8, <1>10, <1>11, <1>14, <1>15, <1>16, DemandsMove

-----------------------------------------------------------------------------
(* The queue *)

\* A job is queued.
LEMMA QueueGrows ==
  ASSUME queue \in Seq(Jobs), Len(queue) < MaxJobs, NEW j \in Jobs, queue' = Append(queue, j)
  PROVE  /\ queue' \in Seq(Jobs) /\ Len(queue') <= MaxJobs
         /\ \A k \in Jobs : InQueue(k)' <=> (InQueue(k) \/ k = j)
         /\ NoneTwice /\ ~InQueue(j) => NoneTwice'
<1>1. /\ queue' \in Seq(Jobs) /\ Len(queue') = Len(queue) + 1 /\ Len(queue) \in Nat
      /\ queue'[Len(queue) + 1] = j
      /\ \A n \in 1..Len(queue) : queue'[n] = queue[n]
  OBVIOUS
<1>2. Len(queue') <= MaxJobs
  BY <1>1, TranscodeAssumption
<1>3. ASSUME NEW k \in Jobs
      PROVE  InQueue(k)' <=> (InQueue(k) \/ k = j)
  BY <1>1 DEF InQueue
<1>4. ASSUME NoneTwice, ~InQueue(j)
      PROVE  NoneTwice'
  BY <1>1, <1>4 DEF NoneTwice, InQueue
<1> QED BY <1>1, <1>2, <1>3, <1>4

\* A worker takes a job from the queue.
LEMMA QueueShrinks ==
  ASSUME queue \in Seq(Jobs), Len(queue) <= MaxJobs, queue # <<>>, queue' = Tail(queue)
  PROVE  /\ queue' \in Seq(Jobs) /\ Len(queue') <= MaxJobs /\ Head(queue) \in Jobs
         /\ \A k \in Jobs : InQueue(k) <=> (InQueue(k)' \/ k = Head(queue))
         /\ NoneTwice => NoneTwice' /\ \A k \in Jobs : k = Head(queue) => ~InQueue(k)'
<1>1. /\ queue' \in Seq(Jobs) /\ Len(queue') = Len(queue) - 1 /\ Len(queue) \in Nat \ {0}
      /\ Head(queue) = queue[1] /\ Head(queue) \in Jobs
      /\ \A n \in 1..Len(queue') : queue'[n] = queue[n + 1]
  OBVIOUS
<1>2. Len(queue') <= MaxJobs
  BY <1>1, TranscodeAssumption
<1>3. ASSUME NEW k \in Jobs
      PROVE  InQueue(k) <=> (InQueue(k)' \/ k = Head(queue))
  <2>1. ASSUME NEW n \in 1..Len(queue), n # 1, queue[n] = k
        PROVE  InQueue(k)'
    <3>1. n - 1 \in 1..Len(queue') /\ queue'[n - 1] = k
      BY <1>1, <2>1
    <3> QED BY <3>1 DEF InQueue
  <2>2. InQueue(k) => (InQueue(k)' \/ k = Head(queue))
    BY <1>1, <2>1 DEF InQueue
  <2>3. InQueue(k)' => InQueue(k)
    BY <1>1 DEF InQueue
  <2>4. k = Head(queue) => InQueue(k)
    BY <1>1 DEF InQueue
  <2> QED BY <2>2, <2>3, <2>4
<1>4. ASSUME NoneTwice
      PROVE  NoneTwice'
  BY <1>1, <1>4 DEF NoneTwice
<1>5. ASSUME NoneTwice, NEW k \in Jobs, k = Head(queue)
      PROVE  ~InQueue(k)'
  BY <1>1, <1>5 DEF NoneTwice, InQueue
<1> QED BY <1>1, <1>2, <1>3, <1>4, <1>5

\* A job that neither waits nor runs is queued, and no worker takes or leaves another.
LEMMA EnqueueSound ==
  ASSUME Typed, OnePlace, Apart, NEW j \in Jobs, ~job[j].queued,
         Len(queue) < MaxJobs, queue' = Append(queue, j),
         job'[j].queued, ~job'[j].running, \A k \in Jobs \ {j} : job'[k] = job[k],
         \A w \in Workers : worker'[w].at = "taken" <=> worker[w].at = "taken",
         \A w \in Workers : worker[w].at = "taken" => worker'[w].job = worker[w].job
  PROVE  OnePlace' /\ Apart'
<1>1. ~InQueue(j) /\ ~Taken(j) /\ NoneTwice
  BY DEF OnePlace
<1>2. /\ \A k \in Jobs : InQueue(k)' <=> (InQueue(k) \/ k = j)
      /\ NoneTwice'
  BY <1>1, QueueGrows DEF Typed
<1>3. \A k \in Jobs : Taken(k)' <=> Taken(k)
  BY DEF Taken
<1>4. \A k \in Jobs : /\ job'[k].queued <=> (InQueue(k)' \/ Taken(k)')
                      /\ ~(InQueue(k)' /\ Taken(k)')
  BY <1>1, <1>2, <1>3 DEF OnePlace
<1>5. \A v, w \in Workers : /\ worker'[v].at = "taken" /\ worker'[w].at = "taken"
                            /\ worker'[v].job = worker'[w].job
                            => v = w
  BY DEF OnePlace
<1>6. Apart'
  BY DEF Apart
<1> QED BY <1>2, <1>4, <1>5, <1>6 DEF OnePlace

\* A request finds nothing: its job waits for a worker and it sleeps, or the queue is
\* full and it wakes the others up.
LEMMA SleepKeeps ==
  ASSUME IInv, NEW o \in Openers, Sleep(o)
  PROVE  IInv'
<1> USE DEF IInv
<1>1. UNCHANGED <<worker, closed, entries, wanted, held>> /\ opener[o].at \in {"loop", "woken"}
  BY DEF Sleep, Looks, store
<1>2. PICK j \in Jobs, i \in Indexes : j = opener[o].job /\ i = opener[o].index
  BY <1>1 DEF Placed, Typed, OpenerRec
<1>3. Live(j) /\ ~Has(j, i) /\ job[j].failure = "" /\ job[j].prep = "ok"
  BY <1>1, <1>2 DEF Sleep, Placed
<1>4. /\ job' \in [Jobs -> JobRec]
      /\ KeepsPrep /\ KeepsDemands
      /\ job'[j].running = job[j].running /\ job'[j].closed = job[j].closed
      /\ job'[j].init = job[j].init
      /\ \A k \in Jobs \ {j} : job'[k] = job[k]
  BY <1>2, Falls
<1>5. \/ /\ job'[j] = job[j] /\ queue' = queue /\ Goto(o, "waiting")
         /\ job[j].queued \/ job[j].running
      \/ /\ job'[j].queued /\ queue' = Append(queue, j) /\ Len(queue) < MaxJobs
         /\ job'[j].state = "queued" /\ job'[j].failure = "" /\ Goto(o, "waiting")
         /\ ~job[j].running /\ ~job[j].queued
      \/ /\ ~job'[j].queued /\ queue' = queue /\ job'[j].state = "failed"
         /\ ~job[j].running /\ ~job[j].queued /\ ~Goto(o, "waiting")
  BY <1>2, Falls
<1>6. /\ opener' \in [Openers -> OpenerRec] /\ SameAsking
      /\ \A p \in Openers : opener'[p].at # "idle" =>
           /\ opener[p].at \notin {"idle", "preparing"} \/ opener'[p].at = "preparing"
           /\ opener'[p].job = opener[p].job /\ opener'[p].index = opener[p].index
           /\ opener[p].at # "idle"
      /\ \A p \in Openers : opener'[p].at = "waiting" =>
           \/ p = o /\ Goto(o, "waiting")
           \/ opener[p].at = "waiting" /\ (Goto(o, "waiting") \/ opener[p].job # j)
  <2>1. CASE Goto(o, "waiting")
    <3>1. Comes(o, "waiting")
      BY <2>1, Goes
    <3> QED BY <1>1, <2>1, <3>1 DEF SameAsking, InOpen, Comes, Typed, OpenerRec
  <2>2. CASE ~Goto(o, "waiting")
    <3>1. ASSUME NEW p \in Openers
          PROVE  /\ opener'[p] \in OpenerRec
                 /\ opener'[p].job = opener[p].job /\ opener'[p].index = opener[p].index
                 /\ opener'[p].at = IF p = o THEN "leaving"
                                    ELSE IF opener[p].at = "waiting" /\ opener[p].job = j
                                    THEN "woken" ELSE opener[p].at
      <4>1. PICK x \in OpenerRec : x = opener[p]
        BY DEF Typed
      <4>2. opener'[p] = IF p = o THEN [x EXCEPT !.at = "leaving"]
                         ELSE IF x.at = "waiting" /\ x.job = j
                         THEN [x EXCEPT !.at = "woken"] ELSE x
        BY <1>2, <2>2, <4>1 DEF Sleep
      <4>3. CASE p = o
        BY <4>1, <4>2, <4>3 DEF OpenerRec
      <4>4. CASE p # o /\ x.at = "waiting" /\ x.job = j
        BY <4>1, <4>2, <4>4 DEF OpenerRec
      <4>5. CASE p # o /\ ~(x.at = "waiting" /\ x.job = j)
        BY <4>1, <4>2, <4>5
      <4> QED BY <4>1, <4>3, <4>4, <4>5
    <3>2. opener' \in [Openers -> OpenerRec]
      <4>1. DOMAIN opener' = Openers /\ opener' = [p \in Openers |-> opener'[p]]
        BY <2>2 DEF Sleep
      <4> QED BY <3>1, <4>1
    <3> QED BY <1>1, <2>2, <3>1, <3>2 DEF SameAsking, InOpen
  <2> QED BY <2>1, <2>2
<1>7. queue' \in Seq(Jobs) /\ Len(queue') <= MaxJobs
  BY <1>5, QueueGrows DEF Typed
<1>8. Typed' /\ Engaged'
  BY <1>1, <1>4, <1>6, <1>7 DEF Typed, Engaged, Busy
<1>9. Placed'
  BY <1>4, <1>6 DEF Placed, KeepsPrep
<1>10. Ordered'
  BY ZenonT(60), <1>3, <1>4 DEF Ordered, KeepsPrep, Live
<1>11. OneRun'
  BY <1>1, <1>4 DEF OneRun, Runs, Busy, Engaged
<1>12. OnePlace' /\ Apart'
  <2>1. CASE queue' = queue /\ (job'[j].queued <=> job[j].queued)
    <3>1. KeepsRuns
      BY <1>4, <2>1 DEF KeepsRuns
    <3> QED BY <1>1, <2>1, <3>1, FlightsRest DEF SamePlaces
  <2>2. CASE /\ job'[j].queued /\ queue' = Append(queue, j) /\ Len(queue) < MaxJobs
             /\ ~job[j].running /\ ~job[j].queued
    BY <1>1, <1>4, <2>2, EnqueueSound
  <2> QED BY <1>5, <2>1, <2>2
<1>13. Shows'
  BY ZenonT(60), <1>4, <1>5 DEF Shows, Live, KeepsPrep
<1>14. DemandsCounted' /\ DemandsInOrder'
  BY <1>1, <1>4, <1>6, DemandsRest
<1>15. EndedLeavesNothing'
  BY <1>1, <1>4, StoreRests DEF Live, KeepsPrep
<1>16. NoLostDemand'
  <2>1. ASSUME NEW p \in Openers, NEW k \in Jobs, NEW n \in Indexes, Sleeps(p, k, n)'
        PROVE  Hope(k, n)'
    <3>1. opener[p].job = k /\ opener[p].index = n
      BY <1>6, <2>1 DEF Sleeps
    <3>2. CASE p = o /\ Goto(o, "waiting")
      BY <1>1, <1>2, <1>3, <1>4, <1>5, <3>1, <3>2 DEF Hope, Live, Has, KeepsPrep
    <3>3. CASE opener[p].at = "waiting" /\ (Goto(o, "waiting") \/ k # j)
      <4>1. Hope(k, n)
        BY <3>1, <3>3, SleepersHope DEF Sleeps
      <4>2. CASE k # j
        BY <1>1, <1>4, <4>1, <4>2, HopeRests
      <4>3. CASE k = j /\ Goto(o, "waiting")
        BY <1>1, <1>3, <1>4, <1>5, <4>1, <4>3 DEF Hope, Live, Has, KeepsPrep
      <4> QED BY <3>3, <4>2, <4>3
    <3> QED BY <1>6, <2>1, <3>1, <3>2, <3>3 DEF Sleeps
  <2> QED BY <1>8, <1>9, <2>1, SleepersRest
<1> QED BY <1>8, <1>9, <1>10, <1>11, <1>12, <1>13, <1>14, <1>15, <1>16

-----------------------------------------------------------------------------
(* The steps of the workers *)

\* A worker takes a job, which is in its hands now instead of in the queue.
LEMMA TakeKeeps ==
  ASSUME IInv, NEW w \in Workers, Take(w)
  PROVE  IInv'
<1> USE DEF IInv
<1>1. UNCHANGED <<job, opener, closed, entries, wanted, held>> /\ worker[w].at = "idle"
      /\ queue # <<>> /\ queue' = Tail(queue)
  BY DEF Take, store
<1>2. PICK j \in Jobs : j = Head(queue)
  BY <1>1, QueueShrinks DEF Typed
<1>3. /\ queue' \in Seq(Jobs) /\ Len(queue') <= MaxJobs
      /\ \A k \in Jobs : InQueue(k) <=> (InQueue(k)' \/ k = j)
      /\ NoneTwice' /\ ~InQueue(j)'
  BY <1>1, <1>2, QueueShrinks DEF Typed, OnePlace
<1>4. /\ worker' \in [Workers -> RunRec] /\ worker'[w].at = "taken" /\ worker'[w].job = j
      /\ \A v \in Workers \ {w} : worker'[v] = worker[v]
  <2>1. PICK r : r = [NoRun EXCEPT !.at = "taken", !.job = j]
    OBVIOUS
  <2>2. r \in RunRec /\ r.at = "taken" /\ r.job = j
    BY <2>1, NoRunIdle DEF NoRun, RunRec
  <2>3. worker' = [worker EXCEPT ![w] = r]
    BY <1>2, <2>1 DEF Take
  <2> QED BY <2>2, <2>3 DEF Typed
<1>5. Typed' /\ Engaged'
  BY <1>1, <1>3, <1>4 DEF Typed, Engaged, Busy
<1>6. Placed' /\ Ordered' /\ Shows'
  BY <1>1 DEF Placed, Ordered, Shows, Live
<1>7. OneRun'
  BY <1>1, <1>4 DEF OneRun, Runs, Busy
<1>8. Apart'
  BY <1>1 DEF Apart
<1>9. OnePlace'
  <2>1. \A k \in Jobs : Taken(k)' <=> (Taken(k) \/ k = j)
    BY <1>1, <1>4 DEF Taken
  <2>2. ~Taken(j) /\ InQueue(j)
    BY <1>3 DEF OnePlace
  <2>3. \A v, u \in Workers : /\ worker'[v].at = "taken" /\ worker'[u].at = "taken"
                              /\ worker'[v].job = worker'[u].job
                              => v = u
    BY <1>4, <2>2 DEF OnePlace, Taken
  <2>4. ASSUME NEW k \in Jobs
        PROVE  /\ job'[k].queued <=> InQueue(k)' \/ Taken(k)'
               /\ ~(InQueue(k)' /\ Taken(k)')
    BY <1>1, <1>3, <2>1, <2>2 DEF OnePlace
  <2> QED BY <1>3, <2>3, <2>4 DEF OnePlace
<1>10. KeepsDemands /\ SameAsking
  BY <1>1 DEF KeepsDemands, SameAsking
<1>11. DemandsCounted' /\ DemandsInOrder'
  BY <1>1, <1>10, DemandsRest
<1>12. EndedLeavesNothing' /\ NoLostDemand'
  BY <1>1 DEF EndedLeavesNothing, NoLostDemand, Live, Has
<1> QED BY <1>5, <1>6, <1>7, <1>8, <1>9, <1>11, <1>12

\* Nothing but the workers and the segments changes: no job begins or ends to wait or
\* to run, and what is published belongs to an open job.
LEMMA WorkersMove ==
  ASSUME IInv, UNCHANGED <<job, queue, wanted>>,
         worker' \in [Workers -> RunRec], Engaged', OneRun',
         \A w \in Workers : worker'[w].at = "taken" <=> worker[w].at = "taken",
         \A w \in Workers : worker[w].at = "taken" => worker'[w].job = worker[w].job,
         opener' \in [Openers -> OpenerRec], SameAsking, Placed',
         entries' \in SUBSET Catalog!Keys, EndedLeavesNothing',
         \A o \in Openers : opener'[o].at = "waiting" =>
           /\ opener'[o] = opener[o]
           /\ \A k \in entries' \ entries : k[1] # opener[o].job
  PROVE  IInv'
<1> USE DEF IInv
<1>1. Typed'
  BY DEF Typed
<1>2. Ordered' /\ Shows' /\ Apart'
  BY DEF Ordered, Shows, Apart, Live
<1>3. OnePlace'
  <2>1. \A k \in Jobs : (InQueue(k)' <=> InQueue(k)) /\ (Taken(k)' <=> Taken(k))
    BY DEF InQueue, Taken
  <2>2. \A v, u \in Workers : /\ worker'[v].at = "taken" /\ worker'[u].at = "taken"
                              /\ worker'[v].job = worker'[u].job
                              => v = u
    BY DEF OnePlace
  <2> QED BY <2>1, <2>2 DEF OnePlace, NoneTwice
<1>4. DemandsCounted' /\ DemandsInOrder'
  BY DemandsRest DEF KeepsDemands
<1>5. NoLostDemand'
  <2>1. ASSUME NEW o \in Openers, NEW k \in Jobs, NEW i \in Indexes, Sleeps(o, k, i)'
        PROVE  Hope(k, i)'
    <3>1. Sleeps(o, k, i)
      BY <2>1 DEF Sleeps
    <3>2. Hope(k, i)
      BY <3>1, SleepersHope
    <3>3. <<k, i>> \in entries' => <<k, i>> \in entries
      BY <2>1, <3>1 DEF Sleeps
    <3> QED BY <3>2, <3>3 DEF Hope, Live, Has
  <2> QED BY <1>1, <2>1, SleepersRest
<1> QED BY <1>1, <1>2, <1>3, <1>4, <1>5

\* A worker that has no job in its hands goes where it has none either.
LEMMA ExitKeeps ==
  ASSUME IInv, NEW w \in Workers, Exit(w)
  PROVE  IInv'
<1> USE DEF IInv
<1>1. UNCHANGED <<job, queue, wanted, opener, entries>> /\ worker[w].at = "idle"
      /\ Advance(w, "exited")
  BY DEF Exit, store, Advance
<1>2. Works(w, "exited")
  BY <1>1, Advances
<1>3. Engaged' /\ OneRun'
  BY <1>1, <1>2 DEF Works, Engaged, OneRun, Runs, Busy
<1>4. SameAsking /\ Placed' /\ EndedLeavesNothing'
  BY <1>1 DEF SameAsking, Placed, EndedLeavesNothing, Live
<1>5. opener' \in [Openers -> OpenerRec] /\ entries' \in SUBSET Catalog!Keys
  BY <1>1 DEF Typed
<1> QED BY <1>1, <1>2, <1>3, <1>4, <1>5, WorkersMove DEF Works

\* The job that a worker has taken waits nowhere else, and does not run.
LEMMA TakenAlone ==
  ASSUME OnePlace, Apart, NEW w \in Workers, NEW j \in Jobs, worker[w].at = "taken",
         worker[w].job = j
  PROVE  /\ job[j].queued /\ ~job[j].running /\ ~InQueue(j)
         /\ \A v \in Workers \ {w} : ~(worker[v].at = "taken" /\ worker[v].job = j)
BY DEF OnePlace, Apart, Taken

\* A worker has another place for its job: it waits no more.
LEMMA DoneWaiting ==
  ASSUME OnePlace, NEW w \in Workers, NEW j \in Jobs, worker[w].at = "taken",
         worker[w].job = j, worker'[w].at # "taken", queue' = queue,
         \A v \in Workers \ {w} : worker'[v].at = worker[v].at /\ worker'[v].job = worker[v].job,
         ~job'[j].queued, \A k \in Jobs \ {j} : job'[k] = job[k]
  PROVE  OnePlace'
<1>1. \A k \in Jobs : (InQueue(k)' <=> InQueue(k)) /\ (Taken(k)' <=> (Taken(k) /\ k # j))
  BY DEF InQueue, Taken, OnePlace
<1>2. ~InQueue(j)
  BY DEF OnePlace, Taken
<1>3. ASSUME NEW k \in Jobs
      PROVE  /\ job'[k].queued <=> InQueue(k)' \/ Taken(k)'
             /\ ~(InQueue(k)' /\ Taken(k)')
  <2>1. CASE k = j
    BY <1>1, <1>2, <2>1
  <2>2. CASE k # j
    BY <1>1, <2>2 DEF OnePlace
  <2> QED BY <2>1, <2>2
<1>4. \A v, u \in Workers : /\ worker'[v].at = "taken" /\ worker'[u].at = "taken"
                            /\ worker'[v].job = worker'[u].job
                            => v = u
  BY DEF OnePlace
<1>5. NoneTwice'
  BY DEF OnePlace, NoneTwice
<1> QED BY <1>3, <1>4, <1>5 DEF OnePlace

\* A job that is taken and has no demand left that is not met rests: nobody sleeps on it.
LEMMA NoWorkKeeps ==
  ASSUME IInv, NEW w \in Workers, NoWork(w)
  PROVE  IInv'
<1> USE DEF IInv
<1>1. UNCHANGED <<queue, opener, closed, entries, wanted, held>> /\ worker[w].at = "taken"
      /\ worker' = [worker EXCEPT ![w] = NoRun]
  BY DEF NoWork, store
<1>2. PICK j \in Jobs : j = worker[w].job
  BY <1>1 DEF Engaged
<1>3. ~Live(j) \/ Unmet(j) = {}
  BY <1>2 DEF NoWork
<1>4. /\ job' \in [Jobs -> JobRec]
      /\ KeepsPrep /\ KeepsData /\ KeepsDemands
      /\ ~job'[j].queued /\ job'[j].running = job[j].running
      /\ job'[j].closed = job[j].closed
      /\ job'[j].state = IF Live(j) THEN "ready" ELSE job[j].state
      /\ \A k \in Jobs \ {j} : job'[k] = job[k]
  BY <1>2, Rests
<1>5. /\ worker' \in [Workers -> RunRec] /\ worker'[w].at = "idle"
      /\ \A v \in Workers \ {w} : worker'[v] = worker[v]
  BY <1>1, NoRunIdle DEF Typed
<1>6. job[j].queued /\ ~job[j].running
  BY <1>1, <1>2, TakenAlone
<1>7. Typed' /\ Engaged'
  BY <1>1, <1>4, <1>5 DEF Typed, Engaged, Busy
<1>8. Placed' /\ Ordered'
  BY <1>1, <1>4, <1>6 DEF Placed, Ordered, KeepsPrep
<1>9. OneRun' /\ Apart'
  BY <1>1, <1>4, <1>5, <1>6 DEF OneRun, Apart, Runs, Busy, Engaged
<1>10. OnePlace'
  BY <1>1, <1>2, <1>4, <1>5, DoneWaiting
<1>11. Shows'
  BY <1>4, <1>6 DEF Shows, Live, KeepsPrep
<1>12. DemandsCounted' /\ DemandsInOrder'
  BY <1>1, <1>4, DemandsRest DEF SameAsking
<1>13. EndedLeavesNothing'
  BY <1>1, <1>4, StoreRests DEF Live, KeepsPrep
<1>14. NoLostDemand'
  <2>1. ASSUME NEW o \in Openers, NEW k \in Jobs, NEW i \in Indexes, Sleeps(o, k, i)'
        PROVE  Hope(k, i)'
    <3>1. Sleeps(o, k, i)
      BY <1>1, <2>1 DEF Sleeps
    <3>2. Hope(k, i)
      BY <3>1, SleepersHope
    <3>3. k # j
      <4>1. o \in Asking(k, i)
        BY <3>1 DEF Sleeps, Asking
      <4>2. Cardinality(Asking(k, i)) \in Nat /\ Cardinality(Asking(k, i)) > 0
        BY <4>1, AskingFinite
      <4>3. job[k].count[i] = Cardinality(Asking(k, i))
        BY DEF DemandsCounted
      <4>4. i \in Unmet(k)
        BY <3>2, <4>2, <4>3 DEF Unmet, Demanded, Hope
      <4> QED BY <1>3, <3>2, <4>4 DEF Hope
    <3> QED BY <1>1, <1>4, <3>2, <3>3, HopeRests
  <2> QED BY <1>7, <1>8, <2>1, SleepersRest
<1> QED BY <1>7, <1>8, <1>9, <1>10, <1>11, <1>12, <1>13, <1>14

\* Demands are served in their order: a run is started for a demand that is not met and that
\* is older than every other one that is not.
THEOREM OldestIsChosen ==
  ASSUME DemandsInOrder, NEW j \in Jobs, Unmet(j) # {}
  PROVE  /\ Chosen(j) \in Unmet(j) /\ Chosen(j) \in Indexes
         /\ \A i \in Unmet(j) \ {Chosen(j)} : Chosen(j) \in job[j].older[i]
<1>1. PICK older, is, unmet : older = job[j].older /\ is = Demanded(j) /\ unmet = Unmet(j)
  OBVIOUS
<1>2. /\ InOrder(older, is) /\ is \in SUBSET Indexes /\ unmet \in SUBSET is /\ unmet # {}
  BY <1>1 DEF DemandsInOrder, Demanded, Unmet
<1>3. IsFiniteSet(Indexes)
  <2>1. IsFiniteSet(Segments)
    <3>1. 0 \in Int /\ Length - 1 \in Int
      BY TranscodeAssumption
    <3> QED BY <3>1, FS_Interval DEF Segments
  <2> QED BY <2>1, FS_AddElement DEF Indexes
<1>4. PICK B : B = {older[i] : i \in unmet}
  OBVIOUS
<1>5. B \subseteq SUBSET Indexes /\ B # {}
  BY <1>2, <1>4 DEF InOrder
<1>6. B \subseteq FiniteSubsetsOf(Indexes)
  BY <1>3, <1>5, FS_FiniteSubsetsOfFinite
<1>7. \E T \in B : \A S \in B : ~ (<<S, T>> \in StrictSubsetOrdering(Indexes))
  BY <1>3, <1>5, <1>6, FS_StrictSubsetOrderingWellFounded, WFMin
<1>8. PICK T \in B : \A S \in B : ~ (<<S, T>> \in StrictSubsetOrdering(Indexes))
  BY <1>7
<1>9. PICK i \in unmet : T = older[i]
  BY <1>4
<1>10. ASSUME NEW k \in unmet, k \in older[i]
       PROVE  FALSE
  <2>1. older[k] \subseteq older[i] /\ k \notin older[k]
    BY <1>2, <1>10 DEF InOrder
  <2>2. older[k] \in B
    BY <1>4
  <2>3. <<older[k], T>> \in StrictSubsetOrdering(Indexes)
    BY <1>5, <1>9, <1>10, <2>1, <2>2 DEF StrictSubsetOrdering
  <2> QED BY <1>8, <2>2, <2>3
<1>11. Chosen(j) \in Unmet(j) /\ job[j].older[Chosen(j)] \cap Unmet(j) = {}
  BY <1>1, <1>10 DEF Chosen
<1>12. ASSUME NEW k \in Unmet(j) \ {Chosen(j)}
       PROVE  Chosen(j) \in job[j].older[k]
  BY <1>1, <1>2, <1>11 DEF InOrder
<1> QED BY <1>1, <1>2, <1>11, <1>12

\* A run starts, of a job that has none.
LEMMA StartRunKeeps ==
  ASSUME IInv, NEW w \in Workers, StartRun(w)
  PROVE  IInv'
<1> USE DEF IInv
<1>1. UNCHANGED <<queue, closed, entries, wanted, held>> /\ worker[w].at = "taken"
  BY DEF StartRun, store
<1>2. PICK j \in Jobs : j = worker[w].job
  BY <1>1 DEF Engaged
<1>3. Live(j) /\ Wake({j})
  BY <1>2 DEF StartRun
<1>4. /\ job' \in [Jobs -> JobRec]
      /\ KeepsPrep /\ KeepsData /\ KeepsDemands
      /\ ~job'[j].queued /\ job'[j].running /\ job'[j].state = "producing"
      /\ job'[j].closed = job[j].closed
      /\ \A k \in Jobs \ {j} : job'[k] = job[k]
  BY <1>2, Starts
<1>5. /\ worker' \in [Workers -> RunRec] /\ worker'[w].at = "start" /\ worker'[w].job = j
      /\ \A v \in Workers \ {w} : /\ worker'[v].at = worker[v].at
                                  /\ worker'[v].job = worker[v].job
                                  /\ worker'[v].seg = worker[v].seg
  <2>1. PICK start \in Segments : start = IF Chosen(j) = Header THEN 0 ELSE Chosen(j)
    <3>1. Chosen(j) \in Indexes
      BY <1>2, OldestIsChosen DEF StartRun
    <3> QED BY <3>1, TranscodeAssumption DEF Indexes, Segments
  <2>2. PICK r : r = [NoRun EXCEPT !.at = "start", !.job = j, !.start = start,
                                   !.seg = start - 1]
    OBVIOUS
  <2>3. r \in RunRec /\ r.at = "start" /\ r.job = j
    <3>1. start - 1 \in Int
      BY DEF Segments
    <3>2. PICK x \in RunRec : x = NoRun
      BY NoRunIdle
    <3> QED BY <2>2, <3>1, <3>2 DEF RunRec, Busy
  <2>4. PICK other : other = Obsolete({j})
    OBVIOUS
  <2>5. worker' = [other EXCEPT ![w] = r]
    BY <1>2, <2>1, <2>2, <2>4 DEF StartRun
  <2>6. /\ other \in [Workers -> RunRec]
        /\ \A v \in Workers : /\ other[v].at = worker[v].at /\ other[v].job = worker[v].job
                              /\ other[v].seg = worker[v].seg
    <3>1. ASSUME NEW v \in Workers
          PROVE  /\ other[v] \in RunRec /\ other[v].at = worker[v].at
                 /\ other[v].job = worker[v].job /\ other[v].seg = worker[v].seg
      <4>1. worker[v] \in RunRec
        BY DEF Typed
      <4>2. other[v] = IF worker[v].job \in {j} /\ worker[v].at \in Busy
                       THEN [worker[v] EXCEPT !.obsolete = TRUE] ELSE worker[v]
        BY <2>4 DEF Obsolete
      <4>3. CASE worker[v].job \in {j} /\ worker[v].at \in Busy
        BY <4>1, <4>2, <4>3 DEF RunRec
      <4>4. CASE ~(worker[v].job \in {j} /\ worker[v].at \in Busy)
        BY <4>1, <4>2, <4>4
      <4> QED BY <4>3, <4>4
    <3> QED BY <2>4, <3>1 DEF Obsolete
  <2> QED BY <2>3, <2>5, <2>6
<1>6. job[j].queued /\ ~job[j].running
  BY <1>1, <1>2, TakenAlone
<1>7. Awakes({j})
  BY <1>3, Wakes
<1>8. Typed' /\ Engaged'
  BY <1>1, <1>4, <1>5, <1>7 DEF Typed, Engaged, Busy, Awakes
<1>9. Placed' /\ Ordered'
  BY <1>1, <1>4, <1>6, <1>7 DEF Placed, Ordered, KeepsPrep, Awakes
<1>10. \A v \in Workers : ~(worker[v].at \in Busy /\ worker[v].job = j)
  BY <1>6 DEF OneRun
<1>11. OneRun'
  <2>1. \A v \in Workers : worker'[v].at \in Busy => job'[worker'[v].job].running
    BY <1>4, <1>5 DEF OneRun, Engaged
  <2>2. ASSUME NEW k \in Jobs, job'[k].running
        PROVE  \E v \in Workers : worker'[v].job = k /\ worker'[v].at \in Busy
    <3>1. CASE k = j
      BY <1>5, <3>1 DEF Busy
    <3>2. CASE k # j
      <4>1. PICK v \in Workers : worker[v].job = k /\ worker[v].at \in Busy
        BY <1>4, <2>2, <3>2 DEF OneRun, Runs
      <4> QED BY <1>2, <1>5, <3>2, <4>1
    <3> QED BY <3>1, <3>2
  <2>3. \A v, u \in Workers : /\ worker'[v].at \in Busy /\ worker'[u].at \in Busy
                              /\ worker'[v].job = worker'[u].job
                              => v = u
    BY <1>5, <1>10 DEF OneRun
  <2> QED BY <2>1, <2>2, <2>3 DEF OneRun, Runs
<1>12. Apart'
  BY <1>4 DEF Apart
<1>13. OnePlace'
  BY <1>1, <1>2, <1>4, <1>5, DoneWaiting
<1>14. Shows'
  BY <1>4 DEF Shows, Live, KeepsPrep
<1>15. DemandsCounted' /\ DemandsInOrder'
  BY <1>1, <1>4, <1>7, DemandsRest DEF SameAsking, InOpen, Awakes
<1>16. EndedLeavesNothing'
  BY <1>1, <1>4, StoreRests DEF Live, KeepsPrep
<1>17. NoLostDemand'
  <2>1. ASSUME NEW o \in Openers, NEW k \in Jobs, NEW i \in Indexes, Sleeps(o, k, i)'
        PROVE  Hope(k, i)'
    <3>1. Sleeps(o, k, i) /\ k # j
      BY <1>7, <2>1 DEF Awakes, Sleeps
    <3>2. Hope(k, i)
      BY <3>1, SleepersHope
    <3> QED BY <1>1, <1>4, <3>1, <3>2, HopeRests
  <2> QED BY <1>8, <1>9, <2>1, SleepersRest
<1> QED BY <1>8, <1>9, <1>11, <1>12, <1>13, <1>14, <1>15, <1>16, <1>17

-----------------------------------------------------------------------------
(* The steps of a run *)

\* A run goes on: it is still the run of its job.
LEMMA RunMoves ==
  ASSUME Engaged, OneRun, NEW w \in Workers, NEW at \in Busy, worker[w].at \in Busy,
         Works(w, at), at \in {"write", "wrote"} => worker'[w].seg \in Segments,
         \A k \in Jobs : job'[k].running <=> job[k].running
  PROVE  /\ Engaged' /\ OneRun'
         /\ worker' \in [Workers -> RunRec]
         /\ \A v \in Workers : /\ worker'[v].at = "taken" <=> worker[v].at = "taken"
                               /\ worker[v].at = "taken" => worker'[v].job = worker[v].job
<1>1. Engaged'
  BY DEF Works, Engaged, Busy
<1>2. OneRun'
  <2>1. \A v \in Workers : /\ worker'[v].job = worker[v].job
                           /\ worker'[v].at \in Busy <=> worker[v].at \in Busy
    BY DEF Works
  <2>2. \A v \in Workers : worker'[v].at \in Busy => job'[worker'[v].job].running
    BY <2>1 DEF OneRun, Engaged
  <2>3. \A k \in Jobs : job'[k].running =>
          \E v \in Workers : worker'[v].job = k /\ worker'[v].at \in Busy
    BY <2>1 DEF OneRun, Runs
  <2> QED BY <2>1, <2>2, <2>3 DEF OneRun, Runs
<1> QED BY <1>1, <1>2 DEF Works, Busy

\* A run goes on, and the catalog may forget something.
LEMMA RunKeeps ==
  ASSUME IInv, UNCHANGED <<job, queue, opener, wanted>>, entries' \subseteq entries,
         NEW w \in Workers, NEW at \in Busy, worker[w].at \in Busy, Works(w, at),
         at \in {"write", "wrote"} => worker'[w].seg \in Segments
  PROVE  IInv'
<1> USE DEF IInv
<1>1. /\ Engaged' /\ OneRun'
      /\ worker' \in [Workers -> RunRec]
      /\ \A v \in Workers : /\ worker'[v].at = "taken" <=> worker[v].at = "taken"
                            /\ worker[v].at = "taken" => worker'[v].job = worker[v].job
  BY RunMoves
<1>2. SameAsking /\ Placed'
  BY DEF SameAsking, Placed
<1>3. EndedLeavesNothing' /\ entries' \in SUBSET Catalog!Keys
  BY StoreRests DEF Live
<1>4. opener' \in [Openers -> OpenerRec]
  BY DEF Typed
<1> QED BY <1>1, <1>2, <1>3, <1>4, WorkersMove

\* Nothing is stored by the fragment of a segment, the end of the window, the data that is
\* written and the failure of a run.
LEMMA WriteKeeps ==
  ASSUME IInv, NEW w \in Workers,
         \/ \E n \in Segments : Fragment(w, n)
         \/ WindowComplete(w) \/ WriteSegment(w) \/ RunFails(w)
  PROVE  IInv'
<1> USE DEF IInv
<1>1. CASE \E n \in Segments : Fragment(w, n)
  <2>1. PICK n \in Segments : Fragment(w, n)
    BY <1>1
  <2>2. UNCHANGED <<job, queue, opener, wanted, entries>> /\ worker[w].at = "run"
    BY <2>1 DEF Fragment, store
  <2>3. CASE Valid(w)
    <3>1. PICK x \in RunRec : x = worker[w]
      BY DEF Typed
    <3>2. PICK r : r = [x EXCEPT !.at = "write", !.seg = n]
      OBVIOUS
    <3>3. worker' = [worker EXCEPT ![w] = r]
      BY <2>1, <2>3, <3>1, <3>2 DEF Fragment
    <3>4. r \in RunRec /\ r.at = "write" /\ r.job = x.job /\ r.seg = n
      <4>1. n \in Int /\ "write" \in Busy
        BY DEF Segments, Busy
      <4> QED BY <3>2, <4>1 DEF RunRec
    <3>5. Works(w, "write") /\ worker'[w].seg = n
      BY <3>1, <3>3, <3>4 DEF Works, Typed
    <3> QED BY <2>2, <3>5, RunKeeps DEF Busy
  <2>4. CASE ~Valid(w)
    <3>1. Works(w, "returned")
      BY <2>1, <2>4, Returns DEF Fragment
    <3> QED BY <2>2, <3>1, RunKeeps DEF Busy
  <2> QED BY <2>3, <2>4
<1>2. CASE WindowComplete(w)
  <2>1. UNCHANGED <<job, queue, opener, wanted, entries>> /\ worker[w].at = "run"
        /\ Return(w, "none")
    BY <1>2 DEF WindowComplete, store
  <2>2. Works(w, "returned")
    BY <2>1, Returns
  <2> QED BY <2>1, <2>2, RunKeeps DEF Busy
<1>3. CASE WriteSegment(w)
  <2>1. UNCHANGED <<job, queue, opener, wanted>> /\ entries' \subseteq entries
        /\ worker[w].at = "write" /\ (Advance(w, "wrote") \/ Fail(w, "capacity_exhausted"))
    BY <1>3 DEF WriteSegment, Catalog!Forget
  <2>2. CASE Advance(w, "wrote")
    <3>1. Works(w, "wrote") /\ worker'[w].seg = worker[w].seg
      BY <2>2, Advances DEF Busy
    <3>2. worker[w].seg \in Segments
      BY <2>1 DEF Engaged
    <3> QED BY <2>1, <3>1, <3>2, RunKeeps DEF Busy
  <2>3. CASE Fail(w, "capacity_exhausted")
    <3>1. Works(w, "returned")
      BY <2>3, Fails
    <3> QED BY <2>1, <3>1, RunKeeps DEF Busy
  <2> QED BY <2>1, <2>2, <2>3
<1>4. CASE RunFails(w)
  <2>1. UNCHANGED <<job, queue, opener, wanted, entries>> /\ Fail(w, "worker")
        /\ worker[w].at \in {"start", "run", "write", "wrote"}
    BY <1>4 DEF RunFails, store
  <2>2. Works(w, "returned")
    BY <2>1, Fails
  <2> QED BY <2>1, <2>2, RunKeeps DEF Busy
<1> QED BY <1>1, <1>2, <1>3, <1>4

\* The initialization data is there: who slept on the job is awake.
LEMMA RunInitKeeps ==
  ASSUME IInv, NEW w \in Workers, RunInit(w)
  PROVE  IInv'
<1> USE DEF IInv
<1>1. UNCHANGED <<queue, wanted, entries>> /\ worker[w].at = "start"
  BY DEF RunInit, store
<1>2. PICK j \in Jobs : j = worker[w].job
  BY <1>1 DEF Engaged, Busy
<1>3. CASE Return(w, "canceled") /\ UNCHANGED <<job, opener>>
  <2>1. Works(w, "returned")
    BY <1>3, Returns
  <2> QED BY <1>1, <1>3, <2>1, RunKeeps DEF Busy
<1>4. CASE /\ Advance(w, "run") /\ job' = [job EXCEPT ![j].init = TRUE]
           /\ IF job[j].init THEN opener' = opener ELSE Wake({j})
  <2>1. /\ job' \in [Jobs -> JobRec]
        /\ KeepsRuns /\ KeepsPrep /\ KeepsShown /\ KeepsDemands
        /\ job'[j].failure = job[j].failure /\ job'[j].init
        /\ \A k \in Jobs \ {j} : job'[k] = job[k]
    BY <1>4, Inits
  <2>2. Works(w, "run")
    BY <1>4, Advances DEF Busy
  <2>3. /\ opener' \in [Openers -> OpenerRec] /\ SameAsking
        /\ \A o \in Openers : /\ opener'[o].job = opener[o].job
                              /\ opener'[o].index = opener[o].index
                              /\ opener[o].at # "idle" <=> opener'[o].at # "idle"
                              /\ opener[o].at = "preparing" <=> opener'[o].at = "preparing"
                              /\ opener'[o].at = "waiting" => opener[o].at = "waiting"
                              /\ opener'[o].at = "waiting" => opener[o].job # j \/ job[j].init
    <3>1. CASE job[j].init
      BY <1>4, <3>1 DEF SameAsking, Typed
    <3>2. CASE ~job[j].init
      <4>1. Awakes({j})
        BY <1>4, <3>2, Wakes
      <4> QED BY <4>1 DEF Awakes, SameAsking, InOpen
    <3> QED BY <3>1, <3>2
  <2>4. /\ Engaged' /\ OneRun'
        /\ worker' \in [Workers -> RunRec]
        /\ \A v \in Workers : /\ worker'[v].at = "taken" <=> worker[v].at = "taken"
                              /\ worker[v].at = "taken" => worker'[v].job = worker[v].job
    BY <1>1, <2>1, <2>2, RunMoves DEF Busy, KeepsRuns
  <2>5. Typed'
    BY <1>1, <2>1, <2>3, <2>4 DEF Typed
  <2>6. Placed' /\ Ordered' /\ Shows' /\ Apart'
    <3>1. Placed'
      BY <2>1, <2>3 DEF Placed, KeepsPrep
    <3>2. Ordered'
      BY <2>1 DEF Ordered, KeepsPrep, KeepsRuns, KeepsShown
    <3>3. Shows' /\ Apart'
      BY <2>1 DEF Shows, Apart, Live, KeepsPrep, KeepsRuns, KeepsShown
    <3> QED BY <3>1, <3>2, <3>3
  <2>7. OnePlace'
    <3>1. \A k \in Jobs : (InQueue(k)' <=> InQueue(k)) /\ (Taken(k)' <=> Taken(k))
      BY <1>1, <2>4 DEF InQueue, Taken
    <3>2. \A v, u \in Workers : /\ worker'[v].at = "taken" /\ worker'[u].at = "taken"
                                /\ worker'[v].job = worker'[u].job
                                => v = u
      BY <2>4 DEF OnePlace
    <3> QED BY <1>1, <2>1, <3>1, <3>2 DEF OnePlace, NoneTwice, KeepsRuns
  <2>8. DemandsCounted' /\ DemandsInOrder'
    BY <1>1, <2>1, <2>3, DemandsRest
  <2>9. EndedLeavesNothing'
    BY <1>1, <2>1, StoreRests DEF Live, KeepsPrep, KeepsShown
  <2>10. NoLostDemand'
    <3>1. ASSUME NEW o \in Openers, NEW k \in Jobs, NEW i \in Indexes, Sleeps(o, k, i)'
          PROVE  Hope(k, i)'
      <4>1. Sleeps(o, k, i) /\ (k # j \/ job[j].init)
        BY <2>3, <3>1 DEF Sleeps
      <4>2. Hope(k, i)
        BY <4>1, SleepersHope
      <4>3. CASE k # j
        BY <1>1, <2>1, <4>2, <4>3, HopeRests
      <4>4. CASE k = j /\ job[j].init
        BY <1>1, <2>1, <4>2, <4>4
           DEF Hope, Has, Live, KeepsPrep, KeepsShown, KeepsRuns
      <4> QED BY <4>1, <4>3, <4>4
    <3> QED BY <2>5, <2>6, <3>1, SleepersRest
  <2> QED BY <2>4, <2>5, <2>6, <2>7, <2>8, <2>9, <2>10
<1> QED BY <1>2, <1>3, <1>4 DEF RunInit

\* A segment is published: who slept on the job is awake, and the job is open.
LEMMA CommitSegmentKeeps ==
  ASSUME IInv, NEW w \in Workers, CommitSegment(w)
  PROVE  IInv'
<1> USE DEF IInv
<1>1. UNCHANGED <<job, queue>> /\ worker[w].at = "wrote"
  BY DEF CommitSegment
<1>2. PICK j \in Jobs, n \in Segments : j = worker[w].job /\ n = worker[w].seg
  BY <1>1 DEF Engaged, Busy
<1>3. CASE (\E err \in {"capacity_exhausted", "canceled"} : Return(w, err))
           /\ UNCHANGED <<opener, wanted, entries>>
  <2>1. Works(w, "returned")
    BY <1>3, Returns
  <2> QED BY <1>1, <1>3, <2>1, RunKeeps DEF Busy
<1>4. CASE /\ Valid(w) /\ Advance(w, "run") /\ Wake({j}) /\ wanted' = wanted
           /\ \E ks \in SUBSET entries : entries' = (entries \ ks) \cup {<<j, n>>}
  <2>1. Works(w, "run")
    BY <1>4, Advances DEF Busy
  <2>2. /\ Engaged' /\ OneRun'
        /\ worker' \in [Workers -> RunRec]
        /\ \A v \in Workers : /\ worker'[v].at = "taken" <=> worker[v].at = "taken"
                              /\ worker[v].at = "taken" => worker'[v].job = worker[v].job
    BY <1>1, <2>1, RunMoves DEF Busy
  <2>3. Awakes({j})
    BY <1>4, Wakes
  <2>4. opener' \in [Openers -> OpenerRec] /\ SameAsking /\ Placed'
    <3>1. opener' \in [Openers -> OpenerRec] /\ SameAsking
      BY <2>3 DEF Awakes, SameAsking, InOpen
    <3>2. Placed'
      BY <1>1, <2>3 DEF Awakes, Placed
    <3> QED BY <3>1, <3>2
  <2>5. Live(j)
    BY <1>2, <1>4 DEF Valid
  <2>6. /\ entries' \in SUBSET Catalog!Keys /\ EndedLeavesNothing'
        /\ \A k \in entries' \ entries : k = <<j, n>>
    <3>1. <<j, n>> \in Catalog!Keys
      BY DEF Catalog!Keys
    <3>2. entries' \in SUBSET Catalog!Keys
      BY <1>4, <3>1 DEF Typed
    <3>3. \A k \in entries' : k \in entries \/ k = <<j, n>>
      BY <1>4
    <3>4. EndedLeavesNothing'
      BY <1>1, <2>5, <3>3 DEF EndedLeavesNothing, Live
    <3> QED BY <3>2, <3>3, <3>4
  <2>7. ASSUME NEW o \in Openers, opener'[o].at = "waiting"
        PROVE  opener'[o] = opener[o] /\ opener[o].job # j
    <3>1. opener[o].at = "waiting" /\ opener[o].job # j
      BY <2>3, <2>7 DEF Awakes
    <3>2. opener'[o] = opener[o]
      BY <1>4, <3>1 DEF Wake
    <3> QED BY <3>1, <3>2
  <2> QED BY <1>1, <1>4, <2>2, <2>4, <2>6, <2>7, WorkersMove
<1>5. \/ /\ Valid(w) /\ Advance(w, "run") /\ Wake({j}) /\ wanted' = wanted
         /\ \E ks \in SUBSET entries : entries' = (entries \ ks) \cup {<<j, n>>}
      \/ /\ \E err \in {"capacity_exhausted", "canceled"} : Return(w, err)
         /\ UNCHANGED <<opener, wanted, entries>>
  BY <1>2 DEF CommitSegment, store, Catalog!Put, Catalog!Idle
<1> QED BY <1>3, <1>4, <1>5

\* A run is over: who slept on the job is awake, and what is demanded still is queued.
LEMMA EndRunKeeps ==
  ASSUME IInv, NEW w \in Workers, EndRun(w)
  PROVE  IInv'
<1> USE DEF IInv
<1>1. UNCHANGED <<closed, entries, wanted, held>> /\ worker[w].at = "returned"
      /\ worker' = [worker EXCEPT ![w] = NoRun]
  BY DEF EndRun, store
<1>2. PICK j \in Jobs : j = worker[w].job
  BY <1>1 DEF Engaged, Busy
<1>3. job[j].running /\ ~job[j].queued /\ job[j].prep = "ok"
  BY <1>1, <1>2 DEF OneRun, Apart, Ordered, Busy
<1>4. /\ job' \in [Jobs -> JobRec]
      /\ KeepsDemands
      /\ ~job'[j].running /\ job'[j].made = job[j].made /\ job'[j].prep = job[j].prep
      /\ job'[j].closed = job[j].closed /\ job'[j].init = job[j].init
      /\ \A k \in Jobs \ {j} : job'[k] = job[k]
      /\ \/ /\ ~job'[j].queued /\ queue' = queue
            /\ Live(j) => job'[j].state \in {"ready", "failed"}
         \/ /\ job'[j].queued /\ queue' = Append(queue, j) /\ Len(queue) < MaxJobs
            /\ job'[j].state = "queued"
  BY <1>2, <1>3, RunsEnd
<1>5. /\ worker' \in [Workers -> RunRec] /\ worker'[w].at = "idle"
      /\ \A v \in Workers \ {w} : worker'[v] = worker[v]
  BY <1>1, NoRunIdle DEF Typed
<1>6. /\ opener' \in [Openers -> OpenerRec] /\ SameAsking /\ Placed'
      /\ \A o \in Openers : opener'[o].at = "waiting" =>
           /\ opener[o].at = "waiting" /\ opener'[o].job = opener[o].job
           /\ opener'[o].index = opener[o].index
           /\ opener[o].job # j
  <2>1. CASE ~Live(j)
    <3>1. opener' = opener
      BY <1>2, <2>1 DEF EndRun
    <3>2. \A o \in Openers : opener[o].at = "waiting" => opener[o].job # j
      BY <2>1 DEF NoLostDemand
    <3>3. Placed'
      BY <1>4, <3>1 DEF Placed
    <3> QED BY <3>1, <3>2, <3>3 DEF SameAsking, Typed
  <2>2. CASE Live(j)
    <3>1. Wake({j})
      BY <1>2, <2>2 DEF EndRun
    <3>2. Awakes({j})
      BY <3>1, Wakes
    <3>3. Placed'
      BY <1>4, <3>2 DEF Placed, Awakes
    <3> QED BY <3>2, <3>3 DEF Awakes, SameAsking, InOpen
  <2> QED BY <2>1, <2>2
<1>7. queue' \in Seq(Jobs) /\ Len(queue') <= MaxJobs
  BY <1>4, QueueGrows DEF Typed
<1>8. Typed' /\ Engaged'
  BY <1>1, <1>4, <1>5, <1>6, <1>7 DEF Typed, Engaged, Busy
<1>9. Ordered'
  BY <1>3, <1>4 DEF Ordered
<1>10. OneRun'
  <2>1. \A v \in Workers \ {w} : worker[v].at \in Busy => worker[v].job # j
    BY <1>1, <1>2 DEF OneRun, Busy
  <2>2. \A v \in Workers : worker'[v].at \in Busy => job'[worker'[v].job].running
    BY <1>4, <1>5, <2>1 DEF OneRun, Engaged, Busy
  <2>3. ASSUME NEW k \in Jobs, job'[k].running
        PROVE  \E v \in Workers : worker'[v].job = k /\ worker'[v].at \in Busy
    <3>1. PICK v \in Workers : worker[v].job = k /\ worker[v].at \in Busy
      BY <1>4, <2>3 DEF OneRun, Runs
    <3>2. v # w
      BY <1>2, <1>4, <2>3, <3>1
    <3> QED BY <1>5, <3>1, <3>2
  <2>4. \A v, u \in Workers : /\ worker'[v].at \in Busy /\ worker'[u].at \in Busy
                              /\ worker'[v].job = worker'[u].job
                              => v = u
    BY <1>5 DEF OneRun, Busy
  <2> QED BY <2>2, <2>3, <2>4 DEF OneRun, Runs
<1>11. OnePlace' /\ Apart'
  <2>1. \A v \in Workers : /\ worker'[v].at = "taken" <=> worker[v].at = "taken"
                           /\ worker[v].at = "taken" => worker'[v].job = worker[v].job
    BY <1>1, <1>5
  <2>2. CASE ~job'[j].queued /\ queue' = queue
    <3>1. \A k \in Jobs : (InQueue(k)' <=> InQueue(k)) /\ (Taken(k)' <=> Taken(k))
      BY <2>1, <2>2 DEF InQueue, Taken
    <3>2. \A k \in Jobs : job'[k].queued <=> job[k].queued
      BY <1>3, <1>4, <2>2
    <3>3. \A v, u \in Workers : /\ worker'[v].at = "taken" /\ worker'[u].at = "taken"
                                /\ worker'[v].job = worker'[u].job
                                => v = u
      BY <2>1 DEF OnePlace
    <3>4. NoneTwice'
      BY <2>2 DEF OnePlace, NoneTwice
    <3>5. OnePlace'
      BY <3>1, <3>2, <3>3, <3>4 DEF OnePlace
    <3>6. Apart'
      BY <1>4, <2>2 DEF Apart
    <3> QED BY <3>5, <3>6
  <2>3. CASE job'[j].queued /\ queue' = Append(queue, j) /\ Len(queue) < MaxJobs
    BY <1>3, <1>4, <2>1, <2>3, EnqueueSound
  <2> QED BY <1>4, <2>2, <2>3
<1>12. Shows'
  BY <1>4 DEF Shows, Live
<1>13. DemandsCounted' /\ DemandsInOrder'
  BY <1>1, <1>4, <1>6, DemandsRest
<1>14. EndedLeavesNothing'
  BY <1>1, <1>4, StoreRests DEF Live
<1>15. NoLostDemand'
  <2>1. ASSUME NEW o \in Openers, NEW k \in Jobs, NEW i \in Indexes, Sleeps(o, k, i)'
        PROVE  Hope(k, i)'
    <3>1. Sleeps(o, k, i) /\ k # j
      BY <1>6, <2>1 DEF Sleeps
    <3>2. Hope(k, i)
      BY <3>1, SleepersHope
    <3> QED BY <1>1, <1>4, <3>1, <3>2, HopeRests
  <2> QED BY <1>6, <1>8, <2>1, SleepersRest
<1> QED BY <1>6, <1>8, <1>9, <1>10, <1>11, <1>12, <1>13, <1>14, <1>15

-----------------------------------------------------------------------------
(* What is always true *)

\* Nothing changes.
LEMMA NothingKeeps ==
  ASSUME IInv, UNCHANGED vars
  PROVE  IInv'
<1> USE DEF IInv, vars
<1>1. Typed' /\ Engaged' /\ Placed' /\ Ordered'
  BY DEF Typed, Engaged, Placed, Ordered
<1>2. OneRun' /\ Apart' /\ Shows'
  BY DEF OneRun, Runs, Apart, Shows, Live
<1>3. OnePlace'
  BY DEF OnePlace, InQueue, Taken, NoneTwice
<1>4. DemandsCounted' /\ DemandsInOrder'
  BY DemandsRest DEF SameAsking, KeepsDemands
<1>5. EndedLeavesNothing'
  BY DEF EndedLeavesNothing, Live
<1>6. NoLostDemand'
  BY DEF NoLostDemand, Live, Has
<1> QED BY <1>1, <1>2, <1>3, <1>4, <1>5, <1>6

\* Every step keeps the parts of the invariant: what a job shows, where it waits and runs,
\* what is demanded of it and what sleeps on it fit each other after every handler of the
\* manager and after every step of the goroutines.
THEOREM Inductive == IInv /\ [Next]_vars => IInv'
<1> SUFFICES ASSUME IInv, [Next]_vars
             PROVE  IInv'
  OBVIOUS
<1>1. ASSUME NEW j \in Jobs,
             \/ Create(j) \/ Prepare(j) \/ StopEncoding(j)
             \/ \E next \in Jobs : LinkReplacement(j, next)
             \/ \E o \in Openers, i \in Indexes : Ask(o, j, i)
      PROVE  IInv'
  BY <1>1, CreateKeeps, PrepareStartKeeps, PrepareEndKeeps, StopEncodingKeeps,
     LinkReplacementKeeps, AskKeeps DEF Prepare
<1>2. ASSUME NEW o \in Openers, Step(o) \/ GiveUp(o) \/ CloseLease(o)
      PROVE  IInv'
  BY <1>2, PreparedKeeps, RegisterKeeps, LoopEndKeeps, SleepKeeps, ReleaseKeeps,
     CloseLeaseKeeps DEF Step
<1>3. ASSUME NEW w \in Workers, Take(w) \/ Exit(w) \/ Run(w)
      PROVE  IInv'
  BY <1>3, TakeKeeps, ExitKeeps, NoWorkKeeps, StartRunKeeps, RunInitKeeps, WriteKeeps,
     CommitSegmentKeeps, EndRunKeeps DEF Run
<1>4. ASSUME NEW js \in SUBSET Jobs, EndJobs(js)
      PROVE  IInv'
  BY <1>4, EndKeeps DEF EndJobs
<1>5. CASE Close
  <2>1. PICK js \in SUBSET Jobs : js = {j \in Jobs : Live(j)}
    OBVIOUS
  <2>2. End(js) /\ queue' = queue /\ \A j \in js : Live(j)
    BY <1>5, <2>1 DEF Close
  <2> QED BY <2>2, EndKeeps
<1>6. CASE UNCHANGED vars
  BY <1>6, NothingKeeps
<1> QED BY <1>1, <1>2, <1>3, <1>4, <1>5, <1>6 DEF Next

\* The invariant holds in every reachable state.
LEMMA Invariance == Spec => []IInv
<1>1. Init => IInv
  BY Initially
<1>2. IInv /\ [Next]_vars => IInv'
  BY Inductive
<1> QED BY <1>1, <1>2, PTL DEF Spec

\* No demand is lost: at any time, whoever sleeps in Open waits for data that is not there, of
\* a job that is open, has not failed, and waits for a worker or runs.
THEOREM NoDemandIsLost == Spec => []NoLostDemand
<1>1. IInv => NoLostDemand
  BY DEF IInv
<1> QED BY <1>1, Invariance, PTL

\* The demands of a job are exactly the requests in the loop of Open, they protect their
\* segments as often, they keep their order, and an ended job has left no segment.
THEOREM DemandsAreAccounted == Spec => []DemandsAndSegments
<1>1. IInv => DemandsAndSegments
  BY DEF IInv, DemandsAndSegments
<1> QED BY <1>1, Invariance, PTL

\* The runs of a job are one or none, as its flag says.
LEMMA RunsCounted ==
  ASSUME OneRun, NEW j \in Jobs
  PROVE  Cardinality(Runs(j)) = IF job[j].running THEN 1 ELSE 0
<1>1. CASE job[j].running
  <2>1. PICK w \in Workers : w \in Runs(j)
    BY <1>1 DEF OneRun
  <2>2. Runs(j) = {w}
    BY <2>1 DEF OneRun, Runs
  <2> QED BY <1>1, <2>2, FS_Singleton
<1>2. CASE ~job[j].running
  <2>1. Runs(j) = {}
    BY <1>2 DEF OneRun, Runs
  <2> QED BY <1>2, <2>1, FS_EmptySet
<1> QED BY <1>1, <1>2

\* The places where a job waits are one or none, as its flag says.
LEMMA PlacesCounted ==
  ASSUME Typed, OnePlace, NEW j \in Jobs
  PROVE  Cardinality({i \in DOMAIN queue : queue[i] = j})
           + Cardinality({w \in Workers : worker[w].job = j /\ worker[w].at = "taken"})
           = IF job[j].queued THEN 1 ELSE 0
<1>1. PICK waits, taken : /\ waits = {i \in DOMAIN queue : queue[i] = j}
                          /\ taken = {w \in Workers : worker[w].job = j /\ worker[w].at = "taken"}
  OBVIOUS
<1>2. DOMAIN queue = 1..Len(queue)
  BY DEF Typed
<1>3. Cardinality(waits) = IF InQueue(j) THEN 1 ELSE 0
  <2>1. CASE InQueue(j)
    <3>1. PICK n \in 1..Len(queue) : queue[n] = j
      BY <2>1 DEF InQueue
    <3>2. waits = {n}
      BY <1>1, <1>2, <3>1 DEF OnePlace, NoneTwice
    <3> QED BY <2>1, <3>2, FS_Singleton
  <2>2. CASE ~InQueue(j)
    <3>1. waits = {}
      BY <1>1, <1>2, <2>2 DEF InQueue
    <3> QED BY <2>2, <3>1, FS_EmptySet
  <2> QED BY <2>1, <2>2
<1>4. Cardinality(taken) = IF Taken(j) THEN 1 ELSE 0
  <2>1. CASE Taken(j)
    <3>1. PICK w \in Workers : worker[w].at = "taken" /\ worker[w].job = j
      BY <2>1 DEF Taken
    <3>2. taken = {w}
      BY <1>1, <3>1 DEF OnePlace
    <3> QED BY <2>1, <3>2, FS_Singleton
  <2>2. CASE ~Taken(j)
    <3>1. taken = {}
      BY <1>1, <2>2 DEF Taken
    <3> QED BY <2>2, <3>1, FS_EmptySet
  <2> QED BY <2>1, <2>2
<1>5. Cardinality(waits) + Cardinality(taken) = IF job[j].queued THEN 1 ELSE 0
  BY <1>3, <1>4 DEF OnePlace
<1> QED BY <1>1, <1>5

\* No count of demands exceeds the requests.
LEMMA CountsBounded ==
  ASSUME Typed, DemandsCounted
  PROVE  /\ \A j \in Jobs : job[j].count \in [Indexes -> 0..Cardinality(Openers)]
         /\ wanted \in [Catalog!Keys -> 0..Cardinality(Openers)]
<1>1. ASSUME NEW j \in Jobs, NEW i \in Indexes
      PROVE  Cardinality(Asking(j, i)) \in 0..Cardinality(Openers)
  <2>1. Asking(j, i) \in SUBSET Openers
    BY DEF Asking
  <2>2. IsFiniteSet(Openers) /\ Cardinality(Openers) \in Nat
    BY TranscodeAssumption, FS_CardinalityType
  <2>3. Cardinality(Asking(j, i)) <= Cardinality(Openers)
    BY <2>1, <2>2, FS_Subset
  <2>4. Cardinality(Asking(j, i)) \in Nat
    BY AskingFinite
  <2> QED BY <2>2, <2>3, <2>4
<1>2. ASSUME NEW j \in Jobs
      PROVE  job[j].count \in [Indexes -> 0..Cardinality(Openers)]
  <2>1. job[j].count \in [Indexes -> Int]
    BY DEF Typed, JobRec
  <2>2. ASSUME NEW i \in Indexes
        PROVE  job[j].count[i] \in 0..Cardinality(Openers)
    <3>1. job[j].count[i] = Cardinality(Asking(j, i))
      BY DEF DemandsCounted
    <3> QED BY <1>1, <3>1
  <2> QED BY <2>1, <2>2
<1>3. ASSUME NEW k \in Catalog!Keys
      PROVE  wanted[k] \in 0..Cardinality(Openers)
  <2>1. PICK j \in Jobs, i \in Segments : k = <<j, i>>
    BY DEF Catalog!Keys
  <2>2. i \in Indexes /\ i # Header
    BY DEF Indexes, Segments, Header
  <2>3. wanted[k] = Cardinality(Asking(j, i))
    BY <2>1, <2>2 DEF DemandsCounted
  <2> QED BY <1>1, <2>2, <2>3
<1> QED BY <1>2, <1>3 DEF Typed

\* Single-flight production: whoever asks, stops or seeks, a job has one run or none, waits
\* in the queue once or not at all, and shows it truthfully.
THEOREM JobsRunOnce == Spec => []SingleFlight
<1>1. IInv => SingleFlight
  <2> SUFFICES ASSUME IInv
               PROVE  SingleFlight
    OBVIOUS
  <2>1. TypeOK
    <3>1. ASSUME NEW j \in Jobs
          PROVE  /\ {job[j].made, job[j].closed, job[j].queued, job[j].running,
                     job[j].init} \subseteq BOOLEAN
                 /\ job[j].prep \in {"none", "asked", "probing", "ok", "failed"}
                 /\ job[j].state \in
                      {"preparing", "queued", "producing", "ready", "stopped", "failed"}
                 /\ job[j].failure \in {"", "source", "worker", "capacity_exhausted"}
                 /\ job[j].replacement \in Jobs \cup {Nothing}
                 /\ job[j].older \in [Indexes -> SUBSET Indexes]
      <4>1. PICK x \in JobRec : x = job[j]
        BY DEF IInv, Typed
      <4>2. /\ x.made \in BOOLEAN /\ x.closed \in BOOLEAN /\ x.queued \in BOOLEAN
            /\ x.running \in BOOLEAN /\ x.init \in BOOLEAN
        BY <4>1 DEF JobRec
      <4>3. {job[j].made, job[j].closed, job[j].queued, job[j].running,
             job[j].init} \subseteq BOOLEAN
        BY <4>1, <4>2, Zenon
      <4> QED BY <4>1, <4>3 DEF JobRec
    <3>2. queue \in Seq(Jobs) /\ Len(queue) <= MaxJobs /\ entries \subseteq Catalog!Keys
      BY DEF IInv, Typed
    <3> QED BY <3>1, <3>2, CountsBounded DEF IInv, TypeOK
  <2>2. ASSUME NEW j \in Jobs
        PROVE  /\ ~(job[j].queued /\ job[j].running)
               /\ Live(j) => /\ job[j].running <=> job[j].state = "producing"
                             /\ job[j].queued <=> job[j].state = "queued"
    BY DEF IInv, Apart, Shows
  <2> QED BY <2>1, <2>2, RunsCounted, PlacesCounted DEF IInv, SingleFlight
<1> QED BY <1>1, Invariance, PTL

\* A segment that somebody waits for stays until it is served: no step, of the catalog
\* neither, forgets it before its job ends.
THEOREM DemandedIsAlwaysKept == Spec => DemandedIsKept
<1> DEFINE Kept ==
      \A o \in Openers, j \in Jobs, i \in Segments :
        /\ opener[o].at \in {"loop", "waiting", "woken"}
        /\ opener[o].job = j /\ opener[o].index = i
        /\ <<j, i>> \in entries /\ Live(j)'
        => <<j, i>> \in entries'
<1>1. ASSUME IInv, [Next]_vars
      PROVE  [Kept]_vars
  <2> SUFFICES ASSUME NEW o \in Openers, NEW j \in Jobs, NEW i \in Segments,
                      opener[o].at \in {"loop", "waiting", "woken"},
                      opener[o].job = j, opener[o].index = i,
                      <<j, i>> \in entries, Live(j)'
               PROVE  <<j, i>> \in entries'
    OBVIOUS
  <2>1. PICK k : k = <<j, i>> /\ k[1] = j /\ k \in entries
    OBVIOUS
  <2>2. job'[j].made /\ ~job'[j].closed
    BY DEF Live
  <2>3. wanted[k] # 0
    <3>1. o \in Asking(j, i)
      BY DEF Asking
    <3>2. Cardinality(Asking(j, i)) \in Nat /\ Cardinality(Asking(j, i)) > 0
      BY <3>1, AskingFinite
    <3>3. i \in Indexes /\ i # Header
      BY DEF Indexes, Segments, Header
    <3>4. wanted[<<j, i>>] = Cardinality(Asking(j, i))
      BY <1>1, <3>3 DEF IInv, DemandsCounted
    <3> QED BY <2>1, <3>2, <3>4
  <2>4. k \notin Catalog!Idle
    BY <2>3 DEF Catalog!Idle
  <2>5. ASSUME NEW js \in SUBSET Jobs, End(js)
        PROVE  k \in entries'
    <3>1. j \notin js
      BY <1>1, <2>2, <2>5, Closes DEF IInv
    <3> QED BY <2>1, <2>5, <3>1 DEF End, Catalog!Drop
  <2>6. entries \subseteq entries' \/ k \in entries' \/ \E js \in SUBSET Jobs : End(js)
    <3>1. ASSUME NEW n \in Jobs,
                 \/ Create(n) \/ Prepare(n) \/ StopEncoding(n)
                 \/ \E next \in Jobs : LinkReplacement(n, next)
                 \/ \E p \in Openers, m \in Indexes : Ask(p, n, m)
          PROVE  entries' = entries
      BY <3>1 DEF Create, Prepare, PrepareStart, PrepareEnd, StopEncoding, LinkReplacement,
                  Ask, store
    <3>2. ASSUME NEW p \in Openers, Step(p) \/ GiveUp(p) \/ CloseLease(p)
          PROVE  entries' = entries
      BY <3>2 DEF Step, Prepared, NotPrepared, Register, Serve, Refuse, Sleep, Release,
                  GiveUp, CloseLease, store, Catalog!Protect, Catalog!Open, Catalog!Close
    <3>3. ASSUME NEW w \in Workers, Take(w) \/ Exit(w) \/ Run(w)
          PROVE  k \in entries'
      <4>1. CASE WriteSegment(w)
        <5>1. PICK ks : ks \subseteq Catalog!Idle /\ entries' = entries \ ks
          BY <4>1 DEF WriteSegment, Catalog!Forget
        <5> QED BY <2>1, <2>4, <5>1
      <4>2. CASE CommitSegment(w)
        <5>1. CASE entries' = entries
          BY <2>1, <5>1
        <5>2. CASE \E ks, n : ks \subseteq Catalog!Idle /\ entries' = (entries \ ks) \cup {n}
          BY <2>1, <2>4, <5>2
        <5>3. PICK n : n = <<worker[w].job, worker[w].seg>>
          OBVIOUS
        <5>4. \/ UNCHANGED store
              \/ \E ks \in SUBSET (Catalog!Idle \ {n}) : Catalog!Put(n, ks)
          BY <4>2, <5>3 DEF CommitSegment
        <5> QED BY <5>1, <5>2, <5>4 DEF store, Catalog!Put
      <4>3. Take(w) \/ Exit(w) \/ NoWork(w) => UNCHANGED store
        BY DEF Take, Exit, NoWork
      <4>4. StartRun(w) \/ RunInit(w) \/ EndRun(w) => UNCHANGED store
        BY DEF StartRun, RunInit, EndRun
      <4>5. (\E n \in Segments : Fragment(w, n)) \/ WindowComplete(w) \/ RunFails(w)
            => UNCHANGED store
        BY DEF Fragment, WindowComplete, RunFails
      <4>6. UNCHANGED store => k \in entries'
        BY <2>1 DEF store
      <4> QED BY <3>3, <4>1, <4>2, <4>3, <4>4, <4>5, <4>6 DEF Run
    <3>4. ASSUME NEW js \in SUBSET Jobs, EndJobs(js)
          PROVE  End(js)
      BY <3>4 DEF EndJobs
    <3>5. ASSUME Close
          PROVE  \E js \in SUBSET Jobs : End(js)
      <4>1. PICK js \in SUBSET Jobs : js = {n \in Jobs : Live(n)}
        OBVIOUS
      <4> QED BY <3>5, <4>1 DEF Close
    <3>6. CASE UNCHANGED vars
      BY <3>6 DEF vars
    <3> QED BY <1>1, <3>1, <3>2, <3>3, <3>4, <3>5, <3>6 DEF Next
  <2> QED BY <2>1, <2>5, <2>6
<1>2. Spec => [][Kept]_vars
  BY <1>1, Invariance, PTL DEF Spec
<1> QED BY <1>2 DEF DemandedIsKept, Kept
=============================================================================
