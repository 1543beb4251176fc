------------------------------ MODULE Subtitles ------------------------------
(***************************************************************************)
(* The subtitle manager of the web player: Prepare admits a viewer of a    *)
(* source and starts one shared job that probes the upstream document and, *)
(* when a viewer asks for it, extracts the track from the indexed source;  *)
(* what is ready is handed out as grants, which pin artifacts of a bounded *)
(* store.  Viewers leave by End, by a disconnected request, by expiry, or  *)
(* are taken over by a playback of the same owner (adoptPreviewsLocked) or *)
(* under another id (MovePlayback).                                        *)
(*                                                                         *)
(* The mutex makes every section between Lock and Unlock one action.  A    *)
(* source stands for one job key, with one text track; a request carries   *)
(* an Input of its own, so that it also names the Input in viewers and     *)
(* grants.  Leases lapse and retries come due at any time, so Touch, which *)
(* only moves the time a lease is counted from, has no action of its own.  *)
(***************************************************************************)
EXTENDS Integers, FiniteSets

CONSTANTS
  Sources,     \* media sources, each the key of a job
  Playbacks,   \* playback ids of web players and their previews
  Owner,       \* Owner[p]: the gateway session that playback p belongs to
  Requests,    \* calls of Prepare
  Readers,     \* calls of Open
  GrantIds,    \* ids of grants; each is minted once
  Selections,  \* what requests select: [playback, recover, probe, index]
  Workers,     \* cfg.Workers
  Budget,      \* cfg.CacheBytes, in artifacts
  MaxGrants,   \* maxGrants
  MaxVersion,  \* how often a source may change: bounds the model
  Nothing,
  Ended        \* a grant that was deleted

Versions == 1..MaxVersion
Keys == [src : Sources, indexed : BOOLEAN, ver : Versions]

\* What a viewer asks for, with the request whose Input its admission carries, and
\* what a grant promises.
Admissions == [by : Requests, playback : BOOLEAN, recover : BOOLEAN, index : STRING]
Grants == [src : Sources, play : Playbacks, key : Keys, input : Requests]

ASSUME SubtitlesAssumption ==
  /\ {Workers, Budget, MaxGrants, MaxVersion} \subseteq Nat \ {0}
  /\ IsFiniteSet(GrantIds) /\ IsFiniteSet(Readers)
  /\ DOMAIN Owner = Playbacks
  /\ Selections \subseteq
       [playback : BOOLEAN, recover : BOOLEAN, probe : BOOLEAN, index : STRING]
  /\ Nothing \notin Playbacks \cup Sources \cup Requests \cup Keys \cup Admissions
  /\ {Nothing, Ended} \cap Grants = {}

VARIABLES
  jobs,     \* m.jobs: the sources with a job
  viewer,   \* viewer[s][p]: the admission of playback p to source s
  track,    \* the track of each job
  run,      \* the goroutine that works on each job
  grant,    \* m.grants
  files,    \* the artifacts of the store
  older,    \* older[k]: the artifacts that were used before k was
  pins,     \* the pins of each artifact
  content,  \* ghost: the versions of the source an artifact was made from
  version,  \* the version of each source, at its origin
  request,  \* where each Prepare is
  reader,   \* where each Open is
  closer    \* "open", "waiting" or "done"

store == <<files, older, pins, content>>
vars == <<jobs, viewer, track, run, grant, files, older, pins, content, version,
          request, reader, closer>>

UpstreamKey(s) == [src |-> s, indexed |-> FALSE, ver |-> 1]
IndexedKey(s, v) == [src |-> s, indexed |-> TRUE, ver |-> v]

Unprobed == [state |-> "unknown", reason |-> "", key |-> Nothing]
NoRun == [at |-> "none", cancelled |-> FALSE, input |-> Nothing, expected |-> 0,
          ver |-> 0, bytes |-> {}]
Idle == [at |-> "idle", src |-> Nothing, play |-> Nothing, created |-> FALSE, owed |-> FALSE]
NotReading == [at |-> "idle", id |-> Nothing, key |-> Nothing, input |-> Nothing]

Init ==
  /\ jobs = {}
  /\ viewer = [s \in Sources |-> [p \in Playbacks |-> Nothing]]
  /\ track = [s \in Sources |-> Unprobed]
  /\ run = [s \in Sources |-> NoRun]
  /\ grant = [g \in GrantIds |-> Nothing]
  /\ files = {} /\ older = [k \in Keys |-> {}]
  /\ pins = [k \in Keys |-> 0] /\ content = [k \in Keys |-> {}]
  /\ version = [s \in Sources |-> 1]
  /\ request = [r \in Requests |-> Idle]
  /\ reader = [o \in Readers |-> NotReading]
  /\ closer = "open"

-----------------------------------------------------------------------------
(* Views of the state *)

closed == closer # "open"
Viewers(vs, s) == {p \in Playbacks : vs[s][p] # Nothing}
Viewing == UNION {Viewers(viewer, s) : s \in Sources}
Running == {s \in Sources : run[s].at # "none"}
Granted == {g \in GrantIds : grant[g] \notin {Nothing, Ended}}

\* inputLocked: with selectedOnly, the viewers that ask for the track itself.
Asks(v) == v # Nothing /\ (v.playback \/ v.recover) /\ v.index = "track"
Asking(vs, s) == {p \in Playbacks : Asks(vs[s][p])}

\* The requests whose admission a step takes away from them.
Disowned(s, ps) ==
  [r \in Requests |-> IF request[r].src = s /\ request[r].play \in ps
                      THEN [request[r] EXCEPT !.owed = FALSE] ELSE request[r]]

\* What failed, or was found at the upstream, is looked at again some time later
\* (retryDelay, probeLifetime).
Due(t) ==
  IF t.state = "unknown" THEN {TRUE}
  ELSE IF t.state = "ready" /\ t.key.indexed THEN {FALSE} ELSE BOOLEAN

\* startLocked, over the viewers vs
MayStart(vs, s) ==
  IF run[s].at # "none" \/ Cardinality(Running) >= Workers THEN {FALSE}
  ELSE IF Asking(vs, s) # {} /\ track[s].reason = "upstream_empty" THEN {TRUE}
  ELSE Due(track[s])

\* j.cancel: it is nil when no run is at work.
Cancel(s) == IF run[s].at # "none" THEN [run EXCEPT ![s].cancelled = TRUE] ELSE run

\* The runs of the jobs that nobody views among vs any more are cancelled.
WithoutOrphans_Faulty(vs) == run

WithoutOrphans(vs) ==
  [s \in Sources |-> IF Viewers(vs, s) = {} THEN Cancel(s)[s] ELSE run[s]]

-----------------------------------------------------------------------------
(* The store, under the mutex of the manager *)

Stored(k) == k \in files

\* k is the artifact used last.
Touch(k) ==
  older' = [j \in Keys |-> IF j = k THEN files \ {k} ELSE older[j] \ {k}]

\* space: the least recently used artifacts without pins make room, one by one.
Unpinned_Faulty == files

Unpinned == {k \in files : pins[k] = 0}

Victims == {V \in SUBSET Unpinned : \A v \in V, e \in Unpinned \ V : v \in older[e]}

Without(V) ==
  older' = [j \in Keys |-> IF j \in V THEN {} ELSE older[j] \ V]

\* put; removing an evicted artifact may fail, and so may writing the new one.
Put(k, versions, ok) ==
  IF Stored(k) THEN ok /\ Touch(k) /\ UNCHANGED <<files, pins, content>>
  ELSE \E V \in Victims :
    /\ V # {} => Cardinality(files \ V) + 1 >= Budget
    /\ UNCHANGED pins
    /\ IF ok THEN /\ Cardinality(files \ V) < Budget
                  /\ files' = (files \ V) \cup {k}
                  /\ older' = [j \in Keys |-> IF j = k THEN files \ V
                                              ELSE IF j \in V THEN {} ELSE older[j] \ V]
                  /\ content' = [content EXCEPT ![k] = versions]
             ELSE files' = files \ V /\ Without(V) /\ UNCHANGED content

Discard(k) ==
  /\ files' = files \ {k} /\ Without({k})
  /\ UNCHANGED <<pins, content>>

-----------------------------------------------------------------------------
(* Prepare *)

\* adoptPreviewsLocked: who is a preview of the owner of p, for the same item
Previews(p, s) ==
  {q \in Playbacks \ {p} : /\ viewer[s][q] # Nothing /\ ~viewer[s][q].playback
                           /\ Owner[q] = Owner[p]}

\* The grants of the playbacks qs for source s follow playback p.
Adopted(qs, s, p, r) ==
  [g \in GrantIds |->
     IF g \in Granted /\ grant[g].src = s /\ grant[g].play \in qs
     THEN [grant[g] EXCEPT !.play = p, !.input = r] ELSE grant[g]]

\* The run is cancelled when a preview went and nobody asks for the track.
AfterAdoption_Faulty(vs, s, retired) ==
  IF retired /\ Viewers(vs, s) # {} THEN Cancel(s) ELSE run

AfterAdoption(vs, s, retired) ==
  IF retired /\ Asking(vs, s) = {} THEN Cancel(s) ELSE run

\* Browsing an item that is being played does not demote the playback.
Admission(old, sel, r) ==
  IF old # Nothing /\ old.playback /\ ~sel.playback
  THEN [old EXCEPT !.by = r]
  ELSE [by |-> r, playback |-> sel.playback, recover |-> sel.recover,
        index |-> sel.index]

Admit(r) ==
  /\ request[r].at = "idle" /\ ~closed
  /\ \E s \in Sources, p \in Playbacks, sel \in Selections :
       LET old == viewer[s][p]
           gone == IF sel.playback THEN Previews(p, s) ELSE {}
           vs == [viewer EXCEPT ![s] = [q \in Playbacks |->
                    IF q = p THEN Admission(old, sel, r)
                    ELSE IF q \in gone THEN Nothing ELSE viewer[s][q]]]
           stopped == IF sel.playback
                      THEN AfterAdoption(vs, s, gone # {} \/ (old # Nothing /\ ~old.playback))
                      ELSE run
       IN /\ s \in jobs \/ sel.probe
          /\ jobs' = jobs \cup {s}
          /\ viewer' = vs
          /\ grant' = Adopted(gone, s, p, r)
          /\ \E start \in IF sel.probe THEN MayStart(vs, s) ELSE {FALSE} :
               run' = IF start THEN [run EXCEPT ![s].at = "probe"] ELSE stopped
          /\ request' = [Disowned(s, gone) EXCEPT ![r] =
                           [at |-> "waiting", src |-> s, play |-> p,
                            created |-> old = Nothing, owed |-> TRUE]]
  /\ UNCHANGED <<track, store, version, reader, closer>>

Over(r) == [request EXCEPT ![r] = [Idle EXCEPT !.at = "over"]]

\* cancelPrepare of a request that disconnected: it takes back the admission it
\* created, unless that is a newer request's by now or has grants.
Detaches_Faulty(r) == request[r].created /\ viewer[request[r].src][request[r].play] # Nothing

Detaches(r) ==
  LET s == request[r].src  p == request[r].play IN
  /\ request[r].created
  /\ viewer[s][p] # Nothing /\ viewer[s][p].by = r
  /\ \A g \in Granted : ~(grant[g].src = s /\ grant[g].play = p)

Disconnect(r) ==
  LET s == request[r].src  p == request[r].play IN
  /\ request[r].at = "waiting"
  /\ IF Detaches(r)
     THEN /\ viewer' = [viewer EXCEPT ![s][p] = Nothing]
          /\ run' = WithoutOrphans(viewer')
     ELSE UNCHANGED <<viewer, run>>
  /\ request' = Over(r)
  /\ UNCHANGED <<jobs, track, grant, store, version, reader, closer>>

\* The end of Prepare: the job or the time to prepare is over (or the track was
\* ready at once).  A request that may no longer use the source gets nothing.
Refused(r) ==
  /\ request[r].at = "waiting"
  /\ request' = Over(r)
  /\ UNCHANGED <<jobs, viewer, track, run, grant, store, version, reader, closer>>

\* readyLocked: an artifact that is gone is to be made again; a playback keeps
\* the grant it has for the artifact, or gets one, which pins it.
ReadyLocked(r, s, p) ==
  LET k == track[s].key
      mine == {g \in Granted : grant[g].src = s /\ grant[g].play = p /\ grant[g].key = k}
      new == [src |-> s, play |-> p, key |-> k, input |-> r]
  IN IF track[s].state # "ready" THEN UNCHANGED <<track, grant, pins>>
     ELSE IF ~Stored(k) THEN /\ track' = [track EXCEPT ![s].state = "unknown"]
                             /\ UNCHANGED <<grant, pins>>
     ELSE /\ UNCHANGED track
          /\ IF mine # {}
             THEN /\ \E g \in mine : grant' = [grant EXCEPT ![g].input = r]
                  /\ UNCHANGED pins
             ELSE IF Cardinality(Granted) >= MaxGrants THEN UNCHANGED <<grant, pins>>
             ELSE \E g \in GrantIds :
                    /\ grant[g] = Nothing
                    /\ grant' = [grant EXCEPT ![g] = new]
                    /\ pins' = [pins EXCEPT ![k] = @ + 1]

Return(r) ==
  LET s == request[r].src  p == request[r].play IN
  /\ request[r].at = "waiting"
  /\ IF closed \/ viewer[s][p] = Nothing THEN UNCHANGED <<track, grant, pins>>
                                         ELSE ReadyLocked(r, s, p)
  /\ request' = Over(r)
  /\ UNCHANGED <<jobs, viewer, run, files, older, content, version, reader, closer>>

-----------------------------------------------------------------------------
(* The run of a job *)

RunOver(s) == run' = [run EXCEPT ![s] = NoRun]

Failed(s, why) ==
  track' = [track EXCEPT ![s].state = "unavailable", ![s].reason = why]

RunAt(s, at) == run[s].at = at
Goto(s, at) == run' = [run EXCEPT ![s] = [NoRun EXCEPT !.at = at, !.cancelled = run[s].cancelled]]
RunOnly == UNCHANGED <<jobs, viewer, grant, version, request, reader, closer>>

\* The deferred end of run; j.cancel is nil again.
RunFinish(s) ==
  /\ RunAt(s, "end") \/ (run[s].cancelled /\ run[s].at \in {"probe", "select"})
  /\ RunOver(s)
  /\ UNCHANGED <<track, store>> /\ RunOnly

\* The first loop: the document of the upstream is asked for with the Input of
\* any viewer; without one the run ends.
RunProbe(s) ==
  /\ RunAt(s, "probe") /\ ~run[s].cancelled
  /\ \E due \in Due(track[s]) :
     /\ track' = IF due THEN [track EXCEPT ![s].state = "probing", ![s].reason = ""]
                        ELSE track
     /\ IF Viewers(viewer, s) = {} THEN Goto(s, "end")
        ELSE IF ~due THEN Goto(s, "select")
        ELSE \E p \in Viewers(viewer, s) :
                 run' = [run EXCEPT ![s].at = "fetch", ![s].input = viewer[s][p].by]
  /\ UNCHANGED store /\ RunOnly

\* publish: nothing is stored for nobody, after a cancellation or after Close.
Publish(s, k, versions) ==
  IF closed \/ run[s].cancelled \/ Viewers(viewer, s) = {}
  THEN Failed(s, "canceled_or_timeout") /\ UNCHANGED store
  ELSE \E ok \in BOOLEAN :
         /\ Put(k, versions, ok)
         /\ IF ok THEN track' = [track EXCEPT ![s] = [state |-> "ready", reason |-> "",
                                                      key |-> k]]
                  ELSE Failed(s, "cache_capacity_or_storage")

\* Fetch fails, finds an empty document, or a document that is published.
RunFetch(s) ==
  /\ RunAt(s, "fetch")
  /\ \/ \E why \in {"upstream_unavailable", "upstream_empty"} :
          Failed(s, why) /\ UNCHANGED store
     \/ Publish(s, UpstreamKey(s), {})
  /\ Goto(s, "select")
  /\ RunOnly

\* The second loop: an empty document is extracted for a viewer that asks for it.
RunSelect(s) ==
  /\ RunAt(s, "select") /\ ~run[s].cancelled
  /\ IF track[s].reason = "upstream_empty" /\ Asking(viewer, s) # {}
     THEN /\ track' = [track EXCEPT ![s].state = "extracting", ![s].reason = ""]
          /\ \E p \in Asking(viewer, s) :
               run' = [run EXCEPT ![s].at = "validate", ![s].input = viewer[s][p].by]
     ELSE Goto(s, "end") /\ UNCHANGED track
  /\ UNCHANGED store /\ RunOnly

\* Validate opens the source; its ETag is what later reads with the same Input
\* must show (expectedETag).  Without a strong one nothing is extracted.
RunValidate(s) ==
  LET v == version[s]  k == IndexedKey(s, version[s]) IN
  /\ RunAt(s, "validate")
  /\ \/ /\ \E why \in {"source_unavailable", "source_validator_missing"} : Failed(s, why)
        /\ Goto(s, "end") /\ UNCHANGED store
     \/ /\ Stored(k)                       \* cached, and it reads well
        /\ Publish(s, k, content[k]) /\ Goto(s, "end")
     \/ /\ Stored(k) /\ pins[k] > 0        \* it does not, and cannot go
        /\ Failed(s, "cache_capacity_or_storage") /\ Goto(s, "end")
        /\ UNCHANGED store
     \/ /\ Stored(k) => pins[k] = 0
        /\ IF Stored(k) THEN Discard(k) ELSE UNCHANGED store
        /\ run' = [run EXCEPT ![s].at = "read", ![s].ver = v, ![s].expected = v]
        /\ UNCHANGED track
  /\ RunOnly

\* A range of the source is read; a body with another ETag than expected fails
\* the extraction, like every other fault of source or limits.
RunRead(s) ==
  /\ RunAt(s, "read")
  /\ \/ /\ run[s].expected \in {0, version[s]}
        /\ \E at \in {"read", "verify"} :
             run' = [run EXCEPT ![s].at = at, ![s].bytes = run[s].bytes \cup {version[s]}]
        /\ UNCHANGED track
     \/ Failed(s, "source_unavailable") /\ Goto(s, "end")
  /\ UNCHANGED store /\ RunOnly

\* The source is validated once more before what was read is published.
RunVerify_Faulty(s) ==
  /\ RunAt(s, "verify")
  /\ \/ Failed(s, "source_changed") /\ UNCHANGED store
     \/ Publish(s, IndexedKey(s, version[s]), run[s].bytes)
  /\ Goto(s, "end") /\ RunOnly

RunVerify(s) ==
  /\ RunAt(s, "verify")
  /\ \/ Failed(s, "source_changed") /\ UNCHANGED store
     \/ /\ version[s] = run[s].ver
        /\ Publish(s, IndexedKey(s, run[s].ver), run[s].bytes)
  /\ Goto(s, "end") /\ RunOnly

\* cfg.WorkTimeout
RunTimeout(s) ==
  /\ run[s].at # "none" /\ ~run[s].cancelled
  /\ run' = Cancel(s)
  /\ UNCHANGED <<jobs, viewer, track, grant, store, version, request, reader, closer>>

-----------------------------------------------------------------------------
(* Open *)

\* A grant that has not expired is copied under the mutex.
OpenLookup(o) ==
  /\ reader[o].at = "idle" /\ ~closed
  /\ \E g \in Granted :
       reader' = [reader EXCEPT ![o] = [at |-> "check", id |-> g, key |-> grant[g].key,
                                        input |-> grant[g].input]]
  /\ UNCHANGED <<jobs, viewer, track, run, grant, store, version, request, closer>>

OpenOver(o) == reader' = [reader EXCEPT ![o] = [NotReading EXCEPT !.at = "over"]]

OpenRefused(o) ==
  /\ reader[o].at \in {"check", "serve"}
  /\ OpenOver(o)
  /\ UNCHANGED <<jobs, viewer, track, run, grant, store, version, request, closer>>

\* An extracted track is only served while its source is the version it was made
\* from; otherwise it has to be made again.  This validation also moves the ETag
\* that an extraction with the same Input expects, and clears it when the source
\* shows no strong one.
OpenCheck(o) ==
  LET k == reader[o].key IN
  /\ reader[o].at = "check"
  /\ \E strong \in BOOLEAN :
     /\ run' = IF k.indexed /\ run[k.src].at = "read" /\ run[k.src].input = reader[o].input
               THEN [run EXCEPT ![k.src].expected = IF strong THEN version[k.src] ELSE 0]
               ELSE run
     /\ IF k.indexed /\ ~(strong /\ version[k.src] = k.ver)
          THEN /\ OpenOver(o)
               /\ IF track[k.src].key = k THEN Failed(k.src, "source_changed")
                                          ELSE UNCHANGED track
          ELSE /\ reader' = [reader EXCEPT ![o].at = "serve", ![o].input = Nothing]
               /\ UNCHANGED track
  /\ UNCHANGED <<jobs, viewer, grant, store, version, request, closer>>

\* The grant must still be the one that was copied.
OpenServe(o) ==
  LET k == reader[o].key IN
  /\ reader[o].at = "serve" /\ ~closed
  /\ reader[o].id \in Granted /\ Stored(k)
  /\ reader' = [reader EXCEPT ![o].at = "reading", ![o].id = Nothing]
  /\ Touch(k) /\ pins' = [pins EXCEPT ![k] = @ + 1]
  /\ UNCHANGED <<jobs, viewer, track, run, grant, files, content, version, request, closer>>

CloseReader(o) ==
  /\ reader[o].at = "reading"
  /\ pins' = [pins EXCEPT ![reader[o].key] = @ - 1]
  /\ OpenOver(o)
  /\ UNCHANGED <<jobs, viewer, track, run, grant, files, older, content, version, request,
                 closer>>

-----------------------------------------------------------------------------
(* The end of playbacks, and time *)

\* endLocked for the playbacks ps: their viewers and grants go, and the runs of
\* the jobs that nobody views are cancelled.
EndAll(ps) ==
  LET theirs == {g \in Granted : grant[g].play \in ps} IN
  /\ viewer' = [s \in Sources |-> [p \in Playbacks |->
                  IF p \in ps THEN Nothing ELSE viewer[s][p]]]
  /\ run' = WithoutOrphans(viewer')
  /\ grant' = [g \in GrantIds |-> IF g \in theirs THEN Ended ELSE grant[g]]
  /\ pins' = [k \in Keys |->
                pins[k] - (IF Stored(k) THEN Cardinality({g \in theirs : grant[g].key = k})
                                        ELSE 0)]
  /\ request' = [r \in Requests |-> IF request[r].play \in ps
                                    THEN [request[r] EXCEPT !.owed = FALSE] ELSE request[r]]

End(p) ==
  /\ EndAll({p})
  /\ UNCHANGED <<jobs, track, files, older, content, version, reader, closer>>

\* maintain: the playbacks whose lease ran out on some source are ended.
Maintain ==
  /\ ~closed
  /\ \E late \in SUBSET Viewing \ {{}} : EndAll(late)
  /\ UNCHANGED <<jobs, track, files, older, content, version, reader, closer>>

\* ... and a job nobody used for long is forgotten (probeLifetime is far longer
\* than any request of it lasts).
Forget(s) ==
  /\ s \in jobs /\ run[s].at = "none" /\ Viewers(viewer, s) = {} /\ ~closed
  /\ \A r \in Requests : request[r].src # s
  /\ jobs' = jobs \ {s}
  /\ track' = [track EXCEPT ![s] = Unprobed]
  /\ UNCHANGED <<viewer, run, grant, store, version, request, reader, closer>>

\* MovePlayback: the playback goes on under the id q.  A viewer that q has already
\* keeps its choice and becomes a playback when p was one.
Merged(v, w) == IF w # Nothing THEN [w EXCEPT !.playback = @ \/ v.playback] ELSE v

Move(p, q) ==
  /\ p # q /\ Owner[p] = Owner[q]
  /\ viewer' = [s \in Sources |->
       IF viewer[s][p] = Nothing THEN viewer[s]
       ELSE [viewer[s] EXCEPT ![p] = Nothing, ![q] = Merged(viewer[s][p], viewer[s][q])]]
  /\ grant' = [g \in GrantIds |->
       IF g \in Granted /\ grant[g].play = p
       THEN LET at == viewer'[grant[g].src][q] IN
            [grant[g] EXCEPT !.play = q, !.input = IF at # Nothing THEN at.by ELSE @]
       ELSE grant[g]]
  /\ request' = [r \in Requests |-> IF request[r].play = p
                                    THEN [request[r] EXCEPT !.owed = FALSE] ELSE request[r]]
  /\ UNCHANGED <<jobs, track, run, store, version, reader, closer>>

\* The source is replaced at its origin.
Replace(s) ==
  /\ version[s] < MaxVersion
  /\ version' = [version EXCEPT ![s] = @ + 1]
  /\ UNCHANGED <<jobs, viewer, track, run, grant, store, request, reader, closer>>

-----------------------------------------------------------------------------
(* Close: no admission from now on; the runs are cancelled and waited for *)

CloseBegin ==
  /\ closer = "open"
  /\ closer' = "waiting"
  /\ run' = [s \in Sources |-> Cancel(s)[s]]
  /\ UNCHANGED <<jobs, viewer, track, grant, store, version, request, reader>>

CloseEnd ==
  /\ closer = "waiting" /\ Running = {}
  /\ closer' = "done"
  /\ UNCHANGED <<jobs, viewer, track, run, grant, store, version, request, reader>>

-----------------------------------------------------------------------------
RunStep(s) == \/ RunFinish(s) \/ RunProbe(s) \/ RunFetch(s) \/ RunSelect(s)
              \/ RunValidate(s) \/ RunRead(s) \/ RunVerify(s)

Next ==
  \/ \E r \in Requests : Admit(r) \/ Disconnect(r) \/ Refused(r) \/ Return(r)
  \/ \E s \in Sources : RunStep(s) \/ RunTimeout(s) \/ Forget(s) \/ Replace(s)
  \/ \E o \in Readers : \/ OpenLookup(o) \/ OpenRefused(o) \/ OpenCheck(o)
                        \/ OpenServe(o) \/ CloseReader(o)
  \/ \E p \in Playbacks : End(p) \/ \E q \in Playbacks : Move(p, q)
  \/ Maintain \/ CloseBegin \/ CloseEnd

Spec == Init /\ [][Next]_vars

-----------------------------------------------------------------------------
(* Properties *)

TypeOK ==
  /\ jobs \subseteq Sources
  /\ \A s \in Sources : /\ track[s].key \in Keys \cup {Nothing}
                        /\ run[s].input \in Requests \cup {Nothing}
  /\ \A g \in Granted : grant[g].play \in Playbacks /\ grant[g].key \in Keys
  /\ pins \in [Keys -> Int]

\* Every grant and every open reader pins its artifact once, and what is pinned
\* is stored: no artifact goes while it is promised or read (store.go:159), and
\* none stays pinned for ever.  The budget of the store is kept.
PinsCounted ==
  /\ TypeOK
  /\ \A k \in Keys :
       /\ pins[k] = Cardinality({g \in Granted : grant[g].key = k})
                    + Cardinality({o \in Readers : /\ reader[o].at = "reading"
                                                   /\ reader[o].key = k})
       /\ pins[k] > 0 => Stored(k)
  /\ Cardinality(files) <= Budget

\* A grant lives on the lease of its playback: only the end of that lease gives
\* it back (maintain looks at viewers alone), so a grant without one would stay
\* for ever.  And the lease a request obtained is not taken by another request
\* that disconnects (manager.go:216: "cancellation of an older request cannot
\* detach a newer request").
LeasesHold ==
  /\ \A g \in Granted : viewer[grant[g].src][grant[g].play] # Nothing
  /\ \A r \in Requests : request[r].at = "waiting" /\ request[r].owed =>
       viewer[request[r].src][request[r].play] # Nothing

\* Shared work nobody views any more is on its way to its end.
NoOrphans == \A s \in Running : Viewers(viewer, s) = {} => run[s].cancelled

\* Leases keep what is shared, and the end of the last one ends it.
SharedByViewers == LeasesHold /\ NoOrphans

\* A run ends early only for Close, its time limit, or because nobody asks for
\* the track: a viewer that starts playing, leaves or moves on never stops the
\* extraction another viewer asked for.
WantedWorkGoesOn ==
  [][\A s \in Running :
       ~run[s].cancelled /\ run'[s].cancelled /\ closer' = closer =>
         \/ Asking(viewer', s) = {}
         \/ RunTimeout(s)]_vars

\* "partial content from different versions must never become a reusable
\* subtitle artifact": what is stored for a version was read from that version,
\* also when readers of the previous artifact move the ETag that is expected.
NeverMixed == \A k \in files : k.indexed => content[k] = {k.ver}
=============================================================================
