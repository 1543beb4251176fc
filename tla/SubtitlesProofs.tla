--------------------------- MODULE SubtitlesProofs ----------------------------
(***************************************************************************)
(* What is true of the subtitle manager for any sources, playbacks,        *)
(* requests and readers, and a store of any size: what is pinned is        *)
(* stored, leases hold, versions are never mixed, and nobody stops the     *)
(* extraction another viewer asked for.                                    *)
(*                                                                         *)
(* The invariant has one part for each thing the manager keeps: tracks,    *)
(* runs, leases (viewers, grants and requests together), readers, the      *)
(* store with what was made from which version, the pins, and the viewers  *)
(* of what runs.  Each part is kept by every step, in a lemma of its own.  *)
(***************************************************************************)
EXTENDS Subtitles, FiniteSetTheorems, TLAPS

Places == {"none", "probe", "fetch", "select", "validate", "read", "verify", "end"}
States == {"unknown", "probing", "extracting", "ready", "unavailable"}
Reasons == {"", "upstream_unavailable", "upstream_empty", "canceled_or_timeout",
            "cache_capacity_or_storage", "source_unavailable",
            "source_validator_missing", "source_changed"}

Runs == [at : Places, cancelled : BOOLEAN, input : Requests \cup {Nothing},
         expected : Nat, ver : Nat, bytes : SUBSET Versions]
Tracks == [state : States, reason : Reasons, key : Keys \cup {Nothing}]
Calls == [at : {"idle", "waiting", "over"}, src : Sources \cup {Nothing},
          play : Playbacks \cup {Nothing}, created : BOOLEAN, owed : BOOLEAN]
Opens == [at : {"idle", "check", "serve", "reading", "over"}, id : GrantIds \cup {Nothing},
          key : Keys \cup {Nothing}, input : Requests \cup {Nothing}]

-----------------------------------------------------------------------------
(* The invariant *)

\* A track that is ready names its artifact.
TracksSound ==
  /\ jobs \subseteq Sources
  /\ track \in [Sources -> Tracks]
  /\ \A s \in Sources : track[s].state = "ready" => track[s].key \in Keys

\* What an extraction has read are versions its source had since it was validated,
\* and when it comes to be verified it has read something.
RunSound(x, v) ==
  /\ x.at \in {"read", "verify"} => x.ver \in 1..v /\ x.bytes \subseteq x.ver..v
  /\ x.at \notin {"read", "verify"} => x.bytes = {}
  /\ x.at = "verify" => x.bytes # {}

RunsSound ==
  /\ run \in [Sources -> Runs] /\ version \in [Sources -> Versions]
  /\ \A s \in Sources : RunSound(run[s], version[s])

ViewersTyped == viewer \in [Sources -> [Playbacks -> Admissions \cup {Nothing}]]

RequestsTyped ==
  /\ request \in [Requests -> Calls]
  /\ \A r \in Requests : request[r].at = "waiting" =>
       request[r].src \in Sources /\ request[r].play \in Playbacks

GrantsTyped == grant \in [GrantIds -> Grants \cup {Nothing, Ended}]

GrantsLeased == \A g \in Granted : viewer[grant[g].src][grant[g].play] # Nothing

Waiting(r) == request[r].at = "waiting"

RequestsLeased ==
  \A r \in Requests : Waiting(r) /\ request[r].owed =>
    viewer[request[r].src][request[r].play] # Nothing

\* Of two requests that wait on the same admission, one created it and the other
\* took it over: it carries no longer the name of the first.
TakenOver ==
  \A r, q \in Requests :
    /\ r # q /\ Waiting(r) /\ Waiting(q) /\ request[r].owed /\ request[q].created
    /\ request[r].src = request[q].src /\ request[r].play = request[q].play
    => viewer[request[q].src][request[q].play].by # q

LeasesSound ==
  /\ ViewersTyped /\ RequestsTyped /\ GrantsTyped
  /\ GrantsLeased /\ RequestsLeased /\ TakenOver

ReadersSound ==
  /\ reader \in [Readers -> Opens]
  /\ \A o \in Readers : reader[o].at \in {"check", "serve", "reading"} => reader[o].key \in Keys

ShelfSound ==
  /\ files \subseteq Keys /\ IsFiniteSet(files) /\ Cardinality(files) <= Budget
  /\ content \in [Keys -> SUBSET Versions]
  /\ NeverMixed

\* The grants and the readers that pin an artifact
Granting(k) == {g \in Granted : grant[g].key = k}
Reading(k) == {o \in Readers : reader[o].at = "reading" /\ reader[o].key = k}

PinsSound ==
  /\ pins \in [Keys -> Nat]
  /\ \A k \in Keys : /\ pins[k] = Cardinality(Granting(k)) + Cardinality(Reading(k))
                     /\ pins[k] > 0 => Stored(k)

IInv ==
  /\ TracksSound /\ RunsSound /\ LeasesSound /\ ReadersSound
  /\ ShelfSound /\ PinsSound /\ NoOrphans

-----------------------------------------------------------------------------
(* Changes of a track and of a run *)

\* A track takes a value that names an artifact when it is ready.
LEMMA TrackTakes ==
  ASSUME TracksSound, NEW s \in Sources, NEW t \in Tracks,
         t.state = "ready" => t.key \in Keys,
         track' = [track EXCEPT ![s] = t], jobs' = jobs
  PROVE  TracksSound'
BY DEF TracksSound

\* A failure, like every other change of its state alone, leaves the artifact named.
LEMMA TrackFails ==
  ASSUME TracksSound, NEW s \in Sources, NEW why \in Reasons,
         Failed(s, why), jobs' = jobs
  PROVE  TracksSound'
<1> DEFINE t == [track[s] EXCEPT !.state = "unavailable", !.reason = why]
<1>1. track[s] \in Tracks
  BY DEF TracksSound
<1>2. t \in Tracks /\ t.state = "unavailable"
  BY <1>1 DEF Tracks, States
<1>3. track' = [track EXCEPT ![s] = t]
  BY <1>1 DEF Failed, TracksSound, Tracks
<1> HIDE DEF t
<1>4. t.state = "ready" => t.key \in Keys
  BY <1>2
<1> QED BY <1>2, <1>3, <1>4, TrackTakes

\* What one step of the run of s makes of it
RunTurn(s, x) ==
  /\ run' = [run EXCEPT ![s] = x] /\ RunSound(x, version[s])
  /\ run[s].at # "none"
  /\ \/ x.at = "none" /\ ~x.cancelled
     \/ x.cancelled <=> run[s].cancelled

\* A run goes on with nothing read.
LEMMA GotoTurns ==
  ASSUME RunsSound, NEW s \in Sources, run[s].at # "none", NEW at \in Places,
         at \notin {"read", "verify"}, Goto(s, at)
  PROVE  \E x \in Runs : RunTurn(s, x)
<1> DEFINE x == [NoRun EXCEPT !.at = at, !.cancelled = run[s].cancelled]
<1>1. run[s].cancelled \in BOOLEAN
  BY DEF RunsSound, Runs
<1>2. run' = [run EXCEPT ![s] = x]
  BY DEF Goto
<1>3. NoRun \in Runs /\ NoRun.bytes = {}
  BY DEF NoRun, Runs, Places
<1>4. x \in Runs /\ x.at = at /\ x.cancelled = run[s].cancelled /\ x.bytes = {}
  BY <1>1, <1>3 DEF Runs
<1> HIDE DEF x
<1>5. RunSound(x, version[s])
  BY <1>4 DEF RunSound
<1> QED BY <1>2, <1>4, <1>5 DEF RunTurn

\* Every step of a run keeps what holds of runs, and cancels none.
LEMMA RunStepTurns ==
  ASSUME RunsSound, ViewersTyped, SubtitlesAssumption, NEW s \in Sources, RunStep(s)
  PROVE  \E x \in Runs : RunTurn(s, x)
<1>t. /\ run[s] \in Runs /\ run \in [Sources -> Runs]
      /\ version[s] \in Versions /\ RunSound(run[s], version[s])
      /\ \A p \in Playbacks : viewer[s][p] # Nothing => viewer[s][p].by \in Requests
  <2>1. \A p \in Playbacks : viewer[s][p] \in Admissions \cup {Nothing}
    BY DEF ViewersTyped
  <2> QED BY <2>1 DEF RunsSound, Admissions
<1>v. version[s] \in Nat /\ version[s] \in 1..version[s] /\ version[s] \in Nat \ {0}
  BY <1>t, SubtitlesAssumption DEF Versions, SubtitlesAssumption
<1>p. {"end", "select"} \subseteq Places \ {"read", "verify"}
  BY DEF Places
<1>1. CASE RunFinish(s)
  <2>1. NoRun \in Runs /\ NoRun.at = "none" /\ ~NoRun.cancelled
    BY DEF NoRun, Runs, Places
  <2>2. RunSound(NoRun, version[s])
    BY DEF NoRun, RunSound
  <2>3. run' = [run EXCEPT ![s] = NoRun] /\ run[s].at # "none"
    BY <1>1 DEF RunFinish, RunAt, RunOver
  <2> QED BY <2>1, <2>2, <2>3 DEF RunTurn
<1>2. CASE RunProbe(s)
  <2>1. run[s].at = "probe"
    BY <1>2 DEF RunProbe, RunAt
  <2>2. CASE Goto(s, "end") \/ Goto(s, "select")
    BY <1>p, <2>1, <2>2, GotoTurns
  <2>3. ASSUME NEW p \in Viewers(viewer, s),
               run' = [run EXCEPT ![s].at = "fetch", ![s].input = viewer[s][p].by]
        PROVE  \E x \in Runs : RunTurn(s, x)
    <3> DEFINE x == [run[s] EXCEPT !.at = "fetch", !.input = viewer[s][p].by]
    <3>1. run' = [run EXCEPT ![s] = x]
      BY <2>3, <1>t DEF Runs, Places
    <3>2. viewer[s][p].by \in Requests
      BY <1>t DEF Viewers
    <3>3. x \in Runs /\ x.at = "fetch" /\ x.bytes = run[s].bytes
          /\ x.cancelled = run[s].cancelled
      BY <3>2, <1>t DEF Runs, Places
    <3> HIDE DEF x
    <3>4. RunSound(x, version[s])
      BY <3>3, <2>1, <1>t DEF RunSound
    <3> QED BY <3>1, <3>3, <3>4, <2>1 DEF RunTurn
  <2> QED BY <1>2, <2>2, <2>3 DEF RunProbe
<1>3. CASE RunFetch(s)
  BY <1>p, <1>3, GotoTurns DEF RunFetch, RunAt
<1>4. CASE RunSelect(s)
  <2>1. run[s].at = "select"
    BY <1>4 DEF RunSelect, RunAt
  <2>2. CASE Goto(s, "end")
    BY <1>p, <2>1, <2>2, GotoTurns
  <2>3. ASSUME NEW p \in Asking(viewer, s),
               run' = [run EXCEPT ![s].at = "validate", ![s].input = viewer[s][p].by]
        PROVE  \E x \in Runs : RunTurn(s, x)
    <3> DEFINE x == [run[s] EXCEPT !.at = "validate", !.input = viewer[s][p].by]
    <3>1. run' = [run EXCEPT ![s] = x]
      BY <2>3, <1>t DEF Runs, Places
    <3>2. viewer[s][p].by \in Requests
      BY <1>t DEF Asking, Asks
    <3>3. x \in Runs /\ x.at = "validate" /\ x.bytes = run[s].bytes
          /\ x.cancelled = run[s].cancelled
      BY <3>2, <1>t DEF Runs, Places
    <3> HIDE DEF x
    <3>4. RunSound(x, version[s])
      BY <3>3, <2>1, <1>t DEF RunSound
    <3> QED BY <3>1, <3>3, <3>4, <2>1 DEF RunTurn
  <2> QED BY <1>4, <2>2, <2>3 DEF RunSelect
<1>5. CASE RunValidate(s)
  <2>1. run[s].at = "validate"
    BY <1>5 DEF RunValidate, RunAt
  <2>2. CASE Goto(s, "end")
    BY <1>p, <2>1, <2>2, GotoTurns
  <2>3. CASE run' = [run EXCEPT ![s].at = "read", ![s].ver = version[s],
                                ![s].expected = version[s]]
    <3> DEFINE x == [run[s] EXCEPT !.at = "read", !.ver = version[s],
                                   !.expected = version[s]]
    <3>1. run' = [run EXCEPT ![s] = x]
      BY <2>3, <1>t DEF Runs, Places
    <3>3. x \in Runs /\ x.at = "read" /\ x.bytes = run[s].bytes
          /\ x.cancelled = run[s].cancelled /\ x.ver = version[s]
      BY <1>v, <1>t DEF Runs, Places
    <3> HIDE DEF x
    <3>4. x.bytes = {}
      BY <3>3, <2>1, <1>t DEF RunSound
    <3>5. RunSound(x, version[s])
      BY <3>3, <3>4, <1>v DEF RunSound
    <3> QED BY <3>1, <3>3, <3>5, <2>1 DEF RunTurn
  <2> QED BY <1>5, <2>2, <2>3 DEF RunValidate
<1>6. CASE RunRead(s)
  <2>1. run[s].at = "read"
    BY <1>6 DEF RunRead, RunAt
  <2>2. CASE Goto(s, "end")
    BY <1>p, <2>1, <2>2, GotoTurns
  <2>3. ASSUME NEW at \in {"read", "verify"},
               run' = [run EXCEPT ![s].at = at,
                                  ![s].bytes = run[s].bytes \cup {version[s]}]
        PROVE  \E x \in Runs : RunTurn(s, x)
    <3> DEFINE x == [run[s] EXCEPT !.at = at, !.bytes = run[s].bytes \cup {version[s]}]
    <3>1. run' = [run EXCEPT ![s] = x]
      BY <2>3, <1>t DEF Runs, Places
    <3>3. x \in Runs /\ x.at = at /\ x.bytes = run[s].bytes \cup {version[s]}
          /\ x.cancelled = run[s].cancelled /\ x.ver = run[s].ver
      BY <1>v, <1>t DEF Runs, Places
    <3> HIDE DEF x
    <3>4. run[s].ver \in 1..version[s] /\ run[s].bytes \subseteq run[s].ver..version[s]
      BY <2>1, <1>t DEF RunSound
    <3>5. version[s] \in run[s].ver..version[s]
      BY <3>4, <1>v
    <3>6. RunSound(x, version[s])
      BY <3>3, <3>4, <3>5 DEF RunSound
    <3> QED BY <3>1, <3>3, <3>6, <2>1 DEF RunTurn
  <2> QED BY <1>6, <2>2, <2>3 DEF RunRead
<1>7. CASE RunVerify(s)
  BY <1>p, <1>7, GotoTurns DEF RunVerify, RunAt
<1> QED BY <1>1, <1>2, <1>3, <1>4, <1>5, <1>6, <1>7 DEF RunStep

-----------------------------------------------------------------------------
(* The store *)

\* What is pinned stays stored, and stays pinned.
PinnedStay ==
  pins' = pins /\ \A j \in Keys : pins[j] > 0 /\ j \in files => j \in files'

\* Making room takes unpinned artifacts, and storing one takes at most the room left.
LEMMA PutKeeps ==
  ASSUME ShelfSound, SubtitlesAssumption, NEW k \in Keys, NEW versions \in SUBSET Versions,
         NEW ok \in BOOLEAN, k.indexed /\ k \notin files => versions = {k.ver},
         Put(k, versions, ok)
  PROVE  ShelfSound' /\ PinnedStay
<1>1. CASE Stored(k)
  BY <1>1 DEF Put, ShelfSound, NeverMixed, PinnedStay
<1>2. CASE ~Stored(k)
  <2>1. PICK V \in Victims :
          /\ pins' = pins
          /\ ok => /\ Cardinality(files \ V) < Budget
                   /\ files' = (files \ V) \cup {k}
                   /\ content' = [content EXCEPT ![k] = versions]
          /\ ~ok => files' = files \ V /\ content' = content
    BY <1>2 DEF Put, Without
  <2>2. V \subseteq files /\ \A j \in V : pins[j] = 0
    BY DEF Victims, Unpinned
  <2> DEFINE F == files \ V
  <2>3. /\ F \subseteq files /\ F \subseteq Keys /\ IsFiniteSet(F) /\ k \notin F
        /\ Cardinality(F) \in Nat /\ Cardinality(files) \in Nat
        /\ Cardinality(F) <= Cardinality(files)
    BY <1>2, FS_Subset, FS_CardinalityType DEF ShelfSound, Stored
  <2>4. IsFiniteSet(F \cup {k}) /\ Cardinality(F \cup {k}) = Cardinality(F) + 1
    BY <2>3, FS_AddElement
  <2>5. PinnedStay
    BY <2>1, <2>2 DEF PinnedStay
  <2>6. Budget \in Nat /\ Cardinality(files) <= Budget
    BY DEF SubtitlesAssumption, ShelfSound
  <2>7. content \in [Keys -> SUBSET Versions] /\ NeverMixed
    BY DEF ShelfSound
  <2>8. CASE ok
    <3>1. files' = F \cup {k} /\ Cardinality(F) < Budget
      BY <2>1, <2>8
    <3>2. content' \in [Keys -> SUBSET Versions] /\ content'[k] = versions
          /\ \A j \in Keys : j # k => content'[j] = content[j]
      BY <2>1, <2>7, <2>8
    <3>3. NeverMixed'
      <4>1. ASSUME NEW j \in files', j.indexed PROVE content'[j] = {j.ver}
        <5>1. CASE j = k
          BY <5>1, <3>2, <4>1, <1>2 DEF Stored
        <5>2. CASE j # k
          BY <5>2, <3>1, <3>2, <4>1, <2>3, <2>7 DEF NeverMixed
        <5> QED BY <5>1, <5>2
      <4> QED BY <4>1 DEF NeverMixed
    <3>4. Cardinality(files') <= Budget
      BY <3>1, <2>3, <2>4, <2>6
    <3>5. files' \subseteq Keys /\ IsFiniteSet(files')
      BY <3>1, <2>3, <2>4
    <3> QED BY <3>2, <3>3, <3>4, <3>5, <2>5 DEF ShelfSound
  <2>9. CASE ~ok
    <3>1. files' = F /\ content' = content
      BY <2>1, <2>9
    <3>2. Cardinality(F) <= Budget
      BY <2>3, <2>6
    <3>3. NeverMixed'
      BY <3>1, <2>3, <2>7 DEF NeverMixed
    <3> QED BY <3>1, <3>2, <3>3, <2>3, <2>5, <2>7 DEF ShelfSound
  <2> QED BY <2>8, <2>9
<1> QED BY <1>1, <1>2

\* What leaves the store without a pin takes nothing from anybody.
LEMMA DiscardKeeps ==
  ASSUME ShelfSound, SubtitlesAssumption, NEW k \in Keys, Stored(k) => pins[k] = 0,
         Discard(k)
  PROVE  ShelfSound' /\ PinnedStay
<1> DEFINE F == files \ {k}
<1>1. files' = F /\ pins' = pins /\ content' = content
  BY DEF Discard
<1>2. IsFiniteSet(F) /\ Cardinality(F) <= Cardinality(files)
      /\ Cardinality(F) \in Nat /\ Cardinality(files) \in Nat
  BY FS_Subset, FS_CardinalityType DEF ShelfSound
<1>3. Cardinality(F) <= Budget
  BY <1>2 DEF ShelfSound, SubtitlesAssumption
<1>4. PinnedStay
  BY <1>1 DEF PinnedStay, Stored
<1>5. NeverMixed'
  BY <1>1 DEF NeverMixed, ShelfSound
<1> QED BY <1>1, <1>2, <1>3, <1>4, <1>5 DEF ShelfSound

\* A store that no step touches
LEMMA StoreStays ==
  ASSUME ShelfSound, UNCHANGED store
  PROVE  ShelfSound' /\ PinnedStay
BY DEF ShelfSound, NeverMixed, PinnedStay, store

\* publish stores what was made of one version, or notes the failure.
LEMMA PublishKeeps ==
  ASSUME TracksSound, ShelfSound, SubtitlesAssumption, NEW s \in Sources, NEW k \in Keys,
         NEW versions \in SUBSET Versions, jobs' = jobs,
         k.indexed /\ k \notin files => versions = {k.ver}, Publish(s, k, versions)
  PROVE  TracksSound' /\ ShelfSound' /\ PinnedStay
<1>0. {"canceled_or_timeout", "cache_capacity_or_storage"} \subseteq Reasons
  BY DEF Reasons
<1>1. CASE Failed(s, "canceled_or_timeout") /\ UNCHANGED store
  BY <1>0, <1>1, StoreStays, TrackFails
<1>2. ASSUME NEW ok \in BOOLEAN, Put(k, versions, ok),
             IF ok THEN track' = [track EXCEPT ![s] = [state |-> "ready", reason |-> "",
                                                       key |-> k]]
                   ELSE Failed(s, "cache_capacity_or_storage")
      PROVE  TracksSound' /\ ShelfSound' /\ PinnedStay
  <2>1. ShelfSound' /\ PinnedStay
    BY <1>2, PutKeeps
  <2>2. CASE ok
    <3> DEFINE t == [state |-> "ready", reason |-> "", key |-> k]
    <3>1. t \in Tracks /\ t.key \in Keys
      BY DEF Tracks, States, Reasons
    <3>2. track' = [track EXCEPT ![s] = t]
      BY <1>2, <2>2
    <3> HIDE DEF t
    <3>3. t.state = "ready" => t.key \in Keys
      BY <3>1
    <3> QED BY <3>1, <3>2, <3>3, <2>1, TrackTakes
  <2>3. CASE ~ok
    BY <1>0, <1>2, <2>1, <2>3, TrackFails
  <2> QED BY <2>2, <2>3
<1> QED BY <1>1, <1>2 DEF Publish

\* A change of state that is not to "ready" leaves the artifact a track names.
LEMMA TrackTurns ==
  ASSUME TracksSound, NEW s \in Sources, NEW st \in States, st # "ready", jobs' = jobs,
         track' = [track EXCEPT ![s].state = st]
         \/ track' = [track EXCEPT ![s].state = st, ![s].reason = ""]
  PROVE  TracksSound'
<1> DEFINE t == [track[s] EXCEPT !.state = st]
           u == [track[s] EXCEPT !.state = st, !.reason = ""]
<1>1. track[s] \in Tracks /\ track \in [Sources -> Tracks]
  BY DEF TracksSound
<1>2. /\ t \in Tracks /\ t.state # "ready"
      /\ u \in Tracks /\ u.state # "ready"
  BY <1>1 DEF Tracks, Reasons
<1>3. track' = [track EXCEPT ![s] = t] \/ track' = [track EXCEPT ![s] = u]
  BY <1>1 DEF Tracks
<1> HIDE DEF t, u
<1>4. t.state = "ready" => t.key \in Keys
  BY <1>2
<1>5. u.state = "ready" => u.key \in Keys
  BY <1>2
<1> QED BY <1>2, <1>3, <1>4, <1>5, TrackTakes

-----------------------------------------------------------------------------
(* The steps of a run *)

\* A validated version is one the source has.
LEMMA KeysTyped ==
  ASSUME NEW s \in Sources, SubtitlesAssumption, NEW v \in Versions
  PROVE  /\ UpstreamKey(s) \in Keys /\ ~UpstreamKey(s).indexed
         /\ IndexedKey(s, v) \in Keys /\ IndexedKey(s, v).ver = v
<1>1. 1 \in Versions
  BY DEF SubtitlesAssumption, Versions
<1> QED BY <1>1 DEF Keys, UpstreamKey, IndexedKey

\* No step of a run mixes versions, takes what is pinned, or loses the artifact of a
\* track.
LEMMA RunStepStores ==
  ASSUME TracksSound, ShelfSound, RunsSound, SubtitlesAssumption, NEW s \in Sources,
         RunStep(s)
  PROVE  TracksSound' /\ ShelfSound' /\ PinnedStay
<1>t. /\ run[s] \in Runs /\ version[s] \in Versions /\ RunSound(run[s], version[s])
      /\ jobs' = jobs
      /\ content \in [Keys -> SUBSET Versions] /\ NeverMixed
  BY DEF RunsSound, ShelfSound, RunStep, RunFinish, RunProbe, RunFetch, RunSelect,
         RunValidate, RunRead, RunVerify, RunOnly
<1>r. Reasons = {"", "upstream_unavailable", "upstream_empty", "canceled_or_timeout",
                 "cache_capacity_or_storage", "source_unavailable",
                 "source_validator_missing", "source_changed"}
  BY DEF Reasons
<1>s. {"probing", "extracting"} \subseteq States \ {"ready"}
  BY DEF States
<1>n. ASSUME UNCHANGED track PROVE TracksSound'
  BY <1>n, <1>t DEF TracksSound
<1>f. ASSUME NEW why \in Reasons, Failed(s, why), UNCHANGED store
      PROVE  TracksSound' /\ ShelfSound' /\ PinnedStay
  BY <1>f, <1>t, TrackFails, StoreStays
<1>1. CASE RunFinish(s)
  BY <1>1, <1>n, StoreStays DEF RunFinish
<1>2. CASE RunProbe(s)
  <2>1. UNCHANGED store
    BY <1>2 DEF RunProbe
  <2>2. \/ UNCHANGED track
        \/ track' = [track EXCEPT ![s].state = "probing", ![s].reason = ""]
    BY <1>2 DEF RunProbe
  <2>3. "probing" \in States /\ "probing" # "ready"
    BY <1>s
  <2>4. CASE track' = [track EXCEPT ![s].state = "probing", ![s].reason = ""]
    BY <2>1, <2>3, <2>4, <1>t, TrackTurns, StoreStays
  <2> QED BY <2>1, <2>2, <2>4, <1>n, StoreStays
<1>3. CASE RunFetch(s)
  <2>1. CASE Publish(s, UpstreamKey(s), {})
    <3>1. UpstreamKey(s) \in Keys /\ ~UpstreamKey(s).indexed /\ {} \in SUBSET Versions
      BY <1>t, KeysTyped
    <3> QED BY <3>1, <2>1, <1>t, PublishKeeps
  <2> QED BY <2>1, <1>3, <1>f, <1>r DEF RunFetch
<1>4. CASE RunSelect(s)
  <2>1. UNCHANGED store
    BY <1>4 DEF RunSelect
  <2>2. \/ UNCHANGED track
        \/ track' = [track EXCEPT ![s].state = "extracting", ![s].reason = ""]
    BY <1>4 DEF RunSelect
  <2>3. "extracting" \in States /\ "extracting" # "ready"
    BY <1>s
  <2>4. CASE track' = [track EXCEPT ![s].state = "extracting", ![s].reason = ""]
    BY <2>1, <2>3, <2>4, <1>t, TrackTurns, StoreStays
  <2> QED BY <2>1, <2>2, <2>4, <1>n, StoreStays
<1>5. CASE RunValidate(s)
  <2> DEFINE k == IndexedKey(s, version[s])
  <2>1. k \in Keys
    BY <1>t, KeysTyped
  <2>2. CASE Stored(k) /\ Publish(s, k, content[k])
    <3>1. content[k] \in SUBSET Versions /\ k \in files
      BY <2>1, <2>2, <1>t DEF Stored
    <3> HIDE DEF k
    <3> QED BY <2>1, <2>2, <3>1, <1>t, PublishKeeps
  <2>3. CASE /\ Stored(k) => pins[k] = 0
             /\ Discard(k) \/ UNCHANGED store
             /\ UNCHANGED track
    <3>1. CASE UNCHANGED store
      BY <3>1, <2>3, <1>n, StoreStays
    <3>2. CASE Discard(k)
      <4>1. Stored(k) => pins[k] = 0
        BY <2>3
      <4> HIDE DEF k
      <4>2. ShelfSound' /\ PinnedStay
        BY <2>1, <3>2, <4>1, DiscardKeeps
      <4> QED BY <4>2, <2>3, <1>n
    <3> QED BY <2>3, <3>1, <3>2
  <2> QED BY <1>5, <2>2, <2>3, <1>f, <1>r DEF RunValidate
<1>6. CASE RunRead(s)
  <2>1. UNCHANGED store
    BY <1>6 DEF RunRead
  <2>2. UNCHANGED track \/ Failed(s, "source_unavailable")
    BY <1>6 DEF RunRead
  <2> QED BY <2>1, <2>2, <1>f, <1>n, <1>r, StoreStays
<1>7. CASE RunVerify(s)
  <2>1. CASE version[s] = run[s].ver /\ Publish(s, IndexedKey(s, run[s].ver), run[s].bytes)
    <3> DEFINE k == IndexedKey(s, run[s].ver)
    <3>1. run[s].at = "verify"
      BY <1>7 DEF RunVerify, RunAt
    <3>2. /\ run[s].bytes # {} /\ run[s].bytes \subseteq version[s]..version[s]
          /\ run[s].bytes \in SUBSET Versions
      BY <2>1, <3>1, <1>t DEF RunSound, Runs
    <3>3. version[s] \in Int
      BY <1>t DEF Versions
    <3>4. k \in Keys /\ k.ver = run[s].ver
      BY <2>1, <1>t, KeysTyped
    <3>5. run[s].bytes = {k.ver}
      <4>1. \A v \in run[s].bytes : v = version[s]
        BY <3>2, <3>3
      <4> HIDE DEF k
      <4> QED BY <4>1, <3>2, <3>4, <2>1
    <3>6. Publish(s, k, run[s].bytes)
      BY <2>1
    <3> HIDE DEF k
    <3> QED BY <3>2, <3>4, <3>5, <3>6, <1>t, PublishKeeps
  <2> QED BY <1>7, <2>1, <1>f, <1>r DEF RunVerify
<1> QED BY <1>1, <1>2, <1>3, <1>4, <1>5, <1>6, <1>7 DEF RunStep

-----------------------------------------------------------------------------
(* Leases: viewers, grants and requests *)

\* A grant is told from none and from one that was deleted.
LEMMA GrantIs ==
  ASSUME GrantsTyped, SubtitlesAssumption, NEW g \in GrantIds
  PROVE  /\ g \in Granted => grant[g] \in Grants
         /\ g \in Granted <=> grant[g] \in Grants
BY DEF GrantsTyped, SubtitlesAssumption, Granted

\* No grant comes or goes, or pins another artifact than before.
SameGrants ==
  \A g \in GrantIds : /\ g \in Granted' <=> g \in Granted
                      /\ g \in Granted => grant'[g].key = grant[g].key

\* An admission carries the name of the request that obtained it.
LEMMA AdmissionIs ==
  ASSUME SubtitlesAssumption, NEW old \in Admissions \cup {Nothing}, NEW sel \in Selections,
         NEW r \in Requests
  PROVE  /\ Admission(old, sel, r) \in Admissions /\ Admission(old, sel, r).by = r
         /\ Admission(old, sel, r) # Nothing
<1>1. sel \in [playback : BOOLEAN, recover : BOOLEAN, probe : BOOLEAN, index : STRING]
      /\ Nothing \notin Admissions
  BY DEF SubtitlesAssumption
<1>2. Admission(old, sel, r) \in Admissions /\ Admission(old, sel, r).by = r
  <2>1. CASE old # Nothing /\ old.playback /\ ~sel.playback
    <3>1. Admission(old, sel, r) = [old EXCEPT !.by = r]
      BY <2>1 DEF Admission
    <3>2. old \in Admissions
      BY <2>1
    <3> QED BY <3>1, <3>2 DEF Admissions
  <2>2. CASE ~(old # Nothing /\ old.playback /\ ~sel.playback)
    <3>1. Admission(old, sel, r) = [by |-> r, playback |-> sel.playback,
                                    recover |-> sel.recover, index |-> sel.index]
      BY <2>2 DEF Admission
    <3> QED BY <3>1, <1>1 DEF Admissions
  <2> QED BY <2>1, <2>2
<1> QED BY <1>1, <1>2

\* A request that lost its admission waits on as before.
Unowed(v) == [v EXCEPT !.owed = FALSE]

\* Only what is owed to a request changes when it loses its admission.
LEMMA UnownedIs ==
  ASSUME NEW v \in Calls
  PROVE  /\ Unowed(v) \in Calls /\ ~Unowed(v).owed
         /\ Unowed(v).at = v.at /\ Unowed(v).src = v.src /\ Unowed(v).play = v.play
         /\ Unowed(v).created <=> v.created
BY DEF Calls, Unowed

\* A request that was admitted
Admitted(s, p, fresh) ==
  [at |-> "waiting", src |-> s, play |-> p, created |-> fresh, owed |-> TRUE]

\* An admitted request waits at its source and playback.
LEMMA AdmittedIs ==
  ASSUME NEW s \in Sources, NEW p \in Playbacks, NEW fresh \in BOOLEAN
  PROVE  /\ Admitted(s, p, fresh) \in Calls /\ Admitted(s, p, fresh).src = s
         /\ Admitted(s, p, fresh).play = p
         /\ Admitted(s, p, fresh).created <=> fresh
BY DEF Calls, Admitted

\* A request is admitted: previews go, and their grants follow it.
LEMMA AdmitLeases ==
  ASSUME LeasesSound, SubtitlesAssumption, NEW r \in Requests, NEW s \in Sources,
         NEW p \in Playbacks, NEW sel \in Selections, NEW gone \in SUBSET Playbacks,
         p \notin gone, NEW fresh \in BOOLEAN, fresh => viewer[s][p] = Nothing,
         viewer' = [viewer EXCEPT ![s] = [q \in Playbacks |->
                      IF q = p THEN Admission(viewer[s][p], sel, r)
                      ELSE IF q \in gone THEN Nothing ELSE viewer[s][q]]],
         grant' = Adopted(gone, s, p, r),
         request' = [Disowned(s, gone) EXCEPT ![r] = Admitted(s, p, fresh)]
  PROVE  LeasesSound' /\ SameGrants
<1> DEFINE adm == Admission(viewer[s][p], sel, r)
<1>t. /\ viewer \in [Sources -> [Playbacks -> Admissions \cup {Nothing}]]
      /\ grant \in [GrantIds -> Grants \cup {Nothing, Ended}]
      /\ request \in [Requests -> Calls]
  BY DEF LeasesSound, ViewersTyped, GrantsTyped, RequestsTyped
<1>a. adm \in Admissions /\ adm.by = r /\ adm # Nothing
  <2>1. viewer[s][p] \in Admissions \cup {Nothing}
    BY <1>t
  <2> QED BY <2>1, AdmissionIs
<1>v. /\ viewer'[s][p] = adm
      /\ \A q \in Playbacks \ {p} :
           viewer'[s][q] = IF q \in gone THEN Nothing ELSE viewer[s][q]
      /\ \A x \in Sources \ {s} : viewer'[x] = viewer[x]
  BY <1>t
<1> HIDE DEF adm
<1>1. ViewersTyped'
  <2>1. \A q \in Playbacks : viewer'[s][q] \in Admissions \cup {Nothing}
    BY <1>t, <1>a, <1>v
  <2>2. \A x \in Sources : viewer'[x] \in [Playbacks -> Admissions \cup {Nothing}]
    <3>1. viewer'[s] \in [Playbacks -> Admissions \cup {Nothing}]
      <4> DEFINE f == [q \in Playbacks |->
                         IF q = p THEN Admission(viewer[s][p], sel, r)
                         ELSE IF q \in gone THEN Nothing ELSE viewer[s][q]]
      <4>1. viewer'[s] = f
        BY <1>t
      <4>2. \A q \in Playbacks : f[q] \in Admissions \cup {Nothing}
        BY <2>1, <4>1
      <4> QED BY <4>1, <4>2
    <3> QED BY <3>1, <1>v, <1>t
  <2>3. viewer' = [x \in Sources |-> viewer'[x]]
    BY <1>t
  <2> QED BY <2>2, <2>3 DEF ViewersTyped
<1>g. \A g \in GrantIds :
        /\ g \in Granted => grant[g] \in Grants
        /\ IF g \in Granted /\ grant[g].src = s /\ grant[g].play \in gone
           THEN /\ grant'[g] \in Grants /\ grant'[g].src = s /\ grant'[g].play = p
                /\ grant'[g].key = grant[g].key
           ELSE grant'[g] = grant[g]
  <2> TAKE g \in GrantIds
  <2>1. g \in Granted => grant[g] \in Grants
    BY GrantIs DEF LeasesSound
  <2>2. CASE g \in Granted /\ grant[g].src = s /\ grant[g].play \in gone
    <3>1. grant'[g] = [grant[g] EXCEPT !.play = p, !.input = r]
      BY <2>2 DEF Adopted
    <3>2. grant[g] \in Grants
      BY <2>1, <2>2
    <3> QED BY <2>1, <2>2, <3>1, <3>2 DEF Grants
  <2>3. CASE ~(g \in Granted /\ grant[g].src = s /\ grant[g].play \in gone)
    BY <2>1, <2>3 DEF Adopted
  <2> QED BY <2>2, <2>3
<1>2. GrantsTyped'
  <2>1. \A g \in GrantIds : grant'[g] \in Grants \cup {Nothing, Ended}
    BY <1>g, <1>t
  <2>2. grant' = [g \in GrantIds |-> grant'[g]]
    BY DEF Adopted
  <2> QED BY <2>1, <2>2 DEF GrantsTyped
<1>3. SameGrants
  <2>1. \A g \in GrantIds : g \in Granted' <=> grant'[g] \in Grants
    BY <1>2, <1>t DEF GrantsTyped, SubtitlesAssumption, Granted
  <2>2. \A g \in GrantIds : g \in Granted <=> grant[g] \in Grants
    BY GrantIs DEF LeasesSound
  <2> QED BY <2>1, <2>2, <1>g DEF SameGrants
<1>4. GrantsLeased'
  <2>1. SUFFICES ASSUME NEW g \in GrantIds, g \in Granted
                 PROVE  viewer'[grant'[g].src][grant'[g].play] # Nothing
    BY <1>3 DEF GrantsLeased, SameGrants, Granted
  <2>2. /\ grant[g] \in Grants /\ viewer[grant[g].src][grant[g].play] # Nothing
        /\ grant[g].src \in Sources /\ grant[g].play \in Playbacks
    BY <2>1, <1>g DEF LeasesSound, GrantsLeased, Grants
  <2>3. CASE grant[g].src = s /\ grant[g].play \in gone
    BY <2>1, <2>3, <1>g, <1>v, <1>a
  <2>4. CASE ~(grant[g].src = s /\ grant[g].play \in gone)
    <3>1. grant'[g] = grant[g]
      BY <2>4, <1>g
    <3>2. CASE grant[g].src = s /\ grant[g].play = p
      BY <3>1, <3>2, <1>v, <1>a
    <3>3. CASE ~(grant[g].src = s /\ grant[g].play = p)
      BY <3>1, <3>3, <2>2, <2>4, <1>v
    <3> QED BY <3>2, <3>3
  <2> QED BY <2>3, <2>4
<1>r. /\ request'[r] \in Calls /\ request'[r].src = s /\ request'[r].play = p
      /\ request'[r].created => viewer[s][p] = Nothing
      /\ \A q \in Requests \ {r} :
           /\ request'[q] \in Calls
           /\ request'[q].at = request[q].at /\ request'[q].src = request[q].src
           /\ request'[q].play = request[q].play
           /\ (request'[q].created <=> request[q].created)
           /\ request'[q].owed =>
                request[q].owed /\ ~(request[q].src = s /\ request[q].play \in gone)
  <2>1. Disowned(s, gone) = [q \in Requests |->
                      IF request[q].src = s /\ request[q].play \in gone
                      THEN [request[q] EXCEPT !.owed = FALSE] ELSE request[q]]
    BY DEF Disowned
  <2>2. /\ request'[r] \in Calls /\ request'[r].src = s /\ request'[r].play = p
        /\ request'[r].created => viewer[s][p] = Nothing
    <3>1. request'[r] = Admitted(s, p, fresh)
      BY <2>1
    <3> QED BY <3>1, AdmittedIs
  <2>3. ASSUME NEW q \in Requests \ {r}
        PROVE  /\ request'[q] \in Calls
               /\ request'[q].at = request[q].at /\ request'[q].src = request[q].src
               /\ request'[q].play = request[q].play
               /\ (request'[q].created <=> request[q].created)
               /\ request'[q].owed =>
                    request[q].owed /\ ~(request[q].src = s /\ request[q].play \in gone)
    <3>1. request[q] \in Calls
      BY <1>t
    <3>2. request'[q] = IF request[q].src = s /\ request[q].play \in gone
                        THEN [request[q] EXCEPT !.owed = FALSE] ELSE request[q]
      BY <2>1
    <3>3. CASE request[q].src = s /\ request[q].play \in gone
      <4>1. request'[q] = Unowed(request[q])
        BY <3>2, <3>3 DEF Unowed
      <4> QED BY <3>1, <4>1, UnownedIs
    <3>4. CASE ~(request[q].src = s /\ request[q].play \in gone)
      BY <3>1, <3>2, <3>4
    <3> QED BY <3>3, <3>4
  <2> QED BY <2>2, <2>3
<1>5. RequestsTyped'
  <2>1. request'[r] \in Calls /\ request'[r].src \in Sources /\ request'[r].play \in Playbacks
    BY <1>r
  <2>2. \A q \in Requests : request'[q] \in Calls
    BY <2>1, <1>r
  <2>3. request' = [q \in Requests |-> request'[q]]
    BY DEF Disowned
  <2>4. request' \in [Requests -> Calls]
    BY <2>2, <2>3
  <2>5. \A q \in Requests : request'[q].at = "waiting" =>
          request'[q].src \in Sources /\ request'[q].play \in Playbacks
    BY <2>1, <1>r DEF LeasesSound, RequestsTyped
  <2> QED BY <2>4, <2>5 DEF RequestsTyped
<1>6. RequestsLeased'
  <2>1. SUFFICES ASSUME NEW q \in Requests, request'[q].at = "waiting", request'[q].owed
                 PROVE  viewer'[request'[q].src][request'[q].play] # Nothing
    BY DEF RequestsLeased, Waiting
  <2>2. CASE q = r
    BY <2>2, <1>r, <1>v, <1>a
  <2>3. CASE q # r
    <3>1. /\ request'[q].src = request[q].src /\ request'[q].play = request[q].play
          /\ ~(request[q].src = s /\ request[q].play \in gone)
          /\ request[q].src \in Sources /\ request[q].play \in Playbacks
          /\ viewer[request[q].src][request[q].play] # Nothing
      BY <2>1, <2>3, <1>r DEF LeasesSound, RequestsTyped, RequestsLeased, Waiting
    <3> QED BY <3>1, <1>v, <1>a
  <2> QED BY <2>2, <2>3
<1>7. TakenOver'
  <2>1. SUFFICES ASSUME NEW a \in Requests, NEW b \in Requests, a # b,
                        request'[a].at = "waiting", request'[b].at = "waiting",
                        request'[a].owed, request'[b].created,
                        request'[a].src = request'[b].src,
                        request'[a].play = request'[b].play
                 PROVE  viewer'[request'[b].src][request'[b].play].by # b
    BY DEF TakenOver, Waiting
  <2>2. CASE a = r
    BY <2>1, <2>2, <1>r, <1>v, <1>a
  <2>3. CASE b = r
    <3>1. /\ request[a].at = "waiting" /\ request[a].owed
          /\ request[a].src = s /\ request[a].play = p
      BY <2>1, <2>3, <1>r
    <3>2. viewer[s][p] # Nothing
      BY <3>1 DEF LeasesSound, RequestsLeased, Waiting
    <3>3. viewer[s][p] = Nothing
      BY <2>1, <2>3, <1>r
    <3> QED BY <3>2, <3>3
  <2>4. CASE a # r /\ b # r
    <3>1. /\ request[a].at = "waiting" /\ request[b].at = "waiting" /\ request[a].owed
          /\ request[b].created /\ request[a].src = request[b].src
          /\ request[a].play = request[b].play
          /\ request'[b].src = request[b].src /\ request'[b].play = request[b].play
          /\ ~(request[b].src = s /\ request[b].play \in gone)
      BY <2>1, <2>4, <1>r
    <3>2. /\ viewer[request[b].src][request[b].play].by # b
          /\ request[b].src \in Sources /\ request[b].play \in Playbacks
      BY <3>1, <2>1 DEF LeasesSound, TakenOver, RequestsTyped, Waiting
    <3>3. CASE request[b].src = s /\ request[b].play = p
      BY <3>1, <3>3, <2>4, <1>v, <1>a
    <3>4. CASE ~(request[b].src = s /\ request[b].play = p)
      BY <3>1, <3>2, <3>4, <1>v
    <3> QED BY <3>3, <3>4
  <2> QED BY <2>2, <2>3, <2>4
<1> QED BY <1>1, <1>2, <1>3, <1>4, <1>5, <1>6, <1>7 DEF LeasesSound

\* A request that is over waits for nothing; the others wait on.
LEMMA OverIs ==
  ASSUME RequestsTyped, NEW r \in Requests, request' = Over(r)
  PROVE  /\ RequestsTyped' /\ request'[r].at = "over"
         /\ \A q \in Requests : request'[q].at = "waiting" =>
              q # r /\ request'[q] = request[q]
<1>1. [Idle EXCEPT !.at = "over"] \in Calls /\ [Idle EXCEPT !.at = "over"].at = "over"
  BY DEF Idle, Calls
<1> DEFINE x == [Idle EXCEPT !.at = "over"]
<1> HIDE DEF x
<1>2. request' = [request EXCEPT ![r] = x] /\ x \in Calls /\ x.at = "over"
  BY <1>1 DEF Over, x
<1>3. request \in [Requests -> Calls]
  BY DEF RequestsTyped
<1>4. request' \in [Requests -> Calls] /\ request'[r] = x
      /\ \A q \in Requests : q # r => request'[q] = request[q]
  BY <1>2, <1>3
<1>5. \A q \in Requests : request'[q].at = "waiting" => q # r /\ request'[q] = request[q]
  BY <1>2, <1>4
<1> QED BY <1>2, <1>4, <1>5 DEF RequestsTyped

\* No viewer changes: what is leased stays leased when no request comes to wait and
\* grants are where a viewer is.
LEMMA LeasesStay ==
  ASSUME LeasesSound, viewer' = viewer, GrantsTyped', GrantsLeased', RequestsTyped',
         \A q \in Requests : request'[q].at = "waiting" => request'[q] = request[q]
  PROVE  LeasesSound'
<1>1. ViewersTyped'
  BY DEF LeasesSound, ViewersTyped
<1>2. RequestsLeased'
  BY DEF LeasesSound, RequestsLeased, Waiting
<1>3. TakenOver'
  <2>1. SUFFICES ASSUME NEW a \in Requests, NEW b \in Requests, a # b,
                        request'[a].at = "waiting", request'[b].at = "waiting",
                        request'[a].owed, request'[b].created,
                        request'[a].src = request'[b].src,
                        request'[a].play = request'[b].play
                 PROVE  viewer'[request'[b].src][request'[b].play].by # b
    BY DEF TakenOver, Waiting
  <2>2. request'[a] = request[a] /\ request'[b] = request[b]
    BY <2>1
  <2> QED BY <2>1, <2>2 DEF LeasesSound, TakenOver, Waiting
<1> QED BY <1>1, <1>2, <1>3 DEF LeasesSound

\* A request that disconnects takes back its own admission only: nobody else has taken
\* it over, and no grant was handed out on it.
LEMMA DisconnectLeases ==
  ASSUME LeasesSound, SubtitlesAssumption, NEW r \in Requests, Disconnect(r)
  PROVE  LeasesSound'
<1> DEFINE s == request[r].src
           p == request[r].play
<1>t. /\ request[r].at = "waiting" /\ s \in Sources /\ p \in Playbacks
      /\ RequestsTyped /\ grant' = grant /\ request' = Over(r)
  BY DEF Disconnect, LeasesSound, RequestsTyped
<1>o. /\ RequestsTyped'
      /\ \A q \in Requests : request'[q].at = "waiting" =>
           q # r /\ request'[q] = request[q]
  BY <1>t, OverIs
<1>g. GrantsTyped' /\ Granted' = Granted
  BY <1>t DEF LeasesSound, GrantsTyped, Granted
<1>1. CASE viewer' = viewer
  <2>1. GrantsLeased'
    BY <1>1, <1>t, <1>g DEF LeasesSound, GrantsLeased
  <2> QED BY <1>1, <1>g, <1>o, <2>1, LeasesStay
<1>2. CASE Detaches(r) /\ viewer' = [viewer EXCEPT ![s][p] = Nothing]
  <2>1. /\ request[r].created /\ viewer[s][p] # Nothing /\ viewer[s][p].by = r
        /\ \A g \in Granted : ~(grant[g].src = s /\ grant[g].play = p)
    BY <1>2 DEF Detaches
  <2>2. viewer \in [Sources -> [Playbacks -> Admissions \cup {Nothing}]]
    BY DEF LeasesSound, ViewersTyped
  <2>3. viewer' \in [Sources -> [Playbacks -> Admissions \cup {Nothing}]]
    BY <1>2, <1>t, <2>2
  <2>4. \A x \in Sources, y \in Playbacks : ~(x = s /\ y = p) => viewer'[x][y] = viewer[x][y]
    BY <1>2, <1>t, <2>2
  <2>5. GrantsLeased'
    <3>1. SUFFICES ASSUME NEW g \in Granted
                   PROVE  viewer'[grant[g].src][grant[g].play] # Nothing
      BY <1>t, <1>g DEF GrantsLeased
    <3>2. grant[g] \in Grants
      BY <3>1, GrantIs DEF LeasesSound, Granted
    <3>3. grant[g].src \in Sources /\ grant[g].play \in Playbacks
      BY <3>2 DEF Grants
    <3> QED BY <3>3, <2>1, <2>4 DEF LeasesSound, GrantsLeased
  <2>6. ASSUME NEW q \in Requests, request'[q].at = "waiting", request'[q].owed
        PROVE  /\ request[q].src \in Sources /\ request[q].play \in Playbacks
               /\ ~(request[q].src = s /\ request[q].play = p)
    <3>1. q # r /\ request'[q] = request[q]
      BY <1>o, <2>6
    <3>2. ~(request[q].src = s /\ request[q].play = p)
      BY <3>1, <2>1, <2>6, <1>t DEF LeasesSound, TakenOver, Waiting
    <3> QED BY <3>1, <3>2, <2>6 DEF LeasesSound, RequestsTyped
  <2>7. RequestsLeased'
    <3>1. SUFFICES ASSUME NEW q \in Requests, request'[q].at = "waiting", request'[q].owed
                   PROVE  viewer'[request'[q].src][request'[q].play] # Nothing
      BY DEF RequestsLeased, Waiting
    <3>2. request'[q] = request[q]
      BY <1>o, <3>1
    <3> QED BY <3>1, <3>2, <2>4, <2>6 DEF LeasesSound, RequestsLeased, Waiting
  <2>8. TakenOver'
    <3>1. SUFFICES ASSUME NEW a \in Requests, NEW b \in Requests, a # b,
                          request'[a].at = "waiting", request'[b].at = "waiting",
                          request'[a].owed, request'[b].created,
                          request'[a].src = request'[b].src,
                          request'[a].play = request'[b].play
                   PROVE  viewer'[request'[b].src][request'[b].play].by # b
      BY DEF TakenOver, Waiting
    <3>2. request'[a] = request[a] /\ request'[b] = request[b]
      BY <1>o, <3>1
    <3>3. viewer[request[b].src][request[b].play].by # b
      BY <3>1, <3>2 DEF LeasesSound, TakenOver, Waiting
    <3>4. /\ request[a].src \in Sources /\ request[a].play \in Playbacks
          /\ ~(request[a].src = s /\ request[a].play = p)
      BY <2>6, <3>1
    <3> QED BY <3>1, <3>2, <3>3, <3>4, <2>4
  <2> QED BY <2>3, <2>5, <2>7, <2>8, <1>g, <1>o DEF LeasesSound, ViewersTyped
<1> QED BY <1>1, <1>2 DEF Disconnect

\* Grants after a step: those of G are gone, the others pin what they pinned.
GrantsGo(G) ==
  /\ Granted' = Granted \ G
  /\ \A g \in Granted \ G : grant'[g].key = grant[g].key

\* The end of playbacks takes their viewers, their grants and what was owed to
\* requests for them.
LEMMA EndLeases ==
  ASSUME LeasesSound, SubtitlesAssumption, NEW ps \in SUBSET Playbacks, EndAll(ps)
  PROVE  LeasesSound' /\ GrantsGo({g \in Granted : grant[g].play \in ps})
<1> DEFINE theirs == {g \in Granted : grant[g].play \in ps}
<1>t. /\ viewer \in [Sources -> [Playbacks -> Admissions \cup {Nothing}]]
      /\ grant \in [GrantIds -> Grants \cup {Nothing, Ended}]
      /\ request \in [Requests -> Calls]
  BY DEF LeasesSound, ViewersTyped, GrantsTyped, RequestsTyped
<1>v. /\ viewer' = [s \in Sources |-> [p \in Playbacks |->
                      IF p \in ps THEN Nothing ELSE viewer[s][p]]]
      /\ grant' = [g \in GrantIds |-> IF g \in theirs THEN Ended ELSE grant[g]]
      /\ request' = [r \in Requests |-> IF request[r].play \in ps
                                        THEN Unowed(request[r]) ELSE request[r]]
  BY DEF EndAll, Unowed
<1>1. /\ ViewersTyped'
      /\ \A s \in Sources, p \in Playbacks : p \notin ps => viewer'[s][p] = viewer[s][p]
  BY <1>t, <1>v DEF ViewersTyped
<1>2. GrantsTyped' /\ Granted' = Granted \ theirs
  BY <1>t, <1>v DEF GrantsTyped, Granted
<1>3. \A g \in Granted \ theirs : grant'[g] = grant[g] /\ grant[g] \in Grants
                                  /\ grant[g].play \notin ps
  BY <1>v, GrantIs DEF Granted, LeasesSound
<1>4. GrantsLeased'
  <2>1. SUFFICES ASSUME NEW g \in Granted \ theirs
                 PROVE  viewer'[grant[g].src][grant[g].play] # Nothing
    BY <1>2, <1>3 DEF GrantsLeased
  <2>2. grant[g].src \in Sources /\ grant[g].play \in Playbacks \ ps
    BY <1>3 DEF Grants
  <2> QED BY <2>2, <1>1 DEF LeasesSound, GrantsLeased
<1>r. \A q \in Requests :
        /\ request'[q] \in Calls
        /\ request'[q].at = request[q].at /\ request'[q].src = request[q].src
        /\ request'[q].play = request[q].play
        /\ request'[q].created <=> request[q].created
        /\ request'[q].owed => request[q].owed /\ request[q].play \notin ps
  <2> TAKE q \in Requests
  <2>1. request[q] \in Calls
    BY <1>t
  <2>2. CASE request[q].play \in ps
    <3>1. request'[q] = Unowed(request[q])
      BY <2>2, <1>v
    <3> QED BY <3>1, <2>1, UnownedIs
  <2>3. CASE request[q].play \notin ps
    BY <2>1, <2>3, <1>v
  <2> QED BY <2>2, <2>3
<1>5. RequestsTyped'
  <2>1. request' = [q \in Requests |-> request'[q]]
    BY <1>v
  <2>2. request' \in [Requests -> Calls]
    BY <2>1, <1>r
  <2> QED BY <2>2, <1>r DEF LeasesSound, RequestsTyped
<1>6. RequestsLeased'
  BY <1>r, <1>1 DEF LeasesSound, RequestsLeased, RequestsTyped, Waiting
<1>7. TakenOver'
  <2>1. SUFFICES ASSUME NEW a \in Requests, NEW b \in Requests, a # b,
                        request'[a].at = "waiting", request'[b].at = "waiting",
                        request'[a].owed, request'[b].created,
                        request'[a].src = request'[b].src,
                        request'[a].play = request'[b].play
                 PROVE  viewer'[request'[b].src][request'[b].play].by # b
    BY DEF TakenOver, Waiting
  <2>2. /\ request[a].at = "waiting" /\ request[b].at = "waiting" /\ request[a].owed
        /\ request[b].created /\ request[a].src = request[b].src
        /\ request[a].play = request[b].play
        /\ request'[b].src = request[b].src /\ request'[b].play = request[b].play
        /\ request[a].play \notin ps
    BY <2>1, <1>r
  <2>3. /\ viewer[request[b].src][request[b].play].by # b
        /\ request[b].src \in Sources /\ request[b].play \in Playbacks \ ps
    BY <2>1, <2>2 DEF LeasesSound, TakenOver, RequestsTyped, Waiting
  <2> QED BY <2>2, <2>3, <1>1
<1>8. GrantsGo(theirs)
  BY <1>2, <1>3 DEF GrantsGo
<1> QED BY <1>1, <1>2, <1>4, <1>5, <1>6, <1>7, <1>8 DEF LeasesSound

\* Of two admissions that meet, the one that was there keeps its name.
LEMMA MergedIs ==
  ASSUME SubtitlesAssumption, NEW v \in Admissions, NEW w \in Admissions \cup {Nothing}
  PROVE  /\ Merged(v, w) \in Admissions /\ Merged(v, w) # Nothing
         /\ w # Nothing => Merged(v, w).by = w.by
<1>0. Nothing \notin Admissions
  BY DEF SubtitlesAssumption
<1>1. CASE w # Nothing
  <2>1. w \in Admissions /\ v.playback \in BOOLEAN /\ w.playback \in BOOLEAN
    BY <1>1 DEF Admissions
  <2>2. (w.playback \/ v.playback) \in BOOLEAN
    OBVIOUS
  <2>3. Merged(v, w) = [w EXCEPT !.playback = w.playback \/ v.playback]
    BY <1>1 DEF Merged
  <2> DEFINE b == w.playback \/ v.playback
  <2> HIDE DEF b
  <2>4. [w EXCEPT !.playback = b] \in Admissions /\ [w EXCEPT !.playback = b].by = w.by
    BY <2>1, <2>2 DEF Admissions, b
  <2>5. Merged(v, w) = [w EXCEPT !.playback = b]
    BY <2>3 DEF b
  <2> QED BY <2>4, <2>5, <1>0
<1>2. CASE w = Nothing
  BY <1>0, <1>2 DEF Merged
<1> QED BY <1>1, <1>2

\* A playback that goes on under another id takes its viewers and grants along.
LEMMA MoveLeases ==
  ASSUME LeasesSound, SubtitlesAssumption, NEW p \in Playbacks, NEW q \in Playbacks,
         Move(p, q)
  PROVE  /\ LeasesSound' /\ SameGrants
         /\ \A s \in Sources : Viewers(viewer, s) # {} => Viewers(viewer', s) # {}
<1>t. /\ viewer \in [Sources -> [Playbacks -> Admissions \cup {Nothing}]]
      /\ grant \in [GrantIds -> Grants \cup {Nothing, Ended}]
      /\ request \in [Requests -> Calls]
      /\ p # q
  BY DEF LeasesSound, ViewersTyped, GrantsTyped, RequestsTyped, Move
<1>m. /\ viewer' = [s \in Sources |->
           IF viewer[s][p] = Nothing THEN viewer[s]
           ELSE [viewer[s] EXCEPT ![p] = Nothing, ![q] = Merged(viewer[s][p], viewer[s][q])]]
      /\ grant' = [g \in GrantIds |->
           IF g \in Granted /\ grant[g].play = p
           THEN [grant[g] EXCEPT !.play = q,
                   !.input = IF viewer'[grant[g].src][q] # Nothing
                             THEN viewer'[grant[g].src][q].by ELSE grant[g].input]
           ELSE grant[g]]
      /\ request' = [r \in Requests |-> IF request[r].play = p
                                        THEN Unowed(request[r]) ELSE request[r]]
  BY DEF Move, Unowed
<1>v. ASSUME NEW s \in Sources
      PROVE  /\ viewer'[s] \in [Playbacks -> Admissions \cup {Nothing}]
             /\ \A y \in Playbacks \ {p, q} : viewer'[s][y] = viewer[s][y]
             /\ viewer[s][p] # Nothing => viewer'[s][q] # Nothing
             /\ viewer[s][q] # Nothing =>
                  viewer'[s][q] # Nothing /\ viewer'[s][q].by = viewer[s][q].by
  <2>1. /\ viewer[s] \in [Playbacks -> Admissions \cup {Nothing}]
        /\ viewer[s][p] \in Admissions \cup {Nothing}
        /\ viewer[s][q] \in Admissions \cup {Nothing}
    BY <1>t
  <2>2. CASE viewer[s][p] = Nothing
    <3>1. viewer'[s] = viewer[s]
      BY <2>2, <1>m
    <3> QED BY <3>1, <2>1, <2>2
  <2>3. CASE viewer[s][p] # Nothing
    <3> DEFINE x == Merged(viewer[s][p], viewer[s][q])
    <3>1. x \in Admissions /\ x # Nothing
          /\ (viewer[s][q] # Nothing => x.by = viewer[s][q].by)
      BY <2>1, <2>3, MergedIs
    <3>2. viewer'[s] = [viewer[s] EXCEPT ![p] = Nothing, ![q] = x]
      BY <2>3, <1>m
    <3> HIDE DEF x
    <3>3. viewer'[s][q] = x /\ viewer'[s] \in [Playbacks -> Admissions \cup {Nothing}]
          /\ \A y \in Playbacks \ {p, q} : viewer'[s][y] = viewer[s][y]
      BY <3>1, <3>2, <2>1, <1>t
    <3> QED BY <3>1, <3>3
  <2> QED BY <2>2, <2>3
<1>1. ViewersTyped'
  BY <1>v, <1>m DEF ViewersTyped
<1>g. \A g \in GrantIds :
        /\ g \in Granted => grant[g] \in Grants
        /\ IF g \in Granted /\ grant[g].play = p
           THEN /\ grant'[g] \in Grants /\ grant'[g].src = grant[g].src
                /\ grant'[g].play = q /\ grant'[g].key = grant[g].key
           ELSE grant'[g] = grant[g]
  <2> TAKE g \in GrantIds
  <2>1. g \in Granted => grant[g] \in Grants
    BY GrantIs DEF LeasesSound
  <2>2. CASE g \in Granted /\ grant[g].play = p
    <3> DEFINE s == grant[g].src
               i == IF viewer'[s][q] # Nothing THEN viewer'[s][q].by ELSE grant[g].input
    <3>1. s \in Sources /\ grant[g].input \in Requests /\ grant[g] \in Grants
      BY <2>1, <2>2 DEF Grants
    <3>2. viewer'[s][q] \in Admissions \cup {Nothing}
      BY <3>1, <1>v
    <3>3. i \in Requests
      BY <3>1, <3>2 DEF Admissions
    <3>4. grant'[g] = [grant[g] EXCEPT !.play = q, !.input = i]
      BY <2>2, <1>m
    <3> HIDE DEF i
    <3> QED BY <2>1, <2>2, <3>1, <3>3, <3>4 DEF Grants
  <2>3. CASE ~(g \in Granted /\ grant[g].play = p)
    BY <2>1, <2>3, <1>m
  <2> QED BY <2>2, <2>3
<1>2. GrantsTyped'
  <2>1. \A g \in GrantIds : grant'[g] \in Grants \cup {Nothing, Ended}
    BY <1>g, <1>t
  <2>2. grant' = [g \in GrantIds |-> grant'[g]]
    <3> DEFINE x(g) == IF g \in Granted /\ grant[g].play = p
                       THEN [grant[g] EXCEPT !.play = q,
                               !.input = IF viewer'[grant[g].src][q] # Nothing
                                         THEN viewer'[grant[g].src][q].by
                                         ELSE grant[g].input]
                       ELSE grant[g]
    <3>1. grant' = [g \in GrantIds |-> x(g)]
      BY <1>m
    <3> HIDE DEF x
    <3> QED BY <3>1
  <2> QED BY <2>1, <2>2 DEF GrantsTyped
<1>3. SameGrants
  <2>1. \A g \in GrantIds : g \in Granted' <=> grant'[g] \in Grants
    BY <1>2, <1>t DEF GrantsTyped, SubtitlesAssumption, Granted
  <2>2. \A g \in GrantIds : g \in Granted <=> grant[g] \in Grants
    BY GrantIs DEF LeasesSound
  <2> QED BY <2>1, <2>2, <1>g DEF SameGrants
<1>4. GrantsLeased'
  <2>1. SUFFICES ASSUME NEW g \in GrantIds, g \in Granted
                 PROVE  viewer'[grant'[g].src][grant'[g].play] # Nothing
    BY <1>3 DEF GrantsLeased, SameGrants, Granted
  <2>2. /\ grant[g] \in Grants /\ viewer[grant[g].src][grant[g].play] # Nothing
        /\ grant[g].src \in Sources /\ grant[g].play \in Playbacks
    BY <2>1, <1>g DEF LeasesSound, GrantsLeased, Grants
  <2>3. CASE grant[g].play = p
    BY <2>1, <2>2, <2>3, <1>g, <1>v
  <2>4. CASE grant[g].play # p
    BY <2>1, <2>2, <2>4, <1>g, <1>v
  <2> QED BY <2>3, <2>4
<1>r. \A r \in Requests :
        /\ request'[r] \in Calls
        /\ request'[r].at = request[r].at /\ request'[r].src = request[r].src
        /\ request'[r].play = request[r].play
        /\ request'[r].created <=> request[r].created
        /\ request'[r].owed => request[r].owed /\ request[r].play # p
  <2> TAKE r \in Requests
  <2>1. request[r] \in Calls
    BY <1>t
  <2>2. CASE request[r].play = p
    <3>1. request'[r] = Unowed(request[r])
      BY <2>2, <1>m
    <3> QED BY <3>1, <2>1, UnownedIs
  <2>3. CASE request[r].play # p
    BY <2>1, <2>3, <1>m
  <2> QED BY <2>2, <2>3
<1>5. RequestsTyped'
  <2>1. request' = [r \in Requests |-> request'[r]]
    BY <1>m
  <2>2. request' \in [Requests -> Calls]
    BY <2>1, <1>r
  <2> QED BY <2>2, <1>r DEF LeasesSound, RequestsTyped
<1>w. ASSUME NEW a \in Requests, request'[a].at = "waiting", request'[a].owed
      PROVE  /\ request[a].src \in Sources /\ request[a].play \in Playbacks \ {p}
             /\ viewer[request[a].src][request[a].play] # Nothing
             /\ viewer'[request[a].src][request[a].play] # Nothing
             /\ viewer'[request[a].src][request[a].play].by =
                  viewer[request[a].src][request[a].play].by
  <2>1. /\ request[a].at = "waiting" /\ request[a].owed /\ request[a].play # p
    BY <1>w, <1>r
  <2>2. /\ request[a].src \in Sources /\ request[a].play \in Playbacks \ {p}
        /\ viewer[request[a].src][request[a].play] # Nothing
    BY <2>1 DEF LeasesSound, RequestsTyped, RequestsLeased, Waiting
  <2>3. CASE request[a].play = q
    BY <2>2, <2>3, <1>v
  <2>4. CASE request[a].play # q
    <3>1. viewer'[request[a].src][request[a].play] = viewer[request[a].src][request[a].play]
      BY <2>2, <2>4, <1>v
    <3> QED BY <3>1, <2>2
  <2> QED BY <2>2, <2>3, <2>4
<1>6. RequestsLeased'
  BY <1>w, <1>r DEF RequestsLeased, Waiting
<1>7. TakenOver'
  <2>1. SUFFICES ASSUME NEW a \in Requests, NEW b \in Requests, a # b,
                        request'[a].at = "waiting", request'[b].at = "waiting",
                        request'[a].owed, request'[b].created,
                        request'[a].src = request'[b].src,
                        request'[a].play = request'[b].play
                 PROVE  viewer'[request'[b].src][request'[b].play].by # b
    BY DEF TakenOver, Waiting
  <2>2. /\ request[a].at = "waiting" /\ request[b].at = "waiting" /\ request[a].owed
        /\ request[b].created /\ request[a].src = request[b].src
        /\ request[a].play = request[b].play
        /\ request'[b].src = request[b].src /\ request'[b].play = request[b].play
    BY <2>1, <1>r
  <2>3. viewer[request[b].src][request[b].play].by # b
    BY <2>1, <2>2 DEF LeasesSound, TakenOver, Waiting
  <2>4. viewer'[request[a].src][request[a].play].by = viewer[request[a].src][request[a].play].by
    BY <2>1, <1>w
  <2> QED BY <2>2, <2>3, <2>4
<1>8. \A s \in Sources : Viewers(viewer, s) # {} => Viewers(viewer', s) # {}
  <2>1. SUFFICES ASSUME NEW s \in Sources, NEW y \in Playbacks, viewer[s][y] # Nothing
                 PROVE  \E z \in Playbacks : viewer'[s][z] # Nothing
    BY DEF Viewers
  <2>2. CASE y \in {p, q}
    BY <2>1, <2>2, <1>v
  <2>3. CASE y \notin {p, q}
    BY <2>1, <2>3, <1>v
  <2> QED BY <2>2, <2>3
<1> QED BY <1>1, <1>2, <1>3, <1>4, <1>5, <1>6, <1>7, <1>8 DEF LeasesSound

-----------------------------------------------------------------------------
(* Pins *)

\* A request that returns gets a grant it had, or a new one that pins the artifact.
ReturnGrants(r) ==
  \/ UNCHANGED <<grant, pins>>
  \/ SameGrants /\ UNCHANGED pins
  \/ \E g \in GrantIds \ Granted, k \in files :
       /\ Granted' = Granted \cup {g} /\ grant'[g].key = k
       /\ \A h \in Granted : grant'[h] = grant[h]
       /\ pins' = [pins EXCEPT ![k] = pins[k] + 1]

\* A request returns: a grant is handed out where a viewer is, on a track that is
\* ready.
LEMMA ReturnLeases ==
  ASSUME LeasesSound, TracksSound, SubtitlesAssumption, NEW r \in Requests, Return(r)
  PROVE  LeasesSound' /\ TracksSound' /\ ReturnGrants(r)
<1> DEFINE s == request[r].src
           p == request[r].play
           k == track[s].key
<1>t. /\ request[r].at = "waiting" /\ s \in Sources /\ p \in Playbacks
      /\ RequestsTyped /\ request' = Over(r) /\ viewer' = viewer /\ jobs' = jobs
      /\ grant \in [GrantIds -> Grants \cup {Nothing, Ended}]
  BY DEF Return, LeasesSound, RequestsTyped, GrantsTyped
<1>o. /\ RequestsTyped'
      /\ \A q \in Requests : request'[q].at = "waiting" =>
           q # r /\ request'[q] = request[q]
  BY <1>t, OverIs
<1>l. ASSUME GrantsTyped', GrantsLeased' PROVE LeasesSound'
  BY <1>l, <1>o, <1>t, LeasesStay
<1>1. CASE UNCHANGED <<grant, pins>> /\ UNCHANGED track
  <2>1. GrantsTyped' /\ GrantsLeased'
    BY <1>1, <1>t DEF LeasesSound, GrantsTyped, GrantsLeased, Granted
  <2>2. TracksSound'
    BY <1>1, <1>t DEF TracksSound
  <2> QED BY <1>1, <1>l, <2>1, <2>2 DEF ReturnGrants
<1>2. CASE UNCHANGED <<grant, pins>> /\ track' = [track EXCEPT ![s].state = "unknown"]
  <2>1. GrantsTyped' /\ GrantsLeased'
    BY <1>2, <1>t DEF LeasesSound, GrantsTyped, GrantsLeased, Granted
  <2>2. "unknown" \in States /\ "unknown" # "ready"
    BY DEF States
  <2>3. TracksSound'
    BY <1>2, <1>t, <2>2, TrackTurns
  <2> QED BY <1>2, <1>l, <2>1, <2>3 DEF ReturnGrants
<1>3. ASSUME viewer[s][p] # Nothing, track[s].state = "ready", Stored(k), UNCHANGED track,
             NEW g \in GrantIds, g \in Granted, grant[g].src = s, grant[g].play = p,
             grant' = [grant EXCEPT ![g].input = r], UNCHANGED pins
      PROVE  LeasesSound' /\ TracksSound' /\ ReturnGrants(r)
  <2> DEFINE x == [grant[g] EXCEPT !.input = r]
  <2>1. grant[g] \in Grants
    BY <1>3, GrantIs DEF LeasesSound
  <2>2. grant' = [grant EXCEPT ![g] = x]
    BY <1>3, <1>t
  <2>3. x \in Grants /\ x.key = grant[g].key /\ x.src = grant[g].src
        /\ x.play = grant[g].play
    BY <2>1 DEF Grants
  <2> HIDE DEF x
  <2>4. x \notin {Nothing, Ended}
    BY <2>3 DEF SubtitlesAssumption
  <2>5. GrantsTyped' /\ Granted' = Granted /\ grant'[g] = x
        /\ \A h \in GrantIds : h # g => grant'[h] = grant[h]
    BY <1>3, <1>t, <2>2, <2>3, <2>4 DEF GrantsTyped, Granted
  <2>6. SameGrants
    BY <2>3, <2>5 DEF SameGrants
  <2>7. GrantsLeased'
    <3>1. \A h \in Granted : grant'[h].src = grant[h].src /\ grant'[h].play = grant[h].play
      BY <2>3, <2>5 DEF Granted
    <3> QED BY <3>1, <2>5, <1>t DEF LeasesSound, GrantsLeased
  <2>8. TracksSound'
    BY <1>3, <1>t DEF TracksSound
  <2> QED BY <1>3, <1>l, <2>5, <2>6, <2>7, <2>8 DEF ReturnGrants
<1>4. ASSUME viewer[s][p] # Nothing, track[s].state = "ready", Stored(k), UNCHANGED track,
             NEW g \in GrantIds, grant[g] = Nothing,
             grant' = [grant EXCEPT ![g] = [src |-> s, play |-> p, key |-> k, input |-> r]],
             pins' = [pins EXCEPT ![k] = pins[k] + 1]
      PROVE  LeasesSound' /\ TracksSound' /\ ReturnGrants(r)
  <2> DEFINE x == [src |-> s, play |-> p, key |-> k, input |-> r]
  <2>1. k \in Keys /\ k \in files
    BY <1>3, <1>4, <1>t DEF TracksSound, Stored
  <2>2. x \in Grants /\ x.key = k /\ x.src = s /\ x.play = p
    BY <2>1, <1>t DEF Grants
  <2>3. grant' = [grant EXCEPT ![g] = x]
    BY <1>4
  <2> HIDE DEF x
  <2>4. x \notin {Nothing, Ended}
    BY <2>2 DEF SubtitlesAssumption
  <2>5. GrantsTyped' /\ Granted' = Granted \cup {g} /\ grant'[g] = x /\ g \notin Granted
        /\ \A h \in Granted : grant'[h] = grant[h]
    BY <1>4, <1>t, <2>2, <2>3, <2>4 DEF GrantsTyped, Granted
  <2>6. GrantsLeased'
    BY <2>2, <2>5, <1>4, <1>t DEF LeasesSound, GrantsLeased
  <2>7. TracksSound'
    BY <1>4, <1>t DEF TracksSound
  <2>8. g \in GrantIds \ Granted /\ k \in files /\ grant'[g].key = k
    BY <2>1, <2>2, <2>5
  <2>9. ReturnGrants(r)
    BY <1>4, <2>5, <2>8 DEF ReturnGrants
  <2> QED BY <1>l, <2>5, <2>6, <2>7, <2>9
<1>5. CASE closed \/ viewer[s][p] = Nothing
  BY <1>1, <1>5 DEF Return
<1>6. CASE ~(closed \/ viewer[s][p] = Nothing)
  <2>1. ReadyLocked(r, s, p) /\ viewer[s][p] # Nothing
    BY <1>6 DEF Return
  <2>2. CASE track[s].state # "ready"
    BY <2>1, <2>2, <1>1 DEF ReadyLocked
  <2>3. CASE track[s].state = "ready" /\ ~Stored(k)
    BY <2>1, <2>3, <1>2 DEF ReadyLocked
  <2>4. CASE track[s].state = "ready" /\ Stored(k)
    <3> DEFINE mine == {g \in Granted : grant[g].src = s /\ grant[g].play = p
                                        /\ grant[g].key = k}
    <3>1. /\ UNCHANGED track
          /\ IF mine # {}
             THEN /\ \E g \in mine : grant' = [grant EXCEPT ![g].input = r]
                  /\ UNCHANGED pins
             ELSE IF Cardinality(Granted) >= MaxGrants THEN UNCHANGED <<grant, pins>>
             ELSE \E g \in GrantIds :
                    /\ grant[g] = Nothing
                    /\ grant' = [grant EXCEPT ![g] = [src |-> s, play |-> p, key |-> k,
                                                      input |-> r]]
                    /\ pins' = [pins EXCEPT ![k] = pins[k] + 1]
      BY <2>1, <2>4 DEF ReadyLocked
    <3>2. \A g \in mine : g \in GrantIds /\ g \in Granted /\ grant[g].src = s
                          /\ grant[g].play = p
      BY DEF Granted
    <3> HIDE DEF mine
    <3>3. CASE mine # {}
      <4>1. PICK g \in mine : grant' = [grant EXCEPT ![g].input = r] /\ UNCHANGED pins
        BY <3>1, <3>3
      <4> QED BY <2>1, <2>4, <3>1, <3>2, <4>1, <1>3
    <3>4. CASE mine = {}
      BY <2>1, <2>4, <3>1, <3>4, <1>1, <1>4
    <3> QED BY <3>3, <3>4
  <2> QED BY <2>2, <2>3, <2>4
<1> QED BY <1>5, <1>6

\* What pins the artifacts is a finite set, and is as before when grants are.
LEMMA PinsFinite ==
  ASSUME SubtitlesAssumption, NEW k
  PROVE  /\ IsFiniteSet(Granting(k)) /\ IsFiniteSet(Reading(k))
         /\ Cardinality(Granting(k)) \in Nat /\ Cardinality(Reading(k)) \in Nat
<1>1. Granting(k) \subseteq GrantIds /\ Reading(k) \subseteq Readers
  BY DEF Granting, Granted, Reading
<1> QED BY <1>1, FS_Subset, FS_CardinalityType DEF SubtitlesAssumption

\* What promises an artifact is as before when grants are.
LEMMA GrantingSame ==
  ASSUME SameGrants, NEW k PROVE Granting(k)' = Granting(k)
<1>1. Granted \subseteq GrantIds /\ Granted' \subseteq GrantIds
  BY DEF Granted
<1> QED BY <1>1 DEF SameGrants, Granting

\* Pins that nobody takes or gives back
LEMMA PinsSame ==
  ASSUME PinsSound, PinnedStay,
         \A k \in Keys : Granting(k)' = Granting(k) /\ Reading(k)' = Reading(k)
  PROVE  PinsSound'
BY DEF PinsSound, PinnedStay, Stored

\* The count of what pins k
Pinning(k) == Cardinality(Granting(k)) + Cardinality(Reading(k))

\* One pin of an artifact that is stored is counted once, whatever it is.
LEMMA PinsMove ==
  ASSUME PinsSound, files' = files, NEW k \in Keys, NEW n \in Nat,
         pins' = [pins EXCEPT ![k] = n], Pinning(k)' = n, n > 0 => k \in files,
         \A j \in Keys : j # k => Pinning(j)' = Pinning(j)
  PROVE  PinsSound'
<1>1. pins' \in [Keys -> Nat] /\ pins'[k] = n
      /\ \A j \in Keys : j # k => pins'[j] = pins[j]
  BY DEF PinsSound
<1>2. \A j \in Keys : pins'[j] = Pinning(j)' /\ (pins'[j] > 0 => j \in files)
  BY <1>1 DEF PinsSound, Pinning, Stored
<1> QED BY <1>1, <1>2 DEF PinsSound, Pinning, Stored

\* A grant handed out pins its artifact once; a grant that is found again does not.
LEMMA ReturnPins ==
  ASSUME PinsSound, ShelfSound, SubtitlesAssumption, NEW r \in Requests, ReturnGrants(r),
         UNCHANGED <<files, reader>>
  PROVE  PinsSound'
<1>r. \A k \in Keys : Reading(k)' = Reading(k)
  BY DEF Reading
<1>1. CASE UNCHANGED <<grant, pins>>
  <2>1. \A k \in Keys : Granting(k)' = Granting(k)
    BY <1>1 DEF Granting, Granted
  <2>2. PinnedStay
    BY <1>1 DEF PinnedStay
  <2> QED BY <1>r, <2>1, <2>2, PinsSame
<1>2. CASE SameGrants /\ UNCHANGED pins
  <2>1. \A k \in Keys : Granting(k)' = Granting(k)
    BY <1>2, GrantingSame
  <2>2. PinnedStay
    BY <1>2 DEF PinnedStay
  <2> QED BY <1>r, <2>1, <2>2, PinsSame
<1>3. ASSUME NEW g \in GrantIds \ Granted, NEW k \in files,
             Granted' = Granted \cup {g}, grant'[g].key = k,
             \A h \in Granted : grant'[h] = grant[h],
             pins' = [pins EXCEPT ![k] = pins[k] + 1]
      PROVE  PinsSound'
  <2>1. k \in Keys /\ pins[k] \in Nat /\ pins[k] = Pinning(k)
    BY DEF ShelfSound, PinsSound, Pinning
  <2>2. Granting(k)' = Granting(k) \cup {g} /\ g \notin Granting(k)
    BY <1>3 DEF Granting
  <2>3. \A j \in Keys : j # k => Granting(j)' = Granting(j)
    BY <1>3 DEF Granting
  <2>4. /\ IsFiniteSet(Granting(k))
        /\ Cardinality(Granting(k)) \in Nat /\ Cardinality(Reading(k)) \in Nat
    BY PinsFinite
  <2>5. Cardinality(Granting(k) \cup {g}) = Cardinality(Granting(k)) + 1
    BY <2>2, <2>4, FS_AddElement
  <2>6. Pinning(k)' = pins[k] + 1
    BY <1>r, <2>1, <2>2, <2>4, <2>5 DEF Pinning
  <2>7. \A j \in Keys : j # k => Pinning(j)' = Pinning(j)
    BY <1>r, <2>3 DEF Pinning
  <2>8. pins[k] + 1 \in Nat
    BY <2>1
  <2> QED BY <1>3, <2>1, <2>6, <2>7, <2>8, PinsMove
<1> QED BY <1>1, <1>2, <1>3 DEF ReturnGrants

\* The grants that end give back their pins.
LEMMA EndPins ==
  ASSUME PinsSound, SubtitlesAssumption, NEW G \in SUBSET Granted, GrantsGo(G),
         UNCHANGED <<files, reader>>,
         pins' = [k \in Keys |->
                    pins[k] - (IF Stored(k) THEN Cardinality({g \in G : grant[g].key = k})
                                            ELSE 0)]
  PROVE  PinsSound'
<1>1. ASSUME NEW k \in Keys
      PROVE  /\ pins'[k] \in Nat
             /\ pins'[k] = Cardinality(Granting(k))' + Cardinality(Reading(k))'
             /\ pins'[k] > 0 => Stored(k)'
  <2> DEFINE T == {g \in G : grant[g].key = k}
  <2>1. Granting(k)' = Granting(k) \ T /\ T \subseteq Granting(k)
    BY DEF Granting, GrantsGo
  <2>2. Reading(k)' = Reading(k)
    BY DEF Reading
  <2>3. /\ IsFiniteSet(Granting(k))
        /\ Cardinality(Granting(k)) \in Nat /\ Cardinality(Reading(k)) \in Nat
    BY PinsFinite
  <2>4. IsFiniteSet(T) /\ Cardinality(T) \in Nat /\ Cardinality(T) <= Cardinality(Granting(k))
    BY <2>1, <2>3, FS_Subset, FS_CardinalityType
  <2>5. Granting(k) \cap T = T
    BY <2>1
  <2>6. Cardinality(Granting(k) \ T) = Cardinality(Granting(k)) - Cardinality(T)
    BY <2>3, <2>5, FS_Difference
  <2>7. /\ pins[k] = Cardinality(Granting(k)) + Cardinality(Reading(k))
        /\ pins[k] \in Nat /\ (pins[k] > 0 => Stored(k))
    BY DEF PinsSound
  <2>8. pins'[k] = pins[k] - (IF Stored(k) THEN Cardinality(T) ELSE 0)
    OBVIOUS
  <2> HIDE DEF T
  <2>9. pins'[k] = pins[k] - Cardinality(T)
    BY <2>3, <2>4, <2>7, <2>8
  <2>10. Cardinality(Granting(k))' = Cardinality(Granting(k)) - Cardinality(T)
         /\ Cardinality(Reading(k))' = Cardinality(Reading(k))
    BY <2>1, <2>2, <2>6
  <2>11. /\ pins'[k] \in Nat
         /\ pins'[k] = Cardinality(Granting(k))' + Cardinality(Reading(k))'
    BY <2>3, <2>4, <2>7, <2>9, <2>10
  <2>12. pins'[k] > 0 => Stored(k)'
    BY <2>4, <2>7, <2>9 DEF Stored
  <2> QED BY <2>11, <2>12
<1>2. pins' \in [Keys -> Nat]
  BY <1>1
<1> QED BY <1>1, <1>2 DEF PinsSound

-----------------------------------------------------------------------------
(* Readers *)

\* One reader moves; what the others pin is as before.
LEMMA ReaderMoves ==
  ASSUME ReadersSound, NEW o \in Readers, NEW x \in Opens,
         x.at \in {"check", "serve", "reading"} => x.key \in Keys,
         reader' = [reader EXCEPT ![o] = x]
  PROVE  /\ ReadersSound'
         /\ \A k \in Keys :
              Reading(k)' = IF x.at = "reading" /\ x.key = k THEN Reading(k) \cup {o}
                                                             ELSE Reading(k) \ {o}
<1>1. reader' \in [Readers -> Opens] /\ reader'[o] = x
      /\ \A p \in Readers : p # o => reader'[p] = reader[p]
  BY DEF ReadersSound
<1>2. ReadersSound'
  BY <1>1 DEF ReadersSound
<1>3. ASSUME NEW k \in Keys
      PROVE  Reading(k)' = IF x.at = "reading" /\ x.key = k THEN Reading(k) \cup {o}
                                                            ELSE Reading(k) \ {o}
  <2>1. Reading(k)' = {p \in Readers : reader'[p].at = "reading" /\ reader'[p].key = k}
    BY DEF Reading
  <2>2. \A p \in Readers : p \in Reading(k) <=> reader[p].at = "reading" /\ reader[p].key = k
    BY DEF Reading
  <2>3. Reading(k) \subseteq Readers
    BY DEF Reading
  <2> QED BY <1>1, <2>1, <2>2, <2>3
<1> QED BY <1>2, <1>3

\* A reader that does not read, before or after, pins nothing.
LEMMA ReaderWaits ==
  ASSUME ReadersSound, NEW o \in Readers, NEW x \in Opens, reader[o].at # "reading",
         x.at # "reading", x.at \in {"check", "serve"} => x.key \in Keys,
         reader' = [reader EXCEPT ![o] = x]
  PROVE  ReadersSound' /\ \A k \in Keys : Reading(k)' = Reading(k)
<1>1. x.at \in {"check", "serve", "reading"} => x.key \in Keys
  OBVIOUS
<1>2. \A k \in Keys : o \notin Reading(k)
  BY DEF Reading
<1>3. /\ ReadersSound'
      /\ \A k \in Keys :
              Reading(k)' = IF x.at = "reading" /\ x.key = k THEN Reading(k) \cup {o}
                                                             ELSE Reading(k) \ {o}
  BY <1>1, ReaderMoves
<1> QED BY <1>2, <1>3

\* A reader that gives up before it reads pins nothing.
LEMMA OpenOverIs ==
  ASSUME ReadersSound, NEW o \in Readers, reader[o].at # "reading", OpenOver(o)
  PROVE  ReadersSound' /\ \A k \in Keys : Reading(k)' = Reading(k)
<1> DEFINE x == [NotReading EXCEPT !.at = "over"]
<1>1. x \in Opens /\ x.at = "over"
  BY DEF NotReading, Opens
<1>2. reader' = [reader EXCEPT ![o] = x]
  BY DEF OpenOver
<1> HIDE DEF x
<1>3. x.at # "reading" /\ (x.at \in {"check", "serve"} => x.key \in Keys)
  BY <1>1
<1> QED BY <1>1, <1>2, <1>3, ReaderWaits

\* Pins are counted for readers that do not read.
LEMMA ReadersOnly ==
  ASSUME PinsSound, UNCHANGED <<grant, files, pins>>,
         \A k \in Keys : Reading(k)' = Reading(k)
  PROVE  PinsSound'
<1>1. \A k \in Keys : Granting(k)' = Granting(k)
  BY DEF Granting, Granted
<1>2. PinnedStay
  BY DEF PinnedStay
<1> QED BY <1>1, <1>2, PinsSame

\* A grant is looked up.
LEMMA LookupKeeps ==
  ASSUME ReadersSound, PinsSound, LeasesSound, SubtitlesAssumption, NEW o \in Readers,
         OpenLookup(o)
  PROVE  ReadersSound' /\ PinsSound'
<1>1. PICK g \in Granted :
        reader' = [reader EXCEPT ![o] = [at |-> "check", id |-> g, key |-> grant[g].key,
                                         input |-> grant[g].input]]
  BY DEF OpenLookup
<1> DEFINE x == [at |-> "check", id |-> g, key |-> grant[g].key, input |-> grant[g].input]
<1>2. g \in GrantIds
  BY DEF Granted
<1>3. grant[g] \in Grants
  BY <1>2, GrantIs DEF LeasesSound
<1>4. x \in Opens /\ x.at = "check" /\ x.key \in Keys
  BY <1>2, <1>3 DEF Opens, Grants
<1>5. reader' = [reader EXCEPT ![o] = x]
  BY <1>1
<1> HIDE DEF x
<1>6. reader[o].at # "reading" /\ x.at # "reading"
      /\ (x.at \in {"check", "serve"} => x.key \in Keys)
  BY <1>4 DEF OpenLookup
<1>7. ReadersSound' /\ \A k \in Keys : Reading(k)' = Reading(k)
  BY <1>4, <1>5, <1>6, ReaderWaits
<1>8. UNCHANGED <<grant, files, pins>>
  BY DEF OpenLookup, store
<1> QED BY <1>7, <1>8, ReadersOnly

\* An Open that is refused leaves everything as it was.
LEMMA RefusedKeeps ==
  ASSUME ReadersSound, PinsSound, NEW o \in Readers, OpenRefused(o)
  PROVE  ReadersSound' /\ PinsSound'
<1>1. reader[o].at # "reading" /\ OpenOver(o) /\ UNCHANGED <<grant, files, pins>>
  BY DEF OpenRefused, store
<1>2. ReadersSound' /\ \A k \in Keys : Reading(k)' = Reading(k)
  BY <1>1, OpenOverIs
<1> QED BY <1>1, <1>2, ReadersOnly

\* Whether and when a run works, and whether it was cancelled, is as before.
SameRuns ==
  \A s \in Sources : run'[s].at = run[s].at /\ (run'[s].cancelled <=> run[s].cancelled)

\* An artifact is checked against its source: this moves the ETag a run expects, and
\* nothing else of it.
LEMMA CheckKeeps ==
  ASSUME ReadersSound, PinsSound, TracksSound, RunsSound, SubtitlesAssumption,
         NEW o \in Readers, OpenCheck(o)
  PROVE  ReadersSound' /\ PinsSound' /\ TracksSound' /\ RunsSound' /\ SameRuns
<1> DEFINE k == reader[o].key
           s == k.src
<1>t. /\ reader[o].at = "check" /\ reader \in [Readers -> Opens]
      /\ reader[o] \in Opens /\ k \in Keys /\ jobs' = jobs /\ version' = version
      /\ UNCHANGED <<grant, files, pins>>
      /\ run \in [Sources -> Runs] /\ version \in [Sources -> Versions]
      /\ \A z \in Sources : RunSound(run[z], version[z])
  BY DEF OpenCheck, ReadersSound, store, RunsSound
<1>s. s \in Sources
  BY <1>t DEF Keys
<1>1. ReadersSound' /\ \A j \in Keys : Reading(j)' = Reading(j)
  <2>1. CASE OpenOver(o)
    BY <2>1, <1>t, OpenOverIs
  <2>2. CASE reader' = [reader EXCEPT ![o].at = "serve", ![o].input = Nothing]
    <3> DEFINE x == [reader[o] EXCEPT !.at = "serve", !.input = Nothing]
    <3>1. x \in Opens /\ x.at = "serve" /\ x.key = k
      BY <1>t DEF Opens
    <3>2. reader' = [reader EXCEPT ![o] = x]
      BY <2>2, <1>t DEF Opens
    <3> HIDE DEF x
    <3>3. reader[o].at # "reading" /\ x.at # "reading"
          /\ (x.at \in {"check", "serve"} => x.key \in Keys)
      BY <3>1, <1>t
    <3> QED BY <3>1, <3>2, <3>3, ReaderWaits
  <2> QED BY <2>1, <2>2 DEF OpenCheck
<1>2. PinsSound'
  BY <1>1, <1>t, ReadersOnly
<1>3. TracksSound'
  <2>1. CASE UNCHANGED track
    BY <2>1, <1>t DEF TracksSound
  <2>2. CASE Failed(s, "source_changed")
    <3>1. "source_changed" \in Reasons
      BY DEF Reasons
    <3> HIDE DEF s
    <3> QED BY <3>1, <2>2, <1>s, <1>t, TrackFails
  <2> QED BY <2>1, <2>2 DEF OpenCheck
<1>4. RunsSound' /\ SameRuns
  <2>1. CASE run' = run
    BY <2>1, <1>t DEF RunsSound, SameRuns
  <2>2. ASSUME NEW e \in Nat, run' = [run EXCEPT ![s].expected = e]
        PROVE  RunsSound' /\ SameRuns
    <3> DEFINE x == [run[s] EXCEPT !.expected = e]
    <3>1. run[s] \in Runs
      BY <1>s, <1>t
    <3>2. /\ x \in Runs /\ x.at = run[s].at /\ x.ver = run[s].ver
          /\ x.bytes = run[s].bytes
      BY <3>1 DEF Runs
    <3>3. x.cancelled <=> run[s].cancelled
      BY <3>1 DEF Runs
    <3>4. run' = [run EXCEPT ![s] = x]
      BY <2>2, <1>s, <1>t
    <3> HIDE DEF x
    <3>5. RunSound(x, version[s])
      BY <3>2, <1>s, <1>t DEF RunSound
    <3> HIDE DEF s
    <3>6. run' \in [Sources -> Runs] /\ run'[s] = x
          /\ \A z \in Sources : z # s => run'[z] = run[z]
      BY <3>2, <3>4, <1>s, <1>t
    <3>7. \A z \in Sources : RunSound(run'[z], version'[z])
      BY <3>5, <3>6, <1>t
    <3> QED BY <3>2, <3>3, <3>6, <3>7, <1>t DEF RunsSound, SameRuns
  <2>3. version[s] \in Nat /\ 0 \in Nat
    BY <1>s, <1>t DEF Versions
  <2>4. \/ run' = run
        \/ run' = [run EXCEPT ![s].expected = version[s]]
        \/ run' = [run EXCEPT ![s].expected = 0]
    BY DEF OpenCheck
  <2> HIDE DEF s
  <2> QED BY <2>1, <2>2, <2>3, <2>4
<1> QED BY <1>1, <1>2, <1>3, <1>4

\* A reader that opens what a grant promises pins it once more.
LEMMA ServeKeeps ==
  ASSUME ReadersSound, PinsSound, SubtitlesAssumption, NEW o \in Readers, OpenServe(o)
  PROVE  ReadersSound' /\ PinsSound'
<1> DEFINE x == [reader[o] EXCEPT !.at = "reading", !.id = Nothing]
<1>k. PICK k \in Keys : reader[o].key = k
  BY DEF OpenServe, ReadersSound
<1>t. /\ reader[o].at = "serve" /\ reader[o] \in Opens /\ k \in Keys /\ k \in files
      /\ UNCHANGED <<grant, files>> /\ reader \in [Readers -> Opens]
      /\ reader' = [reader EXCEPT ![o].at = "reading", ![o].id = Nothing]
      /\ pins' = [pins EXCEPT ![k] = pins[k] + 1]
  BY <1>k DEF OpenServe, ReadersSound, Stored
<1>1. x \in Opens /\ x.at = "reading" /\ x.key = k
  BY <1>k, <1>t DEF Opens
<1>2. reader' = [reader EXCEPT ![o] = x]
  BY <1>t DEF Opens
<1> HIDE DEF x
<1>3. x.at \in {"check", "serve", "reading"} => x.key \in Keys
  BY <1>1, <1>t
<1>4. /\ ReadersSound'
      /\ \A j \in Keys :
           Reading(j)' = IF x.at = "reading" /\ x.key = j THEN Reading(j) \cup {o}
                                                          ELSE Reading(j) \ {o}
  BY <1>1, <1>2, <1>3, ReaderMoves
<1>5. \A j \in Keys : o \notin Reading(j)
  BY <1>t DEF Reading
<1>6. Reading(k)' = Reading(k) \cup {o} /\ \A j \in Keys : j # k => Reading(j)' = Reading(j)
  <2>1. \A j \in Keys : Reading(j) \ {o} = Reading(j)
    BY <1>5
  <2>2. \A j \in Keys : Reading(j)' = IF j = k THEN Reading(j) \cup {o} ELSE Reading(j) \ {o}
    BY <1>1, <1>4
  <2> QED BY <2>1, <2>2
<1>7. \A j \in Keys : Granting(j)' = Granting(j)
  BY <1>t DEF Granting, Granted
<1>8. /\ IsFiniteSet(Reading(k))
      /\ Cardinality(Granting(k)) \in Nat /\ Cardinality(Reading(k)) \in Nat
  BY PinsFinite
<1>9. Cardinality(Reading(k) \cup {o}) = Cardinality(Reading(k)) + 1
  BY <1>5, <1>8, <1>t, FS_AddElement
<1>10. pins[k] \in Nat /\ pins[k] = Pinning(k)
  BY <1>t DEF PinsSound, Pinning
<1>11. Pinning(k)' = pins[k] + 1
  BY <1>6, <1>7, <1>8, <1>9, <1>10, <1>t DEF Pinning
<1>12. \A j \in Keys : j # k => Pinning(j)' = Pinning(j)
  BY <1>6, <1>7 DEF Pinning
<1>13. pins[k] + 1 \in Nat
  BY <1>10
<1>14. PinsSound'
  BY <1>t, <1>11, <1>12, <1>13, PinsMove
<1> QED BY <1>4, <1>14

\* A reader that closes gives its pin back.
LEMMA CloseReaderKeeps ==
  ASSUME ReadersSound, PinsSound, SubtitlesAssumption, NEW o \in Readers, CloseReader(o)
  PROVE  ReadersSound' /\ PinsSound'
<1> DEFINE x == [NotReading EXCEPT !.at = "over"]
<1>k. PICK k \in Keys : reader[o].key = k
  BY DEF CloseReader, ReadersSound
<1>t. /\ reader[o].at = "reading" /\ k \in Keys
      /\ UNCHANGED <<grant, files>> /\ reader' = [reader EXCEPT ![o] = x]
      /\ pins' = [pins EXCEPT ![k] = pins[k] - 1]
  BY <1>k DEF CloseReader, ReadersSound, OpenOver
<1>1. x \in Opens /\ x.at = "over"
  BY DEF NotReading, Opens
<1> HIDE DEF x
<1>3. x.at \in {"check", "serve", "reading"} => x.key \in Keys
  BY <1>1
<1>4. /\ ReadersSound'
      /\ \A j \in Keys :
           Reading(j)' = IF x.at = "reading" /\ x.key = j THEN Reading(j) \cup {o}
                                                          ELSE Reading(j) \ {o}
  BY <1>1, <1>t, <1>3, ReaderMoves
<1>5. o \in Reading(k) /\ \A j \in Keys : j # k => o \notin Reading(j)
  BY <1>k, <1>t DEF Reading
<1>6. Reading(k)' = Reading(k) \ {o} /\ \A j \in Keys : j # k => Reading(j)' = Reading(j)
  <2>1. \A j \in Keys : j # k => Reading(j) \ {o} = Reading(j)
    BY <1>5
  <2>2. \A j \in Keys : Reading(j)' = Reading(j) \ {o}
    BY <1>1, <1>4
  <2> QED BY <2>1, <2>2
<1>7. \A j \in Keys : Granting(j)' = Granting(j)
  BY <1>t DEF Granting, Granted
<1>8. /\ IsFiniteSet(Reading(k))
      /\ Cardinality(Granting(k)) \in Nat /\ Cardinality(Reading(k)) \in Nat
  BY PinsFinite
<1>9. Cardinality(Reading(k) \ {o}) = Cardinality(Reading(k)) - 1
      /\ Cardinality(Reading(k) \ {o}) \in Nat
  BY <1>5, <1>8, FS_RemoveElement, FS_CardinalityType
<1>10. /\ pins[k] \in Nat /\ pins[k] = Pinning(k) /\ (pins[k] > 0 => k \in files)
       /\ Pinning(k) = Cardinality(Granting(k)) + Cardinality(Reading(k))
  BY <1>t DEF PinsSound, Pinning, Stored
<1>11. /\ Pinning(k)' = pins[k] - 1 /\ pins[k] - 1 \in Nat
       /\ (pins[k] - 1 > 0 => k \in files)
  <2>1. Pinning(k)' = Cardinality(Granting(k))' + Cardinality(Reading(k))'
    BY DEF Pinning
  <2>2. /\ Cardinality(Granting(k))' = Cardinality(Granting(k))
        /\ Cardinality(Reading(k))' = Cardinality(Reading(k)) - 1
    BY <1>6, <1>7, <1>9, <1>t
  <2> QED BY <2>1, <2>2, <1>8, <1>9, <1>10
<1>12. \A j \in Keys : j # k => Pinning(j)' = Pinning(j)
  BY <1>6, <1>7 DEF Pinning
<1>13. PinsSound'
  BY <1>t, <1>11, <1>12, PinsMove
<1> QED BY <1>4, <1>13

-----------------------------------------------------------------------------
(* Runs are cancelled *)

\* What a step from outside does to the runs: it may cancel some.
RunsAt(new) ==
  /\ new \in [Sources -> Runs]
  /\ \A z \in Sources :
       /\ new[z].at = run[z].at /\ new[z].ver = run[z].ver /\ new[z].bytes = run[z].bytes
       /\ run[z].cancelled => new[z].cancelled

\* One run is cancelled, when it is at work.
LEMMA CancelIs ==
  ASSUME RunsSound, NEW s \in Sources
  PROVE  /\ RunsAt(Cancel(s)) /\ (run[s].at # "none" => Cancel(s)[s].cancelled)
         /\ \A z \in Sources : z # s => Cancel(s)[z] = run[z]
<1>t. run \in [Sources -> Runs] /\ run[s] \in Runs
  BY DEF RunsSound
<1>1. CASE run[s].at = "none"
  <2>1. Cancel(s) = run
    BY <1>1 DEF Cancel
  <2> QED BY <1>1, <1>t, <2>1 DEF RunsAt
<1>2. CASE run[s].at # "none"
  <2> DEFINE x == [run[s] EXCEPT !.cancelled = TRUE]
  <2>1. /\ x \in Runs /\ x.at = run[s].at /\ x.ver = run[s].ver /\ x.bytes = run[s].bytes
        /\ x.cancelled
    BY <1>t DEF Runs
  <2>2. Cancel(s) = [run EXCEPT ![s] = x]
    BY <1>2, <1>t DEF Cancel
  <2> HIDE DEF x
  <2>3. /\ Cancel(s) \in [Sources -> Runs] /\ Cancel(s)[s] = x
        /\ \A z \in Sources : z # s => Cancel(s)[z] = run[z]
    BY <2>1, <2>2, <1>t
  <2> QED BY <2>1, <2>3 DEF RunsAt
<1> QED BY <1>1, <1>2

\* Runs that a step only cancels are as sound as before.
LEMMA RunsAtSound ==
  ASSUME RunsSound, RunsAt(run'), version' = version
  PROVE  RunsSound'
BY DEF RunsSound, RunsAt, RunSound

\* Who goes cancels what nobody views any more, and nothing else.
LEMMA WithoutOrphansIs ==
  ASSUME RunsSound, run' = WithoutOrphans(viewer')
  PROVE  /\ RunsAt(run')
         /\ \A s \in Sources :
              /\ Viewers(viewer', s) = {} /\ run[s].at # "none" => run'[s].cancelled
              /\ Viewers(viewer', s) # {} => run'[s] = run[s]
<1>1. run' = [s \in Sources |-> IF Viewers(viewer', s) = {} THEN Cancel(s)[s] ELSE run[s]]
  BY DEF WithoutOrphans
<1>2. ASSUME NEW s \in Sources
      PROVE  /\ Cancel(s)[s] \in Runs /\ Cancel(s)[s].at = run[s].at
             /\ Cancel(s)[s].ver = run[s].ver /\ Cancel(s)[s].bytes = run[s].bytes
             /\ run[s].cancelled => Cancel(s)[s].cancelled
             /\ run[s].at # "none" => Cancel(s)[s].cancelled
  BY <1>2, CancelIs DEF RunsAt
<1>3. ASSUME NEW s \in Sources
      PROVE  /\ run'[s] \in Runs /\ run'[s].at = run[s].at
             /\ run'[s].ver = run[s].ver /\ run'[s].bytes = run[s].bytes
             /\ run[s].cancelled => run'[s].cancelled
             /\ Viewers(viewer', s) = {} /\ run[s].at # "none" => run'[s].cancelled
             /\ Viewers(viewer', s) # {} => run'[s] = run[s]
  <2>1. CASE Viewers(viewer', s) = {}
    <3>1. run'[s] = Cancel(s)[s]
      BY <1>1, <2>1
    <3> QED BY <1>2, <2>1, <3>1
  <2>2. CASE Viewers(viewer', s) # {}
    <3>1. run'[s] = run[s] /\ run[s] \in Runs
      BY <1>1, <2>2 DEF RunsSound
    <3> QED BY <2>2, <3>1
  <2> QED BY <2>1, <2>2
<1>4. run' \in [Sources -> Runs]
  BY <1>1, <1>3
<1> QED BY <1>3, <1>4 DEF RunsAt

\* What no step makes of a run another viewer asked for
WorkGoesOn ==
  \A s \in Running :
    ~run[s].cancelled /\ run'[s].cancelled /\ closer' = closer =>
      \/ Asking(viewer', s) = {}
      \/ RunTimeout(s)

\* Nobody works for nobody, when who has no viewer after a step had none before.
LEMMA OrphansStay ==
  ASSUME NoOrphans,
         \A s \in Sources : Viewers(viewer', s) = {} /\ run'[s].at # "none" =>
           /\ Viewers(viewer, s) = {} /\ run[s].at # "none"
           /\ run[s].cancelled => run'[s].cancelled
  PROVE  NoOrphans'
BY DEF NoOrphans, Running

\* Runs whose cancellation does not change
LEMMA SameRunsGo ==
  ASSUME SameRuns, viewer' = viewer, NoOrphans
  PROVE  NoOrphans' /\ WorkGoesOn
<1>1. NoOrphans'
  BY DEF SameRuns, NoOrphans, Running
<1>2. WorkGoesOn
  BY DEF SameRuns, WorkGoesOn, Running
<1> QED BY <1>1, <1>2

\* Nobody asks for a track that nobody views.
LEMMA NoViewerAsks ==
  ASSUME NEW s \in Sources, Viewers(viewer', s) = {}
  PROVE  Asking(viewer', s) = {}
BY DEF Viewers, Asking, Asks

-----------------------------------------------------------------------------
(* What a step does not touch *)

\* Tracks and the jobs they belong to
LEMMA TracksStay ==
  ASSUME TracksSound, UNCHANGED track, jobs' \subseteq Sources
  PROVE  TracksSound'
BY DEF TracksSound

\* Runs and the versions of their sources
LEMMA RunsStay ==
  ASSUME RunsSound, UNCHANGED <<run, version>>
  PROVE  RunsSound'
BY DEF RunsSound

\* Viewers, grants and requests
LEMMA LeasesUnmoved ==
  ASSUME LeasesSound, UNCHANGED <<viewer, grant, request>>
  PROVE  LeasesSound'
<1>1. ViewersTyped' /\ GrantsTyped' /\ RequestsTyped'
  BY DEF LeasesSound, ViewersTyped, GrantsTyped, RequestsTyped
<1>2. GrantsLeased' /\ RequestsLeased'
  BY DEF LeasesSound, GrantsLeased, Granted, RequestsLeased, Waiting
<1>3. TakenOver'
  BY DEF LeasesSound, TakenOver, Waiting
<1> QED BY <1>1, <1>2, <1>3 DEF LeasesSound

\* Readers
LEMMA ReadersStay ==
  ASSUME ReadersSound, UNCHANGED reader
  PROVE  ReadersSound'
BY DEF ReadersSound

\* The store and what its artifacts were made from
LEMMA ShelfStays ==
  ASSUME ShelfSound, UNCHANGED <<files, content>>
  PROVE  ShelfSound'
BY DEF ShelfSound, NeverMixed

\* The pins, when no grant and no reader moves and the store keeps what is pinned
LEMMA PinsStay ==
  ASSUME PinsSound, PinnedStay, UNCHANGED <<grant, reader>>
  PROVE  PinsSound'
<1>1. \A k \in Keys : Granting(k)' = Granting(k) /\ Reading(k)' = Reading(k)
  BY DEF Granting, Granted, Reading
<1> QED BY <1>1, PinsSame

\* Who views what is worked on
LEMMA OrphansUnmoved ==
  ASSUME NoOrphans, UNCHANGED <<viewer, run>>
  PROVE  NoOrphans' /\ WorkGoesOn
BY DEF NoOrphans, Running, WorkGoesOn

-----------------------------------------------------------------------------
(* Every step keeps the invariant *)

\* What is shown of every step
Kept == IInv' /\ WorkGoesOn

\* A run turns: it stays as cancelled as it was, or is over.
LEMMA TurnKeeps ==
  ASSUME RunsSound, NoOrphans, NEW s \in Sources, NEW x \in Runs, RunTurn(s, x),
         version' = version, viewer' = viewer
  PROVE  RunsSound' /\ NoOrphans' /\ WorkGoesOn
<1>t. /\ run \in [Sources -> Runs] /\ version \in [Sources -> Versions]
      /\ \A z \in Sources : RunSound(run[z], version[z])
  BY DEF RunsSound
<1>1. /\ run' \in [Sources -> Runs] /\ run'[s] = x
      /\ \A z \in Sources : z # s => run'[z] = run[z]
  BY <1>t DEF RunTurn
<1>2. RunsSound'
  BY <1>1, <1>t DEF RunsSound, RunTurn
<1>3. \A z \in Sources : run'[z].at # "none" =>
        run[z].at # "none" /\ (run'[z].cancelled <=> run[z].cancelled)
  BY <1>1 DEF RunTurn
<1>4. \A z \in Sources : run'[z].cancelled => run[z].cancelled
  BY <1>1 DEF RunTurn
<1>5. NoOrphans'
  BY <1>3 DEF NoOrphans, Running
<1>6. WorkGoesOn
  BY <1>4 DEF WorkGoesOn, Running
<1> QED BY <1>2, <1>5, <1>6

\* The steps of a run
LEMMA RunStepKeeps ==
  ASSUME IInv, SubtitlesAssumption, NEW s \in Sources, RunStep(s)
  PROVE  Kept
<1>0. UNCHANGED <<jobs, viewer, grant, version, request, reader, closer>>
  BY DEF RunStep, RunFinish, RunProbe, RunFetch, RunSelect, RunValidate, RunRead,
         RunVerify, RunOnly
<1>1. TracksSound' /\ ShelfSound' /\ PinnedStay
  BY RunStepStores DEF IInv
<1>2. PICK x \in Runs : RunTurn(s, x)
  BY RunStepTurns DEF IInv, LeasesSound
<1>3. RunsSound' /\ NoOrphans' /\ WorkGoesOn
  BY <1>0, <1>2, TurnKeeps DEF IInv
<1>4. LeasesSound' /\ ReadersSound'
  BY <1>0, LeasesUnmoved, ReadersStay DEF IInv
<1>5. PinsSound'
  BY <1>0, <1>1, PinsStay DEF IInv
<1> QED BY <1>1, <1>3, <1>4, <1>5 DEF IInv, Kept

\* A run that exceeds its time is cancelled, which is what the property excepts.
LEMMA TimeoutKeeps ==
  ASSUME IInv, NEW s \in Sources, RunTimeout(s)
  PROVE  Kept
<1>0. /\ UNCHANGED <<jobs, viewer, track, grant, store, version, request, reader, closer>>
      /\ run' = Cancel(s)
  BY DEF RunTimeout
<1>1. TracksSound' /\ ShelfSound' /\ PinnedStay
  BY <1>0, StoreStays, TracksStay DEF IInv, TracksSound
<1>2. /\ RunsAt(run')
      /\ \A z \in Sources : z # s => run'[z] = run[z]
  BY <1>0, CancelIs DEF IInv
<1>3. RunsSound'
  BY <1>0, <1>2, RunsAtSound DEF IInv
<1>4. NoOrphans'
  BY <1>0, <1>2 DEF IInv, NoOrphans, Running, RunsAt
<1>5. WorkGoesOn
  BY <1>2 DEF WorkGoesOn, Running
<1>6. LeasesSound' /\ ReadersSound'
  BY <1>0, LeasesUnmoved, ReadersStay DEF IInv
<1>7. PinsSound'
  BY <1>0, <1>1, PinsStay DEF IInv
<1> QED BY <1>1, <1>3, <1>4, <1>5, <1>6, <1>7 DEF IInv, Kept

\* A job that nobody used for long is forgotten, with its track.
LEMMA ForgetKeeps ==
  ASSUME IInv, NEW s \in Sources, Forget(s)
  PROVE  Kept
<1>0. /\ UNCHANGED <<viewer, run, grant, store, version, request, reader, closer>>
      /\ jobs' = jobs \ {s} /\ track' = [track EXCEPT ![s] = Unprobed]
  BY DEF Forget
<1>1. TracksSound'
  <2>1. Unprobed \in Tracks /\ Unprobed.state # "ready"
    BY DEF Unprobed, Tracks, States, Reasons
  <2>2. track \in [Sources -> Tracks] /\ jobs \subseteq Sources
    BY DEF IInv, TracksSound
  <2>3. /\ track' \in [Sources -> Tracks] /\ track'[s].state # "ready"
        /\ \A z \in Sources : z # s => track'[z] = track[z]
    BY <1>0, <2>1, <2>2
  <2> QED BY <1>0, <2>2, <2>3 DEF IInv, TracksSound
<1>2. ShelfSound' /\ PinnedStay
  BY <1>0, StoreStays DEF IInv
<1>3. PinsSound' /\ LeasesSound' /\ ReadersSound'
  BY <1>0, <1>2, PinsStay, LeasesUnmoved, ReadersStay DEF IInv
<1>4. RunsSound' /\ NoOrphans' /\ WorkGoesOn
  BY <1>0, RunsStay, OrphansUnmoved DEF IInv
<1> QED BY <1>1, <1>2, <1>3, <1>4 DEF IInv, Kept

\* A source that is replaced adds a version to those its runs may have read.
LEMMA ReplaceKeeps ==
  ASSUME IInv, SubtitlesAssumption, NEW s \in Sources, Replace(s)
  PROVE  Kept
<1>0. /\ UNCHANGED <<jobs, viewer, track, run, grant, store, request, reader, closer>>
      /\ version[s] < MaxVersion /\ version' = [version EXCEPT ![s] = version[s] + 1]
  BY DEF Replace
<1>1. TracksSound' /\ ShelfSound' /\ PinnedStay
  BY <1>0, StoreStays, TracksStay DEF IInv, TracksSound
<1>2. PinsSound' /\ LeasesSound' /\ ReadersSound'
  BY <1>0, <1>1, PinsStay, LeasesUnmoved, ReadersStay DEF IInv
<1>3. NoOrphans' /\ WorkGoesOn
  BY <1>0, OrphansUnmoved DEF IInv
<1>4. RunsSound'
  <2>1. /\ run \in [Sources -> Runs] /\ version \in [Sources -> Versions]
        /\ \A z \in Sources : RunSound(run[z], version[z])
    BY DEF IInv, RunsSound
  <2>2. MaxVersion \in Nat /\ version[s] \in Nat /\ version[s] >= 1
    BY <2>1 DEF SubtitlesAssumption, Versions
  <2>3. version[s] + 1 \in Versions
    BY <1>0, <2>2 DEF Versions
  <2>4. /\ version' \in [Sources -> Versions] /\ version'[s] = version[s] + 1
        /\ \A z \in Sources : z # s => version'[z] = version[z]
    BY <1>0, <2>1, <2>3
  <2>5. RunSound(run[s], version[s] + 1)
    <3>1. RunSound(run[s], version[s])
      BY <2>1
    <3>2. \A m \in Nat : m..version[s] \subseteq m..(version[s] + 1)
      BY <2>2
    <3> QED BY <2>2, <3>1, <3>2 DEF RunSound
  <2> QED BY <1>0, <2>1, <2>4, <2>5 DEF RunsSound
<1> QED BY <1>1, <1>2, <1>3, <1>4 DEF IInv, Kept

\* Close cancels every run.
LEMMA CloseKeeps ==
  ASSUME IInv, CloseBegin \/ CloseEnd
  PROVE  Kept
<1>0. UNCHANGED <<jobs, viewer, track, grant, store, version, request, reader>>
  BY DEF CloseBegin, CloseEnd
<1>1. TracksSound' /\ ShelfSound' /\ PinnedStay
  BY <1>0, StoreStays, TracksStay DEF IInv, TracksSound
<1>2. PinsSound' /\ LeasesSound' /\ ReadersSound'
  BY <1>0, <1>1, PinsStay, LeasesUnmoved, ReadersStay DEF IInv
<1>3. CASE CloseEnd
  <2>1. UNCHANGED run
    BY <1>3 DEF CloseEnd
  <2> QED BY <1>0, <1>1, <1>2, <2>1, RunsStay, OrphansUnmoved DEF IInv, Kept
<1>4. CASE CloseBegin
  <2>1. run' = [s \in Sources |-> Cancel(s)[s]] /\ closer' # closer
    BY <1>4 DEF CloseBegin
  <2>2. ASSUME NEW s \in Sources
        PROVE  /\ run'[s] \in Runs /\ run'[s].at = run[s].at /\ run'[s].ver = run[s].ver
               /\ run'[s].bytes = run[s].bytes
               /\ run[s].cancelled => run'[s].cancelled
    <3>1. RunsAt(Cancel(s))
      BY CancelIs DEF IInv
    <3> QED BY <2>1, <3>1 DEF RunsAt
  <2>3. RunsAt(run')
    <3>1. run' \in [Sources -> Runs]
      BY <2>1, <2>2
    <3> QED BY <2>2, <3>1 DEF RunsAt
  <2>4. RunsSound'
    BY <1>0, <2>3, RunsAtSound DEF IInv
  <2>5. NoOrphans'
    BY <1>0, <2>2 DEF IInv, NoOrphans, Running
  <2>6. WorkGoesOn
    BY <2>1 DEF WorkGoesOn
  <2> QED BY <1>1, <1>2, <2>4, <2>5, <2>6 DEF IInv, Kept
<1> QED BY <1>3, <1>4

\* The steps of a reader
LEMMA ReaderKeeps ==
  ASSUME IInv, SubtitlesAssumption, NEW o \in Readers,
         \/ OpenLookup(o) \/ OpenRefused(o) \/ OpenCheck(o)
         \/ OpenServe(o) \/ CloseReader(o)
  PROVE  Kept
<1>0. UNCHANGED <<jobs, viewer, grant, version, request, closer, files, content>>
  BY DEF OpenLookup, OpenRefused, OpenCheck, OpenServe, CloseReader, store
<1>1. LeasesSound' /\ ShelfSound'
  BY <1>0, LeasesUnmoved, ShelfStays DEF IInv
<1>2. ReadersSound' /\ PinsSound'
  BY LookupKeeps, RefusedKeeps, CheckKeeps, ServeKeeps, CloseReaderKeeps DEF IInv
<1>3. CASE OpenCheck(o)
  <2>1. TracksSound' /\ RunsSound' /\ SameRuns
    BY <1>3, CheckKeeps DEF IInv
  <2> QED BY <1>0, <1>1, <1>2, <2>1, SameRunsGo DEF IInv, Kept
<1>4. CASE UNCHANGED <<track, run>>
  <2>1. TracksSound'
    BY <1>0, <1>4, TracksStay DEF IInv, TracksSound
  <2>2. RunsSound' /\ NoOrphans' /\ WorkGoesOn
    BY <1>0, <1>4, RunsStay, OrphansUnmoved DEF IInv
  <2> QED BY <1>1, <1>2, <2>1, <2>2 DEF IInv, Kept
<1> QED BY <1>3, <1>4 DEF OpenLookup, OpenRefused, OpenServe, CloseReader

\* A run of s starts when none is at work.
LEMMA StartKeeps ==
  ASSUME RunsSound, NEW s \in Sources, run[s].at = "none",
         run' = [run EXCEPT ![s].at = "probe"], version' = version
  PROVE  /\ RunsSound'
         /\ \A z \in Sources : z # s => run'[z] = run[z]
         /\ run'[s].cancelled <=> run[s].cancelled
<1> DEFINE x == [run[s] EXCEPT !.at = "probe"]
<1>t. /\ run \in [Sources -> Runs] /\ run[s] \in Runs
      /\ version \in [Sources -> Versions]
      /\ \A z \in Sources : RunSound(run[z], version[z])
  BY DEF RunsSound
<1>1. x \in Runs /\ x.at = "probe" /\ x.bytes = run[s].bytes
  BY <1>t DEF Runs, Places
<1>2. x.cancelled <=> run[s].cancelled
  BY <1>t DEF Runs
<1>3. run' = [run EXCEPT ![s] = x]
  BY <1>t
<1> HIDE DEF x
<1>4. RunSound(x, version[s])
  BY <1>1, <1>t DEF RunSound
<1>5. run' \in [Sources -> Runs] /\ run'[s] = x
      /\ \A z \in Sources : z # s => run'[z] = run[z]
  BY <1>1, <1>3, <1>t
<1> QED BY <1>2, <1>4, <1>5, <1>t DEF RunsSound

\* A request is admitted: the run of its source starts, goes on, or is cancelled when a
\* preview went and nobody asks for the track.
LEMMA AdmitKeeps ==
  ASSUME IInv, SubtitlesAssumption, NEW r \in Requests, Admit(r)
  PROVE  Kept
<1>1. PICK s \in Sources, p \in Playbacks, sel \in Selections :
       LET old == viewer[s][p]
           gone == IF sel.playback THEN Previews(p, s) ELSE {}
           vs == [viewer EXCEPT ![s] = [q \in Playbacks |->
                    IF q = p THEN Admission(old, sel, r)
                    ELSE IF q \in gone THEN Nothing ELSE viewer[s][q]]]
           stopped == IF sel.playback
                      THEN AfterAdoption(vs, s, gone # {} \/ (old # Nothing /\ ~old.playback))
                      ELSE run
       IN /\ s \in jobs \/ sel.probe
          /\ jobs' = jobs \cup {s}
          /\ viewer' = vs
          /\ grant' = Adopted(gone, s, p, r)
          /\ \E start \in IF sel.probe THEN MayStart(vs, s) ELSE {FALSE} :
               run' = IF start THEN [run EXCEPT ![s].at = "probe"] ELSE stopped
          /\ request' = [Disowned(s, gone) EXCEPT ![r] =
                           [at |-> "waiting", src |-> s, play |-> p,
                            created |-> old = Nothing, owed |-> TRUE]]
  BY DEF Admit
<1> DEFINE gone == IF sel.playback THEN Previews(p, s) ELSE {}
<1>0. UNCHANGED <<track, store, version, reader, closer>>
  BY DEF Admit
<1>2. gone \in SUBSET Playbacks /\ p \notin gone
  BY DEF Previews
<1>3. /\ jobs' = jobs \cup {s}
      /\ viewer' = [viewer EXCEPT ![s] = [q \in Playbacks |->
                      IF q = p THEN Admission(viewer[s][p], sel, r)
                      ELSE IF q \in gone THEN Nothing ELSE viewer[s][q]]]
      /\ grant' = Adopted(gone, s, p, r)
  BY <1>1
<1>4. PICK fresh \in BOOLEAN : /\ fresh => viewer[s][p] = Nothing
                               /\ request' = [Disowned(s, gone) EXCEPT ![r] =
                                                Admitted(s, p, fresh)]
  <2>1. /\ (viewer[s][p] = Nothing) \in BOOLEAN
        /\ request' = [Disowned(s, gone) EXCEPT ![r] =
                         Admitted(s, p, viewer[s][p] = Nothing)]
    BY <1>1 DEF Admitted
  <2> QED BY <2>1
<1>5. \/ run' = run
      \/ run' = [run EXCEPT ![s].at = "probe"] /\ run[s].at = "none"
      \/ run' = Cancel(s) /\ Asking(viewer', s) = {}
  <2>1. PICK start \in IF sel.probe THEN MayStart(viewer', s) ELSE {FALSE} :
          run' = IF start THEN [run EXCEPT ![s].at = "probe"]
                 ELSE IF sel.playback
                      THEN AfterAdoption(viewer', s,
                             gone # {} \/ (viewer[s][p] # Nothing /\ ~viewer[s][p].playback))
                      ELSE run
    BY <1>1
  <2> HIDE DEF gone
  <2>2. CASE start
    <3>1. run[s].at = "none"
      BY <2>1, <2>2 DEF MayStart
    <3> QED BY <2>1, <2>2, <3>1
  <2>3. CASE ~start
    BY <2>1, <2>3 DEF AfterAdoption
  <2> QED BY <2>2, <2>3
<1> HIDE DEF gone
<1>6. LeasesSound' /\ SameGrants
  BY <1>2, <1>3, <1>4, AdmitLeases DEF IInv
<1>v. /\ p \in Viewers(viewer', s)
      /\ \A z \in Sources : z # s => viewer'[z] = viewer[z]
  <2>1. viewer \in [Sources -> [Playbacks -> Admissions \cup {Nothing}]]
    BY DEF IInv, LeasesSound, ViewersTyped
  <2>2. viewer'[s][p] = Admission(viewer[s][p], sel, r)
    BY <1>3, <2>1
  <2>3. viewer[s][p] \in Admissions \cup {Nothing}
    BY <2>1
  <2>4. viewer'[s][p] # Nothing
    BY <2>2, <2>3, AdmissionIs
  <2>5. \A z \in Sources : z # s => viewer'[z] = viewer[z]
    BY <1>3, <2>1
  <2> QED BY <2>4, <2>5 DEF Viewers
<1>7. ShelfSound' /\ PinnedStay
  BY <1>0, StoreStays DEF IInv
<1>8. PinsSound'
  <2>1. \A k \in Keys : Granting(k)' = Granting(k) /\ Reading(k)' = Reading(k)
    BY <1>0, <1>6, GrantingSame DEF Reading
  <2> QED BY <1>7, <2>1, PinsSame DEF IInv
<1>9. TracksSound' /\ ReadersSound'
  <2>1. jobs' \subseteq Sources
    BY <1>3 DEF IInv, TracksSound
  <2> QED BY <1>0, <2>1, TracksStay, ReadersStay DEF IInv
<1>10. /\ RunsSound'
       /\ \A z \in Sources : z # s => run'[z] = run[z]
       /\ run'[s].cancelled /\ ~run[s].cancelled => Asking(viewer', s) = {}
  <2>1. CASE run' = run
    BY <1>0, <2>1, RunsStay DEF IInv
  <2>2. CASE run' = [run EXCEPT ![s].at = "probe"] /\ run[s].at = "none"
    BY <1>0, <2>2, StartKeeps DEF IInv
  <2>3. CASE run' = Cancel(s) /\ Asking(viewer', s) = {}
    <3>1. RunsAt(run') /\ \A z \in Sources : z # s => run'[z] = run[z]
      BY <2>3, CancelIs DEF IInv
    <3>2. RunsSound'
      BY <1>0, <3>1, RunsAtSound DEF IInv
    <3> QED BY <2>3, <3>1, <3>2
  <2> QED BY <1>5, <2>1, <2>2, <2>3
<1>11. NoOrphans'
  <2>1. \A z \in Sources : Viewers(viewer', z) = {} => z # s /\ Viewers(viewer, z) = {}
    BY <1>v DEF Viewers
  <2>2. \A z \in Sources : Viewers(viewer', z) = {} /\ run'[z].at # "none" =>
          /\ Viewers(viewer, z) = {} /\ run[z].at # "none"
          /\ run[z].cancelled => run'[z].cancelled
    BY <1>10, <2>1
  <2> QED BY <2>2, OrphansStay DEF IInv
<1>12. WorkGoesOn
  BY <1>10 DEF WorkGoesOn, Running
<1> QED BY <1>6, <1>7, <1>8, <1>9, <1>10, <1>11, <1>12 DEF IInv, Kept

\* A request goes without an answer.
LEMMA DisconnectKeeps ==
  ASSUME IInv, SubtitlesAssumption, NEW r \in Requests, Disconnect(r) \/ Refused(r)
  PROVE  Kept
<1>0. UNCHANGED <<jobs, track, grant, store, version, reader, closer>>
  BY DEF Disconnect, Refused
<1>1. TracksSound' /\ ShelfSound' /\ PinnedStay /\ ReadersSound'
  BY <1>0, StoreStays, TracksStay, ReadersStay DEF IInv, TracksSound
<1>2. PinsSound'
  BY <1>0, <1>1, PinsStay DEF IInv
<1>3. ASSUME UNCHANGED <<viewer, run>>
      PROVE  RunsSound' /\ NoOrphans' /\ WorkGoesOn
  BY <1>0, <1>3, RunsStay, OrphansUnmoved DEF IInv
<1>4. CASE Refused(r)
  <2>1. /\ UNCHANGED <<viewer, run>> /\ request' = Over(r)
        /\ RequestsTyped
    BY <1>4 DEF Refused, IInv, LeasesSound
  <2>2. /\ RequestsTyped'
        /\ \A q \in Requests : request'[q].at = "waiting" =>
             q # r /\ request'[q] = request[q]
    BY <2>1, OverIs
  <2>3. GrantsTyped' /\ GrantsLeased'
    BY <1>0, <2>1 DEF IInv, LeasesSound, GrantsTyped, GrantsLeased, Granted
  <2>4. LeasesSound'
    BY <2>1, <2>2, <2>3, LeasesStay DEF IInv
  <2> QED BY <1>1, <1>2, <1>3, <2>1, <2>4 DEF IInv, Kept
<1>5. CASE Disconnect(r)
  <2>1. LeasesSound'
    BY <1>5, DisconnectLeases DEF IInv
  <2>2. CASE UNCHANGED <<viewer, run>>
    BY <1>1, <1>2, <1>3, <2>1, <2>2 DEF IInv, Kept
  <2>3. CASE run' = WithoutOrphans(viewer')
    <3>1. /\ RunsAt(run')
          /\ \A s \in Sources :
               /\ Viewers(viewer', s) = {} /\ run[s].at # "none" => run'[s].cancelled
               /\ Viewers(viewer', s) # {} => run'[s] = run[s]
      BY <2>3, WithoutOrphansIs DEF IInv
    <3>2. RunsSound'
      BY <1>0, <3>1, RunsAtSound DEF IInv
    <3>3. NoOrphans'
      BY <3>1 DEF NoOrphans, Running, RunsAt
    <3>4. WorkGoesOn
      BY <3>1, NoViewerAsks DEF WorkGoesOn, Running
    <3> QED BY <1>1, <1>2, <2>1, <3>2, <3>3, <3>4 DEF IInv, Kept
  <2> QED BY <1>5, <2>2, <2>3 DEF Disconnect
<1> QED BY <1>4, <1>5

\* The answer to a request
LEMMA ReturnKeeps ==
  ASSUME IInv, SubtitlesAssumption, NEW r \in Requests, Return(r)
  PROVE  Kept
<1>0. UNCHANGED <<jobs, viewer, run, files, content, version, reader, closer>>
  BY DEF Return
<1>1. LeasesSound' /\ TracksSound' /\ ReturnGrants(r)
  BY ReturnLeases DEF IInv
<1>2. PinsSound'
  BY <1>0, <1>1, ReturnPins DEF IInv
<1>3. ShelfSound' /\ ReadersSound' /\ RunsSound'
  BY <1>0, ShelfStays, ReadersStay, RunsStay DEF IInv
<1>4. NoOrphans' /\ WorkGoesOn
  BY <1>0, OrphansUnmoved DEF IInv
<1> QED BY <1>1, <1>2, <1>3, <1>4 DEF IInv, Kept

\* Playbacks end, by End or by the maintenance.
LEMMA EndKeeps ==
  ASSUME IInv, SubtitlesAssumption, NEW ps \in SUBSET Playbacks, EndAll(ps),
         UNCHANGED <<jobs, track, files, content, version, reader, closer>>
  PROVE  Kept
<1> DEFINE G == {g \in Granted : grant[g].play \in ps}
<1>1. LeasesSound' /\ GrantsGo(G)
  BY EndLeases DEF IInv
<1>2. PinsSound'
  <2>1. /\ G \in SUBSET Granted
        /\ pins' = [k \in Keys |->
                      pins[k] - (IF Stored(k)
                                 THEN Cardinality({g \in G : grant[g].key = k}) ELSE 0)]
    BY DEF EndAll
  <2> HIDE DEF G
  <2> QED BY <1>1, <2>1, EndPins DEF IInv
<1>3. TracksSound' /\ ShelfSound' /\ ReadersSound'
  BY ShelfStays, ReadersStay, TracksStay DEF IInv, TracksSound
<1>4. run' = WithoutOrphans(viewer')
  BY DEF EndAll
<1>5. /\ RunsAt(run')
      /\ \A s \in Sources :
           /\ Viewers(viewer', s) = {} /\ run[s].at # "none" => run'[s].cancelled
           /\ Viewers(viewer', s) # {} => run'[s] = run[s]
  BY <1>4, WithoutOrphansIs DEF IInv
<1>6. RunsSound'
  BY <1>5, RunsAtSound DEF IInv
<1>7. NoOrphans'
  BY <1>5 DEF NoOrphans, Running, RunsAt
<1>8. WorkGoesOn
  BY <1>5, NoViewerAsks DEF WorkGoesOn, Running
<1> QED BY <1>1, <1>2, <1>3, <1>6, <1>7, <1>8 DEF IInv, Kept

\* A playback under another id leaves every run at work.
LEMMA MoveKeeps ==
  ASSUME IInv, SubtitlesAssumption, NEW p \in Playbacks, NEW q \in Playbacks, Move(p, q)
  PROVE  Kept
<1>0. UNCHANGED <<jobs, track, run, store, version, reader, closer>>
  BY DEF Move
<1>1. /\ LeasesSound' /\ SameGrants
      /\ \A s \in Sources : Viewers(viewer, s) # {} => Viewers(viewer', s) # {}
  BY MoveLeases DEF IInv
<1>2. TracksSound' /\ ShelfSound' /\ PinnedStay /\ ReadersSound' /\ RunsSound'
  BY <1>0, StoreStays, TracksStay, ReadersStay, RunsStay DEF IInv, TracksSound
<1>3. PinsSound'
  <2>1. \A k \in Keys : Granting(k)' = Granting(k) /\ Reading(k)' = Reading(k)
    BY <1>0, <1>1, GrantingSame DEF Reading
  <2> QED BY <1>2, <2>1, PinsSame DEF IInv
<1>4. NoOrphans'
  BY <1>0, <1>1, OrphansStay DEF IInv
<1>5. WorkGoesOn
  BY <1>0 DEF WorkGoesOn, Running
<1> QED BY <1>1, <1>2, <1>3, <1>4, <1>5 DEF IInv, Kept

\* Nothing happens.
LEMMA StutterKeeps ==
  ASSUME IInv, UNCHANGED vars
  PROVE  Kept
<1>0. /\ UNCHANGED <<jobs, viewer, track, run, grant, store, version, request, reader>>
      /\ UNCHANGED <<files, content, pins>>
  BY DEF vars, store
<1>1. TracksSound' /\ ShelfSound' /\ PinnedStay /\ ReadersSound'
  BY <1>0, StoreStays, TracksStay, ReadersStay DEF IInv, TracksSound
<1>2. PinsSound' /\ LeasesSound'
  BY <1>0, <1>1, PinsStay, LeasesUnmoved DEF IInv
<1>3. RunsSound' /\ NoOrphans' /\ WorkGoesOn
  BY <1>0, RunsStay, OrphansUnmoved DEF IInv
<1> QED BY <1>1, <1>2, <1>3 DEF IInv, Kept

\* Every step of the manager keeps the invariant and the work others asked for.
LEMMA NextKeeps ==
  ASSUME IInv, SubtitlesAssumption, [Next]_vars
  PROVE  Kept
<1>1. ASSUME NEW r \in Requests, Admit(r) \/ Disconnect(r) \/ Refused(r) \/ Return(r)
      PROVE  Kept
  BY <1>1, AdmitKeeps, DisconnectKeeps, ReturnKeeps
<1>2. ASSUME NEW s \in Sources, RunStep(s) \/ RunTimeout(s) \/ Forget(s) \/ Replace(s)
      PROVE  Kept
  BY <1>2, RunStepKeeps, TimeoutKeeps, ForgetKeeps, ReplaceKeeps
<1>3. ASSUME NEW o \in Readers,
             \/ OpenLookup(o) \/ OpenRefused(o) \/ OpenCheck(o)
             \/ OpenServe(o) \/ CloseReader(o)
      PROVE  Kept
  BY <1>3, ReaderKeeps
<1>4. ASSUME NEW p \in Playbacks, End(p)
      PROVE  Kept
  <2>1. {p} \in SUBSET Playbacks
    OBVIOUS
  <2> QED BY <1>4, <2>1, EndKeeps DEF End
<1>5. ASSUME NEW p \in Playbacks, NEW q \in Playbacks, Move(p, q)
      PROVE  Kept
  BY <1>5, MoveKeeps
<1>6. CASE Maintain
  <2>1. PICK late \in SUBSET Viewing : EndAll(late)
    BY <1>6 DEF Maintain
  <2>2. late \in SUBSET Playbacks
    BY DEF Viewing, Viewers
  <2> QED BY <1>6, <2>1, <2>2, EndKeeps DEF Maintain
<1>7. CASE CloseBegin \/ CloseEnd
  BY <1>7, CloseKeeps
<1>8. CASE UNCHANGED vars
  BY <1>8, StutterKeeps
<1> QED BY <1>1, <1>2, <1>3, <1>4, <1>5, <1>6, <1>7, <1>8 DEF Next

\* The manager starts with nothing.
LEMMA InitHolds ==
  ASSUME Init, SubtitlesAssumption
  PROVE  IInv
<1>0. 1 \in Versions /\ Budget \in Nat
  BY DEF SubtitlesAssumption, Versions
<1>1. TracksSound
  <2>1. Unprobed \in Tracks /\ Unprobed.state # "ready"
    BY DEF Unprobed, Tracks, States, Reasons
  <2>2. jobs = {} /\ track = [s \in Sources |-> Unprobed]
    BY DEF Init
  <2> QED BY <2>1, <2>2 DEF TracksSound
<1>2. RunsSound
  <2>1. NoRun \in Runs /\ NoRun.at = "none" /\ NoRun.bytes = {}
    BY DEF NoRun, Runs, Places
  <2>2. RunSound(NoRun, 1)
    BY <2>1 DEF RunSound
  <2>3. run = [s \in Sources |-> NoRun] /\ version = [s \in Sources |-> 1]
    BY DEF Init
  <2> QED BY <1>0, <2>1, <2>2, <2>3 DEF RunsSound
<1>3. LeasesSound
  <2>1. /\ viewer = [s \in Sources |-> [p \in Playbacks |-> Nothing]]
        /\ grant = [g \in GrantIds |-> Nothing]
        /\ request = [r \in Requests |-> Idle]
    BY DEF Init
  <2>2. Idle \in Calls /\ Idle.at = "idle"
    BY DEF Idle, Calls
  <2>3. ViewersTyped /\ GrantsTyped /\ Granted = {}
    BY <2>1 DEF ViewersTyped, GrantsTyped, Granted
  <2>4. RequestsTyped /\ \A r \in Requests : ~Waiting(r)
    BY <2>1, <2>2 DEF RequestsTyped, Waiting
  <2>5. GrantsLeased /\ RequestsLeased /\ TakenOver
    BY <2>3, <2>4 DEF GrantsLeased, RequestsLeased, TakenOver
  <2> QED BY <2>3, <2>4, <2>5 DEF LeasesSound
<1>4. ReadersSound /\ \A o \in Readers : reader[o].at # "reading"
  <2>1. NotReading \in Opens /\ NotReading.at = "idle"
    BY DEF NotReading, Opens
  <2>2. reader = [o \in Readers |-> NotReading]
    BY DEF Init
  <2> QED BY <2>1, <2>2 DEF ReadersSound
<1>5. ShelfSound
  <2>1. files = {} /\ content = [k \in Keys |-> {}]
    BY DEF Init
  <2>2. IsFiniteSet({}) /\ Cardinality({}) = 0
    BY FS_EmptySet
  <2> QED BY <1>0, <2>1, <2>2 DEF ShelfSound, NeverMixed
<1>6. PinsSound
  <2>1. pins = [k \in Keys |-> 0] /\ Granted = {}
    BY DEF Init, Granted
  <2>2. \A k \in Keys : Granting(k) = {} /\ Reading(k) = {}
    BY <1>4, <2>1 DEF Granting, Reading
  <2>3. Cardinality({}) = 0
    BY FS_EmptySet
  <2>4. \A k \in Keys : Cardinality(Granting(k)) = 0 /\ Cardinality(Reading(k)) = 0
    BY <2>2, <2>3
  <2>5. pins \in [Keys -> Nat] /\ \A k \in Keys : pins[k] = 0
    BY <2>1
  <2> QED BY <2>4, <2>5 DEF PinsSound
<1>7. NoOrphans
  <2>1. NoRun.at = "none" /\ run = [s \in Sources |-> NoRun]
    BY DEF Init, NoRun
  <2>2. Running = {}
    BY <2>1 DEF Running
  <2> QED BY <2>2 DEF NoOrphans
<1> QED BY <1>1, <1>2, <1>3, <1>4, <1>5, <1>6, <1>7 DEF IInv

-----------------------------------------------------------------------------
(* The theorems *)

\* The invariant of the manager holds in every state of every behaviour.
THEOREM Inductive == Spec => []IInv
<1>1. Init => IInv
  BY InitHolds, SubtitlesAssumption
<1>2. IInv /\ [Next]_vars => IInv'
  BY NextKeeps, SubtitlesAssumption DEF Kept
<1> QED BY <1>1, <1>2, PTL DEF Spec

\* What is promised or read is stored and pinned once for each promise and each reader,
\* and the store keeps its budget.
THEOREM PinsAreCounted == Spec => []PinsCounted
<1>1. IInv => PinsCounted
  <2> SUFFICES ASSUME IInv PROVE PinsCounted
    OBVIOUS
  <2>1. TypeOK
    <3>1. \A s \in Sources : track[s] \in Tracks /\ run[s] \in Runs
      BY DEF IInv, TracksSound, RunsSound
    <3>2. \A s \in Sources : /\ track[s].key \in Keys \cup {Nothing}
                             /\ run[s].input \in Requests \cup {Nothing}
      BY <3>1 DEF Tracks, Runs
    <3>3. \A g \in Granted : grant[g] \in Grants
      BY GrantIs, SubtitlesAssumption DEF IInv, LeasesSound, Granted
    <3>4. \A g \in Granted : grant[g].play \in Playbacks /\ grant[g].key \in Keys
      BY <3>3 DEF Grants
    <3>5. pins \in [Keys -> Int] /\ jobs \subseteq Sources
      BY DEF IInv, PinsSound, TracksSound
    <3> QED BY <3>2, <3>4, <3>5 DEF TypeOK
  <2> QED BY <2>1 DEF PinsCounted, IInv, PinsSound, ShelfSound, Granting, Reading
<1> QED BY <1>1, Inductive, PTL

\* Leases keep what is shared, nobody takes the lease of another, and the end of the
\* last one ends the work.
THEOREM SharedIsKept == Spec => []SharedByViewers
<1>1. IInv => SharedByViewers
  BY DEF IInv, LeasesSound, GrantsLeased, RequestsLeased, Waiting, SharedByViewers,
         LeasesHold
<1> QED BY <1>1, Inductive, PTL

\* What is stored for a version of a source was read from that version alone.
THEOREM VersionsApart == Spec => []NeverMixed
<1>1. IInv => NeverMixed
  BY DEF IInv, ShelfSound
<1> QED BY <1>1, Inductive, PTL

\* No viewer stops the extraction another viewer asked for.
THEOREM OthersWorkGoesOn == Spec => WantedWorkGoesOn
<1>1. IInv /\ [Next]_vars =>
        [\A s \in Running :
           ~run[s].cancelled /\ run'[s].cancelled /\ closer' = closer =>
             \/ Asking(viewer', s) = {}
             \/ RunTimeout(s)]_vars
  BY NextKeeps, SubtitlesAssumption DEF Kept, WorkGoesOn
<1> QED BY <1>1, Inductive, PTL DEF Spec, WantedWorkGoesOn

=============================================================================
