# Verification of the gateway

TLA+ models of emby-auth-gateway, checked with TLC, and proofs checked with
TLAPS. Paths below are relative to the repository; unless a directory is given
the files are those of `internal/gateway/`.

The gateway stands between Emby clients and one upstream Emby server. It keeps
its own users and sessions, shares a single upstream login among them, relays
media through a pool of buffers of fixed total size, keeps what its users watched
for itself, caches ranges of the sources it analyses, extracts subtitles, and
converts audio to HLS segments on demand. Administrators change the upstream, its
endpoints and the rules of routing while it runs, and watch its telemetry.

## 1. Inventory

| Component | State | Operations | Hard behaviour | Correct when |
|---|---|---|---|---|
| Media buffer controller, `media_buffer.go` | pool of chunks with generations, requests, leases, a wait queue, counters | register, ask, accept, cancel, release, close, scheduling pass | stale leases of recycled chunks, a grant withdrawn while its wakeup is in the channel, shares that follow the population | no two holders share a buffer, counters are the truth, no waiter is forgotten or overtaken |
| Media copy, `media_buffer_copy.go`, `server.go` | a queue of events, a base buffer, the two goroutines | produce, consume, clean up | closing at every point of the loop; failure of source, client or context | the client gets the bytes of the body in order and the right verdict; nothing is left behind |
| Upstream login, `upstream_auth.go`, `upgrade_retry.go`, `server.go`, `pbstore`, `controlplane` | stored login, one flight, waiting requests | Ensure, Refresh, probe, log in, compare-and-swap, log out, reconfigure | shared flights and abandoned leaders, unknown outcome of a write, an operator at the same time | the stored login is alive; no session leaks unseen; every wait is answered |
| Source range cache, `internal/sourcecache` | entries, fills, pins, reserved bytes, capture queue, files | open, wait, fill, evict, read, capture, close | cancellation of one of several callers, detached fills, files that cannot be removed | counters match files, pinned files stay, cancelling is private, Close ends |
| Segment catalog, `internal/transcode/cache.go` | artifacts, writers, leases, protection | reserve, write, commit, open, evict, drop | eviction against readers and demands, end of a job that is being read | charge matches files, readers keep their file, one artifact per key |
| Transcode manager, `internal/transcode/manager.go`, `worker.go` | jobs, queue, generations, demands, FFmpeg runs | create, open, work, stop, end, maintain, close | a run that is stopped or superseded while it commits | a demand is served or refused; an ended job leaves nothing |
| Subtitle manager and store, `internal/subtitles` | jobs, viewers, grants, artifacts with pins | prepare, probe, fetch, extract, open, end, adopt, move, maintain, close | shared work whose viewers come and go; a source that changes under it | a grant keeps its artifact; work stops exactly when nobody wants it; versions never mix |
| Playback admission, `playback_guard.go`, `server.go` | denials with generations and a clock | deny, clear, suppress reports | a success that began before a later denial | a newer denial survives |
| Playback state and user data, `userdata.go`, `internal/pbstore/store.go` | a row per user and item | progress and stop reports, played, favorite, hide, user data; resolution of rows by the lists | read, ask the upstream, write back; two ways of writing a row | what a user did is not undone by a list |
| Personal library queries, `personalquery.go`, `userdata.go`, `server.go` | child counts; a query in progress | resume, next-up, latest, filtered lists, overlay of a series | a library seen page by page while it changes | lists without gaps or repetitions, no count of a partial page |
| Sessions and logins, `server.go`, `memory_store.go`, `internal/controlplane/user.go` | users, sessions, failure counts | login in steps, logout, create, enable, reset, revoke, upsert | a login that overlaps a change of its user | what was revoked stays revoked; guesses are bounded |
| Administrator sessions, `internal/adminauth` | sessions, tickets, fixed windows | create, touch, check, reauthenticate, issue, consume, log out | checks that take the lock one after another | a ticket confirms once and for its own session; capacity holds |
| Media gate and sources of conversions, `server.go`, `audio_source.go` | a read-write gate; binding, reference and validator of a source | copy, open, refresh, reconfigure with and without force | writer preference; state read before the gate and used behind it | a conversion reads the upstream in use and one version; nobody is stuck |
| Control plane, `internal/controlplane` | one source, its endpoints, rules and login | set up, reconfigure, probe, add, change and delete endpoints, refresh the server's particulars | several steps with the upstream in between; rows with several invariants | one enabled default; rules keep their endpoint; no login is forgotten |
| Routing policy, `internal/pathpolicy`, `internal/routepolicy`, `internal/controlplane/policies.go`, `route_rule.go` | policies and rules | match, decide, select, preview, create, update, delete, install defaults | several rows for one request; optimistic tokens | a denial wins, one rule is first, a save does not bury what its author never saw |
| Telemetry, `internal/telemetry`, `internal/observe`, `media_buffer_live.go` | rings, totals, live list, completions, gauges, the words of a copy | emit, apply, sample, drain, page, observe | clock jumps, late events, capacity, several writers of words without a lock | each event and byte once; a page misses no copy; waits are counted exactly |
| Persistence, `internal/pbstore` | the rows above | compare-and-swap, upsert, revoke | lost acknowledgements | each in the module of its caller |
| Administration API, `internal/adminapi` | none of its own | handlers over the above | none of its own | as above |
| Timeline and packaging, `internal/transcode/timeline.go`, `mp4.go`, `worker.go`, `transport.go`, `observation.go` | the timeline of a job, the splitter of a run | read the index, cut, split the output, publish, show | an index that is not the film's, rounded and wrapped timestamps, FFmpeg that stops anywhere | a published segment is whole and the same whichever run made it |
| Anonymous images, `anonymous_image.go`, `anonymous_image_namespace.go` | the last validation, slots | validate, decide, fetch, hold | a change of the upstream between the validation, the decision and the request | images come only from an upstream that proved to be the configured one, lately |
| Response rewriting, Matroska index, web client host, schema, process start, frontend | see section 7 | | | not modelled, or only where another component needs it |

The components meet in these places. A media copy asks the controller for
optional buffers and hands them back (calls and one wakeup channel per request),
and both write the words an observer reads. Every proxied request takes its login
from the shared authenticator, which writes to the store that the control plane
writes to as well. Copies and conversions hold the media gate, which a forced
reconfiguration waits for. Subtitle extraction and conversions read the source
through the range cache, into which media copies feed the pages they happen to
see. An HLS request waits in the transcode manager for a segment that a worker
puts into the catalog, cut out of FFmpeg's output along the timeline. Anonymous
images depend on a validation of the upstream the control plane may change at any
time. Reports of playback and lists meet in the rows of user data, and a
reconfiguration needs a ticket of an administrator's session.

## 2. Plan

Written, in this order: `MediaBuffer` and its proofs (every byte of media passes
through it, and it has the most intricate invariant); `MediaPipe` and
`MediaCopy`; `UpstreamAuth`; `SourceCache`; `SegmentStore`, `SegmentCache` and
`Transcode`; `Subtitles`; `Playback` and `PersonalLists`; `Access`, `AdminAuth`
and `SourceAccess`; `Telemetry`, `BufferHistory` and `BufferObserver`;
`ControlPlane` and `Policies`; `Packaging` and `AnonymousImages`; and `MCGateway`,
which puts the last twelve into one run.

Left to write: the outgoing identities of clients, and the composition of
`Packaging` with `Transcode`, so that a window which lacks its segment meets the
demand that waits for it.

Abstract specifications: a copy is a pipe (`MediaPipe`), the catalog a store that
may forget what nobody holds (`SegmentStore`), and the manager works on that
promise alone. The range cache as a function from ranges to bytes is worth stating
too.

Theorems, in the order of their worth: the controller, its account, its shares and
its order (done); that the catalog implements the store and its account is right
(done); the login (done); the jobs of the manager and their demands (done); that a
media copy is a pipe and leaves no buffer behind, over the lemmas of the controller
(done); the account and the index of the range cache, the privacy of a cancellation and
its Close (done); the pins, leases, versions and shared work of the subtitle manager
(done); eight components around the media path, among them `RevokedForGood` (`Access`),
`ConfirmedOnce` (`AdminAuth`), `BoundToUpstream` (`SourceAccess`) and `LoginsAccounted`
(`ControlPlane`) (done).

## 3. Modules

An operator whose name ends in `_Faulty` is used by no definition: it is a variant
with a plausible bug, and serves to test that the properties notice the bug.
`TypeOK` is the first conjunct of a module's main invariant. `Nothing` and
`Nobody` stand for nil, an empty field or an absent row.

### MediaBuffer: `media_buffer.go`

| TLA+ | Code |
|---|---|
| `pool` (`active`, `target`, `owned`, `waiters`, `pending`, `chunks`, `owner`, `gen`, `free`, ...) | the fields of `mediaBufferController`, of its requests and of its chunks; the comments of `Controllers` name them |
| `pool.notify` | the one-slot wakeup channel of a request |
| `outstanding` | ghost: the leases callers accepted and have not given back |
| `Register`, `RequestOptional`, `AcceptOptional`, `CancelOptional`, `ReleaseOptional`, `Unregister`, `Close` | the operations, one atomic step each: the code holds the mutex throughout |
| `Schedule` with `CanGrant`, `Entitled`, `Room` | `scheduleLocked` |

A scheduling pass is part of the operation that runs it, so the model has no
state the mutex hides. The queue is kept as each waiter's set of predecessors.
Generations are the number of grants of a chunk, bounded by `MaxGrants`.

### MediaPipe and MediaCopy: `media_buffer_copy.go`, `server.go:1990-2160`

`MediaPipe` says what a copy is for: what is written to the client is a prefix of
what was read, never more than announced, and it succeeds only when the whole
body went through. `MediaCopy` has the producer and the consumer of the code as
two processes with a step between any two lock, channel, read or write
operations, the queue and the base buffer; it extends `MediaBuffer` and its steps
call the operations of the controller. `PipeSpec` is `MediaPipe` under the
refinement mapping.

A body is a number of blocks, and `memory` remembers for each buffer whose block
it holds and which, so that writing another response's bytes, or the same twice,
is visible.

### UpstreamAuth: `upstream_auth.go`, `upgrade_retry.go`, `server.go:850-960`

Requests (`Callers`) load a login, use it, meet a 401 or not, and ask for
another; the flight is a process of its own with a step per call to the store or
the upstream; the operator loads, logs in, and commits a reconfiguration.
Calls may fail before or after their effect, and the acknowledgement of the
compare-and-swap may be lost. Sessions are numbered; ghosts record which of them
the gateway still knows of.

### SourceCache: `internal/sourcecache/`

Callers of overlapping ranges, fills as processes, the writer of captured pages,
and Close. The list `c.lru` is kept as each entry's set of those used before it
(`older`), so that an eviction takes the entry without a pin that has none before it. A fill is identified apart from its range, because the code lets a
detached fill run on while a new one of the same range starts. Files can fail to
be created, written and removed; a source can fail, end early, or be silent.

### SegmentStore and SegmentCache: `internal/transcode/cache.go`

`SegmentCache` has the artifacts, for each of them those that were used before it
(`older`, the list `c.lru`), the writers with the bytes they reserved and wrote, the
leases with their pins, the protection of demands, and the disk; a file is the
identity of a writer and of the artifact it becomes. An eviction takes the least set
of unpinned artifacts, with all that are older than a member, that makes room. Each
critical section of the catalog is a step, and the file operations that the code
makes outside of one are steps of their own. Removals that the code ignores the
failure of may fail, each by itself, at most `MaxLeaks` of them in all.
`SegmentStore` is what the manager may rely on: a set of segments that may forget
any of them, but none that is read or protected. `StoreSpec` is the refinement.

### Transcode: `internal/transcode/manager.go`, `worker.go`

| TLA+ | Code |
|---|---|
| `job[j]` | the fields of a job; `count` is `j.demands`, and `older` has for each demand those asked for before it; `prep` the preparation, `made` that it was created |
| `queue` | the channel `m.queue` |
| `worker[w]` | a worker goroutine with the run it is in; `obsolete` says that the generation of the job has moved on since the run began, which the code finds by comparing numbers |
| `opener[o]` | a request in `Open`: in `prepare`, at the top of the loop, asleep on `j.changed`, woken, leaving, or reading |
| `entries`, `wanted`, `held` | the catalog, as a `SegmentStore` |
| `Ask`, `Prepared`, `Register`, `Serve`, `Refuse`, `Sleep`, `GiveUp`, `Release` | the parts of `Open` between two critical sections |
| `Take`, `NoWork`, `StartRun`, `RunInit`, `Fragment`, `WriteSegment`, `CommitSegment`, `WindowComplete`, `RunFails`, `EndRun` | `worker`, `work` with its callbacks, and `runFFmpeg` |
| `StopEncoding`, `LinkReplacement`, `EndJobs`, `Close` | the operations; `EndJobs` is `End`, `EndOwner`, a stop of a replaced job, and the maintenance |

What FFmpeg yields is a choice: any later segment of the window, the end of the
window, or a failure. The idle time and validity of an owner that make the
maintenance end a job are a choice as well.

### Subtitles: `internal/subtitles/manager.go`, `store.go`

| TLA+ | Code |
|---|---|
| `jobs`, `viewer`, `grant`, `files`, `pins` | `m.jobs`, the viewers of a job, `m.grants`, the store with its artifacts |
| `older` | the order of `artifact.last`: for each artifact those used before it |
| `run[s]`, `track[s]` | the goroutine of a job and the state of its text track |
| `content`, `version` | ghosts: the versions an artifact was made from, and the source's own |
| `Admit`, `Disconnect`, `Refused`, `Return` | `Prepare` up to its wait, the withdrawal of its admission, and its ends |
| `RunProbe`, `RunFetch`, `RunSelect`, `RunValidate`, `RunRead`, `RunVerify`, `RunTimeout` | the job's goroutine between its sections and reads |
| `OpenLookup`, `OpenCheck`, `OpenServe`, `CloseReader` | `Open` around the validation it makes without the mutex, and its reader |
| `EndAll`, `Maintain`, `Move`, `Replace`, `CloseBegin`, `CloseEnd` | the operations |

A lease may lapse and a retry come due whenever the maintenance looks, so no clock
is needed. One text track per source.

### Playback: `userdata.go`, `playback_guard.go`, `server.go`, `internal/pbstore/store.go`

`row` is a row of user data, its user's columns and its metadata; `library` the
identity each item has upstream; `op[c]` the request of a client, which reads a
row, asks the upstream and saves in separate steps. `Columns` says which columns a
request is about. `Enrich`, `Save` and `StoreFails` follow the writes of reports
and user data, `Fetch`, `Load`, `Resolve` and `Skip` the lists that resolve rows,
which the store writes by other columns. `guard` holds the denials with their
generation, `InfoBegin` to `InfoFailed` a request for playback information.
`Librarian` removes and renames items; `Age` lets a denial grow old.

### PersonalLists: `personalquery.go`, `userdata.go`, `server.go`, `item_resolution.go`

A query is a `job` that fetches one page or batch at a time (`ResolveBatch`,
`Scan`, `Latest`, `Repair`, `SeriesPage`) until it is resolved; `Change` alters the
library between two of them, and any page may fail. A page of a scan or of a series may
come without a total: a scan that never gets one reports what it shows
(`informed`). The rows are read at the beginning (`Begin`), which ends every list
but latest when it fails; latest goes on and hides nothing. Next-up works on the rows
in its hands (`job.rows`), which `Repair` and each series bring up to date (`Applied`)
before anything is judged by them; they are saved one by one, and any save may fail
(`SaveSome`). `ListsAsMeant` compares the list with `Meant`, the definition of what was
asked for, in a library that did not change; `CountsWhole` holds in any. Batch sizes and
limits of the code are parameters, so that small libraries reach their edges. That an
item upstream may no longer be the one its row is about (the fingerprint) is left to
`Playback`; here a row is of the item with its number.

### Access: `server.go`, `memory_store.go`, `internal/pbstore`, `internal/controlplane/user.go`

A login is four steps: the limiter, the password with the load of the user, the
limiter again, the store. The administrator's operations are transactions.
`known` and `saved` remember when a login read the user and when it was saved.

### AdminAuth: `internal/adminauth/`

A request goes through `LoadSession`, `Touch`, `ValidateCSRF` and what it is for;
each step takes the lock of the store anew. `confirmed` remembers what tickets
confirmed. A session that is gone stays in `session` with how it went.

### SourceAccess: `server.go:80-140`, `audio_source.go`

`Begin`, `Enter` and `Snapshot` are the passage of the gate and the look behind
it; `Attempt`, `Denied`, `Refused`, `Unauthorized`, `UnauthorizedJoins`, `Refresh` and
`Responds` the two attempts of `audioSourceAccess.open`. The writer's preference over new
readers is the guard `ReadersMayEnter`.

`upstream` is what the binding compares, the user of the stored login and the base of
the access's endpoint, with the number of the configuration. `Reconfigure` has the gate
when it changes them; `EndpointEdited` and `LoginRenewed` do not take it. After a 401 a
run goes on with what the renewed login and its endpoint then are, which the code does
not compare again (`renewed`); or with the answer of a login that was under way when it
asked, which may be from before a reconfiguration (`of` is `Nothing`). The server's
identity is compared as well and cannot differ, since a reconfiguration refuses to
replace the stored server.

### Telemetry, BufferHistory, BufferObserver: `internal/telemetry/`, `internal/observe/`, `media_buffer_live.go`, `internal/adminapi/media_buffer.go`

`Telemetry` has the emitter's queue, the registry with its two rings, the expiry
of sessions and playbacks, and the meter of bytes with its sampler; `clock` may
jump either way, and events are applied later than they are stamped. `past` is a
ghost with every addition made.

`BufferHistory` has the live list with its slots and pages, the channel of
completions with two drains, the ring of completions with its evictions, and the
gauges of the sampler; a restart forgets all but a reader's cursor.

`BufferObserver` is one copy: the producer, the consumer and the controller write
timed words; `refreshPoolContention` is three steps of either of two actors.
`waited` is the time really spent.

### ControlPlane: `internal/controlplane/upstream_*.go`, `server_info.go`, `internal/pbstore/store.go`

An administrator's request resolves what was asked, tries the server, logs in,
commits under the fingerprint it loaded, and logs out whichever login is left
over; a probe, the gateway's renewal of the login and the refresh of the server's
particulars run between the steps. A form names an identity, which stands for the user
and the client's particulars; only one that repeats identity, password and URL of a
source with a login changes nothing (`completeNoop`). A login is a number for the token,
the user id and the generation, which are written together, and 0 is none. The
upstream may grant one in an answer that never arrives or lacks the token
(`LoginUnheard`, `RenewUnheard`); the ghost `unheard` keeps these. `UpsertEndpoint` and `DeleteEndpoint` are
transactions with the promotion of a default; `EditRules` gives and takes rules.

### Policies: `internal/pathpolicy`, `internal/routepolicy`, `internal/controlplane/policies.go`, `route_rule.go`

Operators for matching, the orders and the decisions, and the tables with their
operations. A client acts on the list it last fetched (`seen`), with the time of
the row as its token; time is in milliseconds and several saves may fall into one.
A pattern is its segments and whether a star ends it; the star keeps the slash before it.

### Packaging: `internal/transcode/timeline.go`, `mp4.go`, `worker.go`, `transport.go`, `observation.go`

The sample tables of the index, the edits and `makeTimeline` are operators, and so
are `Segment`, the manifest and the ranges the console shows; what the keyframes
should be is stated apart from the lockstep walk (`TimesOfTables`). A film has its
index and its keyframes, which need not agree. A run of FFmpeg (`Start`, `Tables`,
`Split`, `Data`, `EndOfOutput`, `Breaks`) puts out the keyframes from about where it
was told to seek, with rounded timestamps, of which a transport stream sends only
the remainder; `splitFragments` and `splitTransport` differ in the time they read
and in when they write. Segments are published as they are completed and stay when
the run fails. `Transcode` has the jobs around this and takes a segment as one thing.

### AnonymousImages: `anonymous_image.go`, `anonymous_image_namespace.go`

A validation loads the configuration, probes and loads again, all under
`validateMu`; a request takes the snapshot, compares it with the configuration of
the moment and is sent; a whole image needs a slot. The configuration, the servers
and the clock change between any two steps.

### MCGateway

The components under the ten headings from `Playback` on share no state that
matters to their properties, so one run checks them side by side: `unit` says which component a
behaviour is about, and they take turns in using the same variables, the cells.
That is no composition in the sense of the media copy with its controller: no
interaction between two of them is claimed.

## 4. Runs

| Run | Instance | Distinct states | Shows |
|---|---|---|---|
| `MediaBuffer_safety` | 3 requests, 4 chunk names, budget 3, cap 2, 2 grants per chunk, symmetric | 1 315 | accounting, leases, fairness of shares, order |
| `MediaBuffer_live` | 3 requests, 3 chunk names, budget 2 | 17 307 | a waiter is served |
| `MediaCopy` | 1 response, every failure, budget 1, bodies of up to 4 blocks, buffers of 2 | 261 743 | no invariant error, nothing left behind, refinement of `MediaPipe`, clean-up ends, producer not starved |
| `UpstreamAuth_safety` | 2 requests, 3 logins, 1 revocation, 1 reconfiguration, symmetric requests | 3.1 million | the stored login, leaks, answers |
| `UpstreamAuth_probe` | the same, expected violation | | finding 1 below |
| `SourceCache` | 2 callers and 1 captured page of a range of two bytes and its part, budget 2, 2 entries | 237 321 | counters, pins, disk, privacy of a cancellation, nothing admitted behind Close, Close ends |
| `SegmentCache` | 3 files, 2 readers, 2 jobs of a segment, budget 3, 2 artifacts, 1 failed removal | 122 139 | charge, pins, disk, refinement of `SegmentStore` |
| `Subtitles` | 1 source of 2 versions, a preview and a playback of one owner and a playback of another, 2 requests, 1 reader, 2 grants, 1 artifact | 450 816 | pins, leases, shared work, versions |
| `Transcode_open` | 2 requests, 2 jobs one after the other, 2 segments, 1 worker, queue of 1 | 951 295 | demands, sleepers, segments of ended jobs |
| `Transcode_flight` | 2 jobs at a time, 2 workers, 1 request, 1 segment | 560 827 | one run per job, Close ends |
| `Transcode_stop` | 1 job, expected violation | | finding 2 below |
| `Gateway` | twelve components, see below | 1 343 934 | user data, lists, logins, consoles, sources, packaging, images, telemetry, control plane, policies |

Properties that have parts: `GrantsSound` (`AcceptedLeaseStaysValid`,
`WakeupMatchesGrant`), `BuffersSound` (`NoInvariantError`, `NothingLeftBehind`),
`NeitherHalfStuck` (`CleanupFinishes`, `ProducerNotStarved`), `BooksBalance` of
either cache (`Accounting` with what must agree with it), `SharedByViewers`
(`LeasesHold`, `NoOrphans`), `DemandsAndSegments` (`DemandsCounted`,
`DemandsInOrder`, `EndedLeavesNothing`), and in `Gateway` one property per group of components; each
part has a comment of its own and, as far as it can be broken, a faulty variant.

Why the bounds are enough. Three requests are the least for which order, fair
share and reclaim differ: one over its share, one waiting first, one waiting
behind. Two grants per chunk let a lease be stale. Two requests and an operator
are all the roles of the login, and three logins let each of them replace one. In
`SourceCache` two callers and a page meet at two ranges that do not fit together:
one leaves, one stays, and either has to evict. Three files of at most two bytes
in a budget of three make two writers of one segment race for the last byte,
evict, and leave a retired file to its reader. In `Subtitles` three viewers of one
source are of one owner and of another, so that one adopts while the third
shares, and one artifact of budget for two versions makes a pin decide what is
evicted. In `Transcode_open` the second job finds the queue full with the first,
which has ended, and two requests share a demand or seek against each other; in
`Transcode_flight` two workers meet at one job.

`Gateway`, by component:

* `Playback`: two clients, one item, four reports (in progress; stopped early;
  stopped half way; stopped with a position before the beginning) and five writes,
  three requests, one change of the library or the clock. Two requests overlap and
  a third comes before, between or after.
* `PersonalLists`: three libraries of up to five items (a film and a series of two
  seasons, one episode without a place), three sets of rows, batches of two, a scan
  limit of six, at most two changes. Every list needs several batches, and a
  negative start, a start beyond the end and limits at a batch's edge occur.
* `Access`: one user, two clients, two passwords, a limit of two failures, four
  requests and two ticks: a login meets any two changes of its user.
* `AdminAuth`: one superuser, two requests at a time, two sessions ever and room
  for one, lifetimes of one tick, two requests per window.
* `SourceAccess`: two runs and a copy, two users, two bases and the endpoint gone, two
  changes from outside besides the logins a 401 renews, and two transfers: two runs at a
  time or one after the other, or a run beside a copy. Each property relates one transfer
  to the upstream or to one other; `MaxOpens = 3` (762 thousand states) was checked once,
  with the same result, and is too long for the run.
* `Telemetry`: rings of three and two units, four ticks of time in jumps of any
  size and sign, one sender, one transfer, a queue of one, three events of the
  world. A unit is overwritten, skipped and come back to.
* `BufferHistory`: three copies, a list and a ring of two, pages of one, two boots,
  five turns.
* `BufferObserver`: one copy, thresholds of one and two ticks, two ticks, two turns
  of the producer.
* `ControlPlane`: two administrators, two keys and two endpoints, a URL and that URL with
  `/emby`, two servers; not set up, set up with a login, or without. There are two
  instances, `control` with one identity and three turns, and `renaming` with two
  identities and two turns: two requests that name different ones, or one and a renewal.
  Two identities for three turns (562 thousand states) were checked once, likewise.
* `Policies`: one console besides the direct edits, three rows of each table, five
  patterns and five paths, two milliseconds, three turns.
* `Packaging`: two runs from any segment, timestamps off by a tick either way,
  windows of two segments, two ranges. Nine films: true indexes with edits, with
  offsets, and with a tail that joins the segment before; transport streams of 360
  and 500 ticks where timestamps have a range of 280, the latter with keyframes
  half a range apart; an index with a keyframe the film lacks, and a film with
  other keyframes than its index; and tables whose offsets are too few, that name a
  sample beyond the last, or whose first keyframe is too late.
* `AnonymousImages`: two configurations, two validations and two requests at a time
  and three of both in all, one slot, an age of one in two ticks, two changes.

`Transcode_flight` leaves behaviours out by a constraint: it lets only one of the
two jobs be replaced (`OnlyOldReplaced`); a link changes nothing but what a stop
does. Runs without liveness use symmetry among clients, requests, chunks, files
or jobs.

Deadlock checking is off in all runs: responses end, requests return, a cache and
a manager are closed, and the bounds stop the model. What must not get stuck is
stated instead (`WaiterServed`, `NeitherHalfStuck`, `CloseFinishes`,
`AnswerForEveryWait`, `NobodyStuck`).

### Fairness

* `MediaBuffer`: a notified producer accepts, a holder releases. Both are the
  next statements of running goroutines; nobody is assumed to ask or to close.
* `MediaCopy`: producer and consumer take their steps, and a read of a source
  that was closed returns. A read of an open source may block for ever.
* `SourceCache`: goroutines run, a cancelled fill is noticed, Close proceeds. A
  source that is not cancelled may stay silent for ever (`internal/sourcecache/cache.go:154`).
* `Transcode`: an idle worker takes a job or leaves, a run takes its steps and
  ends, and so does a preparation; both are under timeouts and under the context
  that Close cancels. Requests and clients are not assumed to do anything.
* The other modules state no fairness and check safety only.

## 5. Proofs

A module `XProofs` extends `X` (`GatewayProofs` has instances of its eight components,
`MediaCopy` extends `MediaBuffer`). It defines an invariant, `IInv` or `CopyInv`, as a conjunction of
named parts, proves it of the initial states and of every step, and derives the
properties from it. A run that names the property shows it on an
instance; the theorem is about every value of the constants that the assumption of
the module allows. These assumptions (`ConstantsAssumption`,
`MediaCopyAssumption`, `SegmentCacheAssumption`, `UpstreamAuthAssumption`,
`TranscodeAssumption`, `SourceCacheAssumption`, `SubtitlesAssumption`) say that
the sets of requests, jobs, workers, readers, grants or files that are counted are finite, that limits are natural
numbers, positive where the configuration code sees to it, and that model values
for nil are none of the others. Beyond that, there are more names of buffers than
the budget and at least as many places in the queue of jobs as workers, and the
bound on one segment is no greater than the budget of the catalog.
`MediaCopyAssumption` adds that an announced length is a natural number or unknown.
The components of `Gateway` state theirs as an operator `Assumption`, which
`MCGateway` assumes of those proved about (`ComponentAssumptions`), so that TLC evaluates it
for the constants of the run.

| Module | Theorems | State |
|---|---|---|
| `MediaCopyProofs` | the controller: `Invariance`, `TypeCorrect`, `AccountingCorrect`, `LeasesStayValid`, `ChunksNotShared`, `WakeupsMatch`, `GrantsAreSound`, `GrantsNotMissed`, `TargetsAreFair`, `NobodyIsOvertaken`; the copies: `CopiesStaySound`, `BuffersAlwaysSound`, `NextBytesAreWritten`, `CopyIsAPipe` | all safety properties of the runs, and the refinement |
| `SegmentCacheProofs` | `Inductive`, `BooksAlwaysBalance`, `ReadersAlwaysKeepTheirFile`, `Refinement` | all properties of the run |
| `UpstreamAuthProofs` | `Inductive`, `StoredIsNeverLoggedOut`, `HandedOutIsAlwaysFresh`, `TokensAreAlwaysAccounted`, `AnswersForEveryWait`, `SwapsAlwaysJustified` | all properties of the run |
| `TranscodeProofs` | `Inductive`, `JobsRunOnce`, `NoDemandIsLost`, `DemandsAreAccounted`, `DemandedIsAlwaysKept`, `OldestIsChosen` | all safety properties of the runs |
| `SourceCacheProofs` | `Inductive`, `CountersTrue`, `IndexTrue`, `NobodyElseCancelled`, `ClosedIsQuiet` | all safety properties of the run |
| `SubtitlesProofs` | `Inductive`, `PinsAreCounted`, `SharedIsKept`, `VersionsApart`, `OthersWorkGoesOn` | all properties of the run |
| `GatewayProofs` | `LoginsStaySound`, `ConsoleStaysSound`, `SourcesStaySound`, `ImagesStaySound`, `ControlPlaneStaysSound`, `PlaybackKeeps`, `ObserverStaysSound`, `PoliciesStaySound` | the properties of eight components of `Gateway` |
| `Sums` | lemmas about the sum of a function over a finite set, and about counts that change by one | used by the accounts of the catalog and of the range cache |

### The controller

None of its properties is inductive: that an accepted lease is still valid depends
on no other request having been granted the chunk, which depends on the free list
holding no chunk in use, which depends on the order of reclaim and recycle inside
the scheduling pass. The invariant says of the pool as a whole (`PoolInv`) that
every grant, pending or accepted, is the one owner of its chunk at the chunk's
latest generation, that free chunks have no owner, and that the counters are the
sums they stand for; of the queue (`NoMissedGrant`) that it holds exactly the
waiting requests and that no waiter is entitled to a chunk the pool could give; and
of the callers' leases (`LedgerInv`) that they match. A pass changes the pool only
in bulk, so its lemmas speak of the assignment of chunks to requests it computes
rather than of single grants. Each operation then has one lemma per conjunct it
disturbs. `NoSharedChunk` follows and is in no run.

Fairness and order need a second invariant, `TurnInv`: the shares are those that the
number of active requests demands (`SharesFollow`), the queue is an order
(`QueueOrdered`: nobody stands before himself, and of two waiters one stands before
the other), and who is closed is not active. `TargetsAreFair` then is the
arithmetic of one division; `NobodyIsOvertaken` says that a pass which serves a later
waiter has found the earlier one at its share.

### The copies

`CopyInv` adds to the controller's invariant, which every call of an operation keeps by
its lemmas, what holds of each copy. The leases the controller
records for it are the buffers in flight (`PoolSound`), and a buffer in flight is in one
place: the producer's hands, one event of the queue, the consumer's hands or the
clean-up's list (`HandsSound`). So two buffers in flight are two places in memory
(lemma `Apart`), and a read disturbs none but the reader's own. As long as the consumer
has met no failure the pieces in flight follow one another from what was sent to what
was received (`Contiguous`); at a failure, a disconnect or a closed queue that is lost,
but then nothing is written any more, which is `InStep`. A terminal is the last event and
its producer is through (`EventsSound`), and "complete" stands for a body that ended at
its announced length (`BodySound`).

`NextBytesAreWritten` is the first piece of `Contiguous`. `BuffersAlwaysSound` needs that
nobody sends twice on a channel of one slot: the base is either in that slot or in flight.
For `CopyIsAPipe` a start, a read, a write and the last step are steps of the pipe; the
success of the last is backed by `BodySound`. All other steps are not seen from outside.

The lemmas speak of one step of one response. `Bystander` says once for all that the
others do not notice: their buffers keep what was read into them, and a scheduling pass
grants nothing to who does not wait (`Serves`).

### The catalog

`Good` relates the files, the two counters, the disk and the leases: what is charged
is the sum of the bytes of artifacts and of writers, within the budget; what the
catalog needs is on the disk, and of the rest only what could not be removed; a key
has one artifact; the pins of a file are its readers. An operation of the code is
several such changes in a row, so each change (give up, reserve, fill, discard,
shelve, pin, unpin, return, retire) has a lemma about values, not about states, and a
step is taken apart into its changes. Eviction frees what it gives up because the
sum over a set is the sum over two parts of it (`Sums`).

`Refinement`: under the mapping, a stored file is a segment of the store, a commit
puts it there, and evictions before it forget some that nobody holds. The lemma
behind it is that no victim is pinned or wanted; without the part of `Good` that ties
pins to readers, an eviction could forget what somebody reads. `SegmentStore` is all
that the proofs about `Transcode` know of the catalog.

### The login

A login is a candidate from its grant to its one swap or commit. It is `Settled` once
no swap and no commit will store it any more, and `Gone` when it is not in the row
either: for ever then. Each step keeps what is gone (`Stays`), and only what is gone
is logged out, which gives `StoredIsNeverLoggedOut`. `SessionsInHand` follows each
session the upstream accepts to the row, to the flight, to the operator, or to those
that a fault made the gateway forget; `TokensAccounted` is the case of nobody holding
any. A report of an expired login is of one that was rejected or is gone
(`Justified`), so a swap that finds it in the row replaces a rejected one. What
requests know (`RequestSound`) gives freshness and answers. Freshness is proved as
checked, with its condition about reconfigurations (section 6).

### The jobs

A job is in one place at a time: the queue, the hands of a worker between taking it and
starting, or a run (`OnePlace`, `OneRun`, `Apart`); its flags and its state say which
(`Shows`). Only what is made is prepared, and only what is prepared is demanded,
queued and run (`Placed`, `Ordered`). Without this the end of a preparation, which
sets the state, could hide a run. With it, each step that takes from a sleeper what it
sleeps on (a stop, a failure, a lost segment, the end of a window) also wakes the
sleepers of that job or leaves it waiting for a worker, which is `NoLostDemand`. The
demands of a job are an order (`DemandsInOrder`), so the one a run starts for is older
than every other that is not met (`OldestIsChosen`).

### The range cache

A step of the code is several changes in a row: blocks are evicted, a file is
admitted, a flight moves on or ends, a caller waits, reads or goes. The invariant is
split by what a change can disturb. Each fill is fine by itself (`Fine`: how far it is,
who shares it, what it answered). The counters are those of the fills, and within the
limits (`Books`, `Limits`). Callers are counted by the fill they are with (`Held`). No
two entries or attached fills have the same range (`Unique`), and the order of use is
an order of the entries (`Ordered`). The rest is about what starts and stops: pages that
were captured (`Started`, `Queued`), who is to close (`Closing`, `Leaving`).

Three facts carry the rest. A fill that works and is not in the index has no waiters,
so that it never becomes an entry and a second fill of its range may start: this is why
the range of a detached flight is in `Unique` only while it is attached. A file that
could not be removed keeps its charge, and the cache takes no more, so that the account
stays right after a failure of the disk. And only who holds `captureMu` sends pages and
closes the channel, so that the writer finds an empty queue when it leaves, which is
half of `QuietAfterClose`; the other half is that Close waits for the fills.

`NobodyElseCancelled` follows from `Shared`: a fill is cancelled only when it has no
waiter. The counters are moved by one caller or one file at a time, which is lemma
`CountChange` of `Sums`.

### The subtitles

The invariant has a part for each thing the manager keeps: tracks, runs, leases (the
viewers with grants and requests), readers, the store, the pins, and the viewers of
what runs. Three of them say more than the properties:

* `TakenOver`: of two requests that wait on the same admission, the one that created it
  is not the one whose name it carries. Without it a request that disconnects could
  take the admission of another along, and `LeasesHold` is not inductive. It holds because
  a request creates an admission only where nobody's is, and every later one renames it.
* `RunSound`: what a run has read lies between the version it validated and the present
  one, and it comes to be verified with something read. The last validation then leaves
  one version, which gives `NeverMixed`, whatever the readers of an older artifact made
  of the expected ETag in between.
* The pins are the count of grants and of readers (`PinsSound`), and evictions and
  discards keep what is pinned (`PinnedStay`).

`OthersWorkGoesOn` needs no more than what a step does to runs: a run is turned by
itself, or cancelled with nobody asking, at its time limit, or by Close (`RunTurn`,
`WorkGoesOn`). The store's order of use plays no part in any of it: pins decide what may
go, the order only which of it.

### Eight components of the gateway

`GatewayProofs` has one inductive invariant for each; a run cannot show it for more
than the few clients, sessions and tickets of its instance.

* `LoginInv` (logins): a login that knows the password belongs to the user who has
  its identity (`Belongs`), and if that user is disabled by now, it was after the
  login knew. So the session it saves is one the property allows. Identities are
  unique among users (`AccountsSound`) and stay (`Keeps`), which makes those in sessions
  unique. `FailureSound` counts what has failed together with the logins that may still
  fail: a login begins only while its user is not blocked, at which point the count is
  below the limit, and a failure moves one from the second number to the first.
* `ConsoleInv` (administrators): `ConfirmedOnce` is not inductive, because a ticket can
  be put in for a session that was logged out after it had been looked up. What saves
  it is that a request carries its ticket from the moment its session was found, and a
  logout takes away every ticket there is of the session: if the request's ticket is
  kept and of its own session, that session has not ended (`RequestSound`). `Follows`
  says what the steps of others do to the store.
* `SourceInv` (sources of conversions): a transfer holds the gate from entry to end
  (`TransferSound`), so nobody reads while a reconfiguration has it (`GateSound`), and
  what a run has sent is bound to the configuration in use, and to the user and base of
  its access unless a 401 renewed its login (`TransferBound`).
* `ImagesInv` (images): one validation is under way, by the lock, and later than what
  set the snapshot; a request relies on a confirmation within the age of its decision,
  and what was configured since it began includes what is configured now.
* `ControlInv` (the control plane): `LoginsSound` says where the logins are. A valid
  one is the stored one, in the hands of one request at most (`InHand`, which differs
  from step to step: a login to store or to log out, or an old one), its logout has
  failed, or nobody heard of it (`GivenUp`). A commit keeps this because it compares the row it read with the one
  there is, so the login it replaces is the one it takes in hand. `FormSound` follows
  the stored password: while a form has a base to compare with, its address is that
  base, or the base with `/emby` once it was redirected there (`NearHome`). `StoreOfSound` says that some row is the default and
  enabled; that is one row only by `Indexed`. `PromotedFacts`, `SavedFacts` and
  `DefaultLeads` say what saving and removing a row make of a sequence of rows.
* `PlayInv` (playback): a report or a write that is on its way differs from the row it
  read only in the columns it is about (`ChangeSound`); so what a save changes
  beyond these, somebody changed since the read, and that is what `KeepsUserData`
  excuses by name. A playback that asks and is late holds a generation below that of
  the denial (`AskSound`): the counter moves with every denial and is never
  set back, though denials are swept away.
* `WatchInv` (the observer of a copy): the contention counted is at most the time
  waited and the time in refreshes, for which what is open, and what a refresh under
  way will still open, is charged in advance (`Contends`, `ContendsSince`,
  `WatchBooks`). What the producer's own refresh has read stays true while it decides
  (`WatchLooks`); a late refresh of the controller may open a contention again when
  the wait has been answered, and the projection in `Settle` ends it (`WatchOpen`).
* `PolicyInv` (policies and routes): `DefaultsOnce` needs only that no row is newer
  than the last save, and that normalizing a path twice changes nothing
  (`NormalizedForm`), since a default is compared with rows that were normalized. The
  rest are facts about the tables of any state. `PolicyOrder` and `RuleOrder` turn
  the chains of comparisons into the order of five or six numbers, the first that
  differs deciding (`Above`), which is total and transitive; so a finite set of rows
  has one that is first (`FirstExists`), which rests on the identifiers being the
  last of these numbers. Without it, `DenialWins` would depend on how rows are stored.

What `Gateway` checks as `AccessSound` are `LoginsStaySound` and `ImagesStaySound`
together; `SourceSound` also covers the packaging and `ObservationSound` the telemetry
and the history, about which nothing is proved.

### What TLC alone checks

* Liveness, which the proof system does not reach: `WaiterServed`,
  `NeitherHalfStuck` and `CloseFinishes`, for which the scheduler has to be fair;
  and what `Transcode_stop` and `UpstreamAuth_probe` violate.
* That the values in rows and reports of `Playback` stay within those of the instance
  (`TypeOK`, a part of `UserData`); the theorem needs their columns only.
* The other components of `Gateway`: the lists, the telemetry, the packaging and the
  history of copies. The first three compute by recursion over sequences, about which
  nothing can be proved here.

## 6. Findings and observations

1. `server.go:886` probes the login of the runtime it has just loaded. The
   comments at lines 891 and 910 say it probes "this token" and "the exact failed
   source credentials". `UpstreamAuth_probe` shows a request that keeps its 401
   because a login it did not use was found healthy.
2. `internal/transcode/manager.go:578` records the failure of a run also when
   `StopEncoding` has made the run obsolete. If the run had already failed or
   exceeded its time, and FFmpeg was still being waited for, the failure comes
   back after the stop has cleared it, and `Open` refuses every later demand.
   `docs/adr/0004-on-demand-audio-transcoding.md:84` says that a stop without a
   replacement "leaves the same output address available for later demand".
   `Transcode_stop` shows the steps.

What follows was met while modelling. It is what the code does, and the models do
the same; no run is about it, unless it is named. A property with a condition
often has it because of one of these.

Upstream login:

* A request that joins a flight while the operator reconfigures may be handed a
  login older than its question. `HandedOutIsFresh` says so by its condition.
* If the acknowledgement of the compare-and-swap is lost, or the operator
  replaces the login meanwhile, the old upstream session is never logged out.
  The ghost `abandoned` keeps these, and `TokensAccounted` allows no others.
* The converse of finding 1: a refresh can return the very login a probe has
  just found expired.

Segments and conversions:

* The segment catalog ignores the failure of a removal (`internal/transcode/cache.go:67`, `161`,
  `177`, `207`) and drops the charge, so each such file adds to what is on the disk
  beyond the budget.
* Ended jobs stay in the queue until a worker meets them, so a job within the
  limit can find it full; that failure stays until the encoding is stopped.
* `StopEncoding` of a failed job clears the failure but leaves the state "failed".
* The demand that `work` queues again at its end
  (`internal/transcode/manager.go:583`) would be queued by the request it has just
  woken as well: `NoLostDemand` holds without it.
* A window that FFmpeg completes without the segment asked for is queued again as
  it was (`internal/transcode/worker.go:178`), until the request gives up. With a
  true index it cannot happen (`WindowIsMade`). If the index names a keyframe the
  film lacks, and no other lies in that segment, the segment before takes its
  content, the run ends well, and the demand is never met.
* The last segment is committed at the end of the output before FFmpeg's exit is
  looked at (`internal/transcode/worker.go:122`,
  `internal/transcode/transport.go:49`). If FFmpeg dies
  between two boxes or packets of it, a short or even empty last segment stays in
  the catalog and is served; `SegmentsAreWhole` excepts just this.
* A timestamp of a transport stream further than half its range (13 hours) from
  where the run was to begin is misread. Such a run is refused, unless the wrong
  time falls on a cut; the films of the run avoid that coincidence.
* Of two edits that are not empty `editShift` takes the second.
* A reference near its expiry uses up the first attempt of `audioSourceAccess.open`,
  so a 401 or 403 on the next is final.
* A proxied copy may have its response from the old upstream before it waits for
  the gate; `BoundToUpstream` is about conversions.
* The second attempt after a 401 takes the user and the base of the renewed login without
  the test that the first made (`internal/gateway/audio_source.go:79`, `171`), and endpoints are
  edited without the gate (`internal/adminapi/upstream_admin.go:34`): one access may then read
  from two bases, or as another user. `BoundToUpstream` excepts such runs from the test
  and no others; `OneVersion` and the size hold for them too.

Subtitles:

* The maintenance ends a whole playback when its preview of one source lapses,
  although a comment says that only an explicit End releases leases of a whole
  playback.
* `expectedETag` is shared by a run and by `Open`, which moves it on; the
  validation at the end of the run alone keeps versions apart (`NeverMixed`).
* A viewer that joins while a cancelled run is dying is told that the track is
  unavailable, until the retry delay is over.

User data:

* Two writes of one row that overlap lose one of the updates: `KeepsUserData`
  excepts them.
* An item played by progress and then stopped keeps a play count of 0.
* An answer to a query by IDs that is truncated but a success makes the missing
  rows orphans in resume and filtered lists, while next-up asks for completeness.
  An orphan heals by the resume list, a write of the user or a stop.
* `enrich` replaces the identity of a row without the test of compatibility that
  the lists make.
* `pageItems` adds start and limit without regard to their width;
  `compareResolvedPersonalItem` is not transitive where keys are missing.
* Latest with a limit above 100 never fills up; a page that is no success but is JSON
  ends a list by negative filters as if it were empty.
* A negative `StartIndex` makes such a list report a total below the place of the last
  item it shows, and so does an upstream that gives no total: the list then reports the
  number of items on the page (`personalquery.go:292-300`).
* Latest ignores that the rows cannot be read (`userdata.go:286`), and shows what was
  played with the status of a success.

Sessions and consoles:

* A login that overlaps a disable or a reset survives it (`RevokedForGood` allows
  it by its condition), and `activeSession` does not look at the user's enabled
  flag. The set-up command's `UpsertUser` changes a password and ends no session.
* Logins at the same time exceed the failure limit by the number of clients less
  one (`GuessesBounded`), and a success clears what others have failed.
* A logout that races a reauthentication leaves the new session; a
  reauthentication may lose its session when the store is full; sessions that
  expired leave their tickets until these expire as well.

Telemetry:

* After the clock was set back by more than a ring, additions are dropped until it
  has caught up; an event that arrives late takes `LastSeen` back.
* Kinds of events are handled that nothing emits (`media_transfer`,
  `userdata_error`, `reliability`, `logout`), and `Emitter.Close` and
  `NoteSessionActivity` have no caller.
* Bytes added after `End` has read the count are missing from `completedEgress`.
* A cursor of recent copies at or below `evictedThrough` is refused although lower
  ones may be retained, since drains overtake each other; and a valid one may pass
  over entries evicted below it.
* `aggregateCycle` reports `idle` when copies exist and none is observed;
  `docs/adr/0003-media-buffer-observability.md` (near line 438) says `healthy`.
* Two loads and an exchange in `refreshPoolContention` may leave an interval of
  contention open or close a new one; the next projection, or the settlement at
  the end, closes it. `PoolWaitEnds` bounds the error by the ghost `slack`.

Anonymous images:

* A request for the public system information that finds no version of the server
  refreshes its particulars, and so validates the namespace, under its own context
  (`server.go:467`). If that client leaves meanwhile, images are unavailable until
  the next validation.
* Nothing validates the namespace when an operator has changed the upstream or its
  default endpoint: images are unavailable until the hourly refresh
  (`cmd/gateway/main.go:357`).

Control plane and rules:

* `UpsertEndpoint` looks for rules of the new key, so an endpoint that is renamed,
  and disabled with it, leaves its rules without a target
  (`internal/controlplane/upstream_endpoint.go:135`); `RulesKeepTargets` is about
  endpoints that keep their key. Targets of rules are not checked when these are
  stored.
* Disabling the default while it is still marked as such fails on the unique index
  where the comment at line 172 describes a promotion; and when the row that is
  saved is itself promoted, the answer still says that it is not the default.
* `websocket_capable` survives a change of the URL, and the outcome of a probe may
  be of the URL before.
* The stored password may be sent to the base with `/emby` after that base redirected
  the request (`embyBaseRetryURL`), although the comment at
  `internal/controlplane/upstream_probe.go:109` says not to treat `/emby` as equivalent.
  `PasswordNearHome` therefore claims no more than that it goes nowhere else, and to
  `/emby` only after a redirect.
* A login the upstream granted in an answer that is lost, too long, no JSON or without
  its token stays valid for ever: there is nothing to log it out with
  (`internal/controlplane/upstream_probe.go:245`, `359`). `LoginsAccounted` is about the others.
* A refresh of the server's particulars during a reconfiguration makes it fail as
  changed.
* A rule stored with the transport `http` is kept as `any`, so one that the console
  calls "HTTP only" (`web/admin/src/pages/System.svelte:1157`) routes upgrades too.
* The tokens of optimistic updates are in milliseconds (`NothingUnseenReplaced`).
* The preview of a rule names its target also when the endpoint is missing or
  disabled and the gateway would take the default.

## 7. Not modelled

Of the modelled components: the second refresh of an upgraded request after its
preparatory one, and a reconfiguration that changes nothing (`UpstreamAuth`);
allocation snapshots (`MediaBuffer`, `MediaCopy`); in `Transcode` the HTTP input of
FFmpeg and a stored segment whose file cannot be opened; the search for tables and
Matroska cues in the bytes of a source, and the layout of boxes and packets
(`Packaging`); the checks of queries, headers and image bytes, of which only the
outcome is modelled (`AnonymousImages`); the adoption of artifacts of an earlier
process and the text normalisation (`Subtitles`); dates of rows outside the lists
that sort by them (`Playback`); audit and playback events, display preferences and
outgoing identities; cookies and headers of consoles (`AdminAuth`).

Components without a module: response rewriting and resource cookies (text of one
request); the Matroska index (a parser); the web client host and the frontend (input
and output); migrations of the schema, flags, environment and wiring (run once at
start). `PROJECT.json` lists each with its reason.

No interaction between the components of `Gateway` is checked: a login that is
revoked during a copy, or a reconfiguration whose ticket and whose gate are both
contended, would need their product.
