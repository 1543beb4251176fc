------------------------------ MODULE MCGateway ------------------------------
(* Small instances of the components around the media path.  They share no    *)
(* state, so a behaviour is about one of them, chosen at the start, and they   *)
(* take turns in using the same variables, the cells: a state is then no       *)
(* larger than the largest component.                                          *)
EXTENDS Integers, Sequences, FiniteSets, TLC

CONSTANTS
  Peers,     \* two of what is interchangeable: clients, requests, readers, consoles
  Names,     \* the users and clients logins upstream are made as
  Servers,   \* what answers at the upstream's URLs
  Nothing

VARIABLES
  unit,    \* the component this behaviour is about
  \* cells: its state, in the order in which the component is given them below
  x1, x2, x3, x4, x5, x6, x7, x8, x9, x10, x11, x12, x13, x14, x15, x16, x17

cells == <<x1, x2, x3, x4, x5, x6, x7, x8, x9, x10, x11, x12, x13, x14, x15, x16,
            x17>>

-----------------------------------------------------------------------------

(* Reports and writes of user data *)

Empty == [named |-> TRUE, pos |-> Nothing, played |-> Nothing, pct |-> Nothing,
          runtime |-> Nothing, seen |-> Nothing]
Bare == [Empty EXCEPT !.named = FALSE]

\* A progress report; stops too early, half way, at the end and before the
\* beginning; one whose position is in the query; one that says it all.
SomeReports == {
  [event |-> "progress", body |-> [Empty EXCEPT !.pos = 5], query |-> Nothing],
  [event |-> "stopped", body |-> Bare, query |-> [Empty EXCEPT !.pos = 1]],
  [event |-> "stopped", body |-> [Empty EXCEPT !.pos = 9, !.seen = 1], query |-> Nothing],
  [event |-> "stopped", body |-> [Empty EXCEPT !.pos = -1, !.pct = 95], query |-> Empty]}

SomeWrites == {
  [kind |-> "played", value |-> TRUE], [kind |-> "played", value |-> FALSE],
  [kind |-> "favorite", value |-> TRUE],
  [kind |-> "hide", value |-> TRUE],
  [kind |-> "userdata", played |-> TRUE, pos |-> 5, pct |-> Nothing, fav |-> Nothing,
   likes |-> Nothing, count |-> Nothing]}

(* A small library: a film, a series of four episodes, the last of which has  *)
(* no place in its season, and what the user did with them.                   *)

SomeSeries == [i \in 1..5 |-> IF i = 1 THEN Nothing ELSE "s"]
SomeIndex == [i \in 1..5 |-> CASE i \in {1, 5} -> Nothing [] i = 2 -> <<1, 2>>
                               [] i = 3 -> <<1, 1>> [] i = 4 -> <<2, 1>>]
SomeLibraries == {<<5, 2, 1, 4, 3>>, <<1, 2, 3>>, <<3, 2, 5>>}
SomeKeys == [i \in 1..5 |-> i % 3]
SomeFlags == {
  [i \in 1..5 |-> IF i = 3 THEN {"played"} ELSE IF i = 2 THEN {"bare"} ELSE {}],
  [i \in 1..5 |-> CASE i = 1 -> {"played", "favorite"} [] i = 2 -> {"resumable"}
                     [] i = 4 -> {"played", "orphan"} [] OTHER -> {}],
  [i \in 1..5 |-> CASE i \in {1, 4} -> {"favorite", "resumable"}
                     [] i = 2 -> {"played", "favorite", "bare"} [] OTHER -> {"played"}]}

Plain == [kind |-> "", filters |-> {}, series |-> Nothing, only |-> Nothing,
          sort |-> "none", start |-> 0, limit |-> 0]
SomeRequests ==
  {[Plain EXCEPT !.kind = "positive", !.filters = f, !.start = s, !.limit = l] :
     f \in {{<<"played", TRUE>>}, {<<"favorite", TRUE>>, <<"played", FALSE>>}},
     s \in {0, 1}, l \in {0, 1}}
  \cup {[Plain EXCEPT !.kind = "positive", !.filters = {<<"favorite", TRUE>>},
                      !.series = "s", !.sort = o, !.limit = 1] : o \in {"up", "down"}}
  \cup {[Plain EXCEPT !.kind = k, !.filters = {<<"played", k = "positive">>},
                      !.only = {1, 2, 3}] : k \in {"positive", "negative"}}
  \cup {[Plain EXCEPT !.kind = "resume", !.limit = l] : l \in {0, 1}}
  \cup {[Plain EXCEPT !.kind = "negative", !.filters = {<<"played", FALSE>>}, !.start = s,
                      !.limit = l] : s \in {-1, 0, 1}, l \in {0, 1, 2}}
  \cup {[Plain EXCEPT !.kind = "latest", !.limit = l] : l \in {0, 1, 2}}
  \cup {[Plain EXCEPT !.kind = "nextup", !.limit = 1, !.series = s] : s \in {Nothing, "s"}}
  \cup {[Plain EXCEPT !.kind = "series", !.series = "s"]}

(* URLs of the upstream, and the base with /emby of one that does not end in it *)
SomeUrls == {"host", "host/emby"}
SomeEmbyOf == [u \in SomeUrls |-> IF u = "host" THEN "host/emby" ELSE Nothing]

(* Patterns, paths, policies and rules *)
Exact(s) == [segs |-> s, star |-> FALSE]
Star(s) == [segs |-> s, star |-> TRUE]
SomePatterns ==
  {Exact(<<"{id}", "b">>), Star(<<"a">>), Exact(<<"a", "">>), Exact(<<"a">>), Exact(<<"">>)}
SomePaths == {<<"a">>, <<"a", "">>, <<"a", "b">>, <<"ab">>, <<"", "b">>}
SomeWords == {"", "a", "b", "ab"}
SomeLonger == {<<"ab", "a">>}
SomeLength == [p \in SomePatterns |-> Len(p.segs) * 3]
SomeRank ==
  [p \in SomePatterns |->
     CASE p = Star(<<"a">>) -> 1 [] p = Exact(<<"a">>) -> 2 [] p = Exact(<<"a", "">>) -> 3
       [] p = Exact(<<"{id}", "b">>) -> 4 [] OTHER -> 0]

PolicyForm(m, p, a, n, e) ==
  [method |-> m, path |-> p, action |-> a, priority |-> n, enabled |-> e]
SomeDefaults == {PolicyForm("POST", Exact(<<"a">>), "deny", 2, TRUE),
                 PolicyForm("GET", Exact(<<"{id}", "b">>), "deny", 2, TRUE)}
SomePolicyForms == {PolicyForm("*", Star(<<"a">>), "allow", 3, TRUE),
                    PolicyForm("POST", Exact(<<"a", "">>), "deny", 1, FALSE),
                    PolicyForm("*", Exact(<<"a">>), "deny", 1, TRUE)}

RuleForm(m, p, t, g, n, e) ==
  [method |-> m, path |-> p, transport |-> t, target |-> g, priority |-> n, enabled |-> e]
SomeRuleForms == {RuleForm("*", Star(<<"a">>), "http", "k", 1, TRUE),
                  RuleForm("*", Star(<<"a">>), "websocket", "l", 1, TRUE),
                  RuleForm("POST", Exact(<<"a">>), "any", "l", 2, TRUE),
                  RuleForm("GET", Exact(<<"a">>), "any", "k", 2, FALSE)}

(* Films: one whose index is true, with edits and offsets; a transport stream  *)
(* longer than its timestamps, and one whose keyframes they cannot tell apart; *)
(* one without a keyframe its index names, one with others; and ones that end  *)
(* in next to nothing or cannot be used.                                       *)
Of(n, v) == [count |-> n, value |-> v]
Edit(d, m) == [duration |-> d, media |-> m]
Film(d, o, s, e, n, k, c, true) ==
  [durations |-> d, offsets |-> o, sync |-> s, edits |-> e, duration |-> n, keys |-> k,
   container |-> c, true |-> true]
NoOffsets == <<Of(20, 0)>>
SomeTitles == {
  Film(<<Of(3, 20), Of(4, 30)>>, <<Of(2, 10), Of(3, 5), Of(2, 10)>>, {1, 2, 4, 5, 6},
       <<Edit(175, 10)>>, 175, <<0, 20, 55, 85, 120>>, "mp4", TRUE),
  Film(<<Of(8, 45)>>, NoOffsets, Nothing, <<>>, 360,
       <<0, 45, 90, 135, 180, 225, 270, 315>>, "ts", TRUE),
  Film(<<Of(2, 150), Of(1, 120), Of(1, 80)>>, NoOffsets, Nothing, <<>>, 500,
       <<0, 150, 300, 420>>, "ts", TRUE),
  Film(<<Of(5, 40)>>, NoOffsets, {1, 2, 3, 4}, <<>>, 122, <<0, 40, 120>>, "mp4", FALSE),
  Film(<<Of(3, 50)>>, NoOffsets, Nothing, <<>>, 200, <<0, 50, 70, 103, 150>>, "ts", FALSE),
  Film(<<Of(3, 50)>>, NoOffsets, Nothing, <<Edit(10, -1), Edit(99, 5)>>, 106,
       <<5, 55, 105>>, "mp4", TRUE),
  Film(<<Of(3, 50)>>, <<Of(2, 0)>>, Nothing, <<>>, 150, <<0, 50, 100>>, "mp4", FALSE),
  Film(<<Of(3, 50)>>, NoOffsets, {2, 4}, <<>>, 150, <<50>>, "mp4", FALSE),
  Film(<<Of(3, 50)>>, NoOffsets, {2, 3}, <<>>, 150, <<50, 100>>, "mp4", TRUE)}

-----------------------------------------------------------------------------
(* The components *)

UserWork == INSTANCE Playback WITH
  Items <- {1}, Clients <- Peers, Reports <- SomeReports, Writes <- SomeWrites,
  Runtime <- 10, MinPct <- 15, MaxPct <- 90, MinDuration <- 5, MaxOps <- 3,
  MaxTurns <- 1, row <- x1, library <- x2, op <- x3, guard <- x4, generation <- x5,
  ops <- x6, turns <- x7

Lists == INSTANCE PersonalLists WITH
  Items <- 1..5, SeriesOf <- SomeSeries, IndexOf <- SomeIndex, SortKey <- SomeKeys,
  Libraries <- SomeLibraries, Flags <- SomeFlags, Requests <- SomeRequests,
  IdBatch <- 2, ScanBatch <- 2, ScanLimit <- 6, LatestCap <- 6, LatestDefault <- 2,
  SeriesMargin <- 1, MaxChanges <- 2, library <- x1, did <- x2, counts <- x3,
  job <- x4, changes <- x5, largest <- x6

Login == INSTANCE Access WITH
  Users <- {"user"}, Passwords <- {"old", "new"}, Identities <- {"id1", "id2"},
  Clients <- Peers, Limit <- 2, Block <- 1, TTL <- 2, MaxSteps <- 4, MaxTime <- 2,
  account <- x1, sessions <- x2, failures <- x3, login <- x4, now <- x5,
  step <- x6

Console == INSTANCE AdminAuth WITH
  Superusers <- {"admin"}, Requests <- Peers, MaxSessions <- 1, AbsoluteTTL <- 1,
  IdleTTL <- 0, ReauthTTL <- 1, RateLimit <- 2, Window <- 1, MaxIds <- 2,
  MaxTime <- 1, session <- x1, ticket <- x2, windows <- x3, valid <- x4,
  request <- x5, confirmed <- x6, now <- x7

Audio == INSTANCE SourceAccess WITH
  Runs <- Peers, Copies <- {"copy"}, Users <- {"u1", "u2"}, Bases <- {"b1", "b2"},
  First <- [user |-> "u1", base |-> "b1"],
  Versions <- 0..2, MaxOpens <- 2, MaxTurns <- 2, upstream <- x1, active <- x2,
  version <- x3, reference <- x4, etag <- x5, run <- x6, writer <- x7, opens <- x8,
  turns <- x9

Meters == INSTANCE Telemetry WITH
  Sessions <- {"session"}, Senders <- {"sender"}, Transfers <- {"transfer"},
  QueueCap <- 1, SecSize <- 3, MinSize <- 2, MinLen <- 2, SessionTTL <- 2,
  PlaybackTTL <- 1, MaxTime <- 4, MaxTurns <- 3, clock <- x1, peak <- x2,
  sender <- x3, queue <- x4, drops <- x5, seen <- x6, playing <- x7, auth <- x8,
  sec <- x9, min <- x10, meter <- x11, transfer <- x12, sampler <- x13,
  past <- x14, active <- x15, lag <- x16, turns <- x17

History == INSTANCE BufferHistory WITH
  Ids <- 1..3, Capacity <- 2, ChanCap <- 1, RecentCap <- 2, Age <- 1,
  GaugeSize <- 2, Limit <- 1, MaxTime <- 2, MaxTurns <- 5, MaxBoots <- 2,
  clock <- x1, boot <- x2, turns <- x3, stream <- x4, next <- x5, slots <- x6,
  registrationDrops <- x7, chan <- x8, completionDrops <- x9, drainer <- x10,
  ring <- x11, gauges <- x12, put <- x13, reader <- x14

Observer == INSTANCE BufferObserver WITH
  Short <- 1, Long <- 2, MaxTime <- 2, MaxTurns <- 2, clock <- x1, turns <- x2,
  producer <- x3, consumer <- x4, lifecycle <- x5, blocker <- x6, phase <- x7,
  refresh <- x8, poolWait <- x9, total <- x10, longest <- x11, terminal <- x12,
  waited <- x13, slack <- x14

\* Longer behaviours of forms that name one user and client, and shorter ones of forms
\* that name two.
Control == INSTANCE ControlPlane WITH
  Admins <- Peers, Keys <- {"primary", "cdn"}, Urls <- SomeUrls, Identities <- {"user"},
  Primary <- "primary", Home <- "host", EmbyOf <- SomeEmbyOf, MaxEndpoints <- 2,
  MaxTurns <- 3, source <- x1, endpoints <- x2, rules <- x3, saves <- x4, op <- x5,
  refresh <- x6, nextId <- x7, logins <- x8, live <- x9, sent <- x10, lost <- x11,
  stranded <- x12, unheard <- x13, turns <- x14

Renaming == INSTANCE ControlPlane WITH
  Admins <- Peers, Keys <- {"primary", "cdn"}, Urls <- SomeUrls, Identities <- Names,
  Primary <- "primary", Home <- "host", EmbyOf <- SomeEmbyOf, MaxEndpoints <- 2,
  MaxTurns <- 2, source <- x1, endpoints <- x2, rules <- x3, saves <- x4, op <- x5,
  refresh <- x6, nextId <- x7, logins <- x8, live <- x9, sent <- x10, lost <- x11,
  stranded <- x12, unheard <- x13, turns <- x14

Rules == INSTANCE Policies WITH
  Clients <- {"console"}, Ids <- 1..3, PolicyForms <- SomePolicyForms,
  RuleForms <- SomeRuleForms, Defaults <- SomeDefaults, Paths <- SomePaths,
  Words <- SomeWords, Longer <- SomeLonger, Length <- SomeLength, Rank <- SomeRank,
  MaxTime <- 1, MaxTurns <- 3, policies <- x1, rules <- x2, seen <- x3, now <- x4,
  version <- x5, blind <- x6, turns <- x7

Images == INSTANCE AnonymousImages WITH
  Keys <- SomeUrls, Validators <- Peers, Requests <- Peers, Slots <- 1, MaxAge <- 1,
  MaxTime <- 2, MaxTurns <- 2, MaxRuns <- 3, stored <- x1, up <- x2, snapshot <- x3,
  locked <- x4, validator <- x5, request <- x6, slots <- x7, now <- x8, turns <- x9,
  runs <- x10, proved <- x11, latest <- x12

Splitter == INSTANCE Packaging WITH
  Titles <- SomeTitles, Second <- 20, Target <- 40, Rest <- 2, MaxTicks <- 1000,
  Tolerance <- 1, Wrap <- 280, Roundings <- {-1, 0, 1}, Lookahead <- 2, MaxRanges <- 2,
  MaxRuns <- 2, title <- x1, timeline <- x2, stored <- x3, run <- x4, early <- x5,
  runs <- x6

\* What the components ask of their constants.
ASSUME ComponentAssumptions ==
  /\ Login!Assumption /\ Console!Assumption /\ Audio!Assumption /\ Images!Assumption
  /\ Control!Assumption /\ Renaming!Assumption /\ UserWork!Assumption
  /\ Observer!Assumption /\ Rules!Assumption

-----------------------------------------------------------------------------
(* The cells hold the state of the component the behaviour is about. *)

Init ==
  \/ /\ unit = "playback" /\ UserWork!Init
     /\ x8 = Nothing /\ x9 = Nothing /\ x10 = Nothing /\ x11 = Nothing /\ x12 = Nothing
     /\ x13 = Nothing /\ x14 = Nothing /\ x15 = Nothing /\ x16 = Nothing /\ x17 = Nothing
  \/ /\ unit = "lists" /\ Lists!Init
     /\ x7 = Nothing /\ x8 = Nothing /\ x9 = Nothing /\ x10 = Nothing /\ x11 = Nothing
     /\ x12 = Nothing /\ x13 = Nothing /\ x14 = Nothing /\ x15 = Nothing /\ x16 = Nothing
     /\ x17 = Nothing
  \/ /\ unit = "access" /\ Login!Init
     /\ x7 = Nothing /\ x8 = Nothing /\ x9 = Nothing /\ x10 = Nothing /\ x11 = Nothing
     /\ x12 = Nothing /\ x13 = Nothing /\ x14 = Nothing /\ x15 = Nothing /\ x16 = Nothing
     /\ x17 = Nothing
  \/ /\ unit = "admin" /\ Console!Init
     /\ x8 = Nothing /\ x9 = Nothing /\ x10 = Nothing /\ x11 = Nothing /\ x12 = Nothing
     /\ x13 = Nothing /\ x14 = Nothing /\ x15 = Nothing /\ x16 = Nothing /\ x17 = Nothing
  \/ /\ unit = "audio" /\ Audio!Init
     /\ x10 = Nothing /\ x11 = Nothing /\ x12 = Nothing /\ x13 = Nothing /\ x14 = Nothing
     /\ x15 = Nothing /\ x16 = Nothing /\ x17 = Nothing
  \/ /\ unit = "telemetry" /\ Meters!Init
  \/ /\ unit = "history" /\ History!Init
     /\ x15 = Nothing /\ x16 = Nothing /\ x17 = Nothing
  \/ /\ unit = "observer" /\ Observer!Init
     /\ x15 = Nothing /\ x16 = Nothing /\ x17 = Nothing
  \/ /\ unit = "control" /\ Control!Init
     /\ x15 = Nothing /\ x16 = Nothing /\ x17 = Nothing
  \/ /\ unit = "renaming" /\ Renaming!Init
     /\ x15 = Nothing /\ x16 = Nothing /\ x17 = Nothing
  \/ /\ unit = "policies" /\ Rules!Init
     /\ x8 = Nothing /\ x9 = Nothing /\ x10 = Nothing /\ x11 = Nothing /\ x12 = Nothing
     /\ x13 = Nothing /\ x14 = Nothing /\ x15 = Nothing /\ x16 = Nothing /\ x17 = Nothing
  \/ /\ unit = "packaging" /\ Splitter!Init
     /\ x7 = Nothing /\ x8 = Nothing /\ x9 = Nothing /\ x10 = Nothing /\ x11 = Nothing
     /\ x12 = Nothing /\ x13 = Nothing /\ x14 = Nothing /\ x15 = Nothing /\ x16 = Nothing
     /\ x17 = Nothing
  \/ /\ unit = "images" /\ Images!Init
     /\ x13 = Nothing /\ x14 = Nothing /\ x15 = Nothing /\ x16 = Nothing /\ x17 = Nothing

PlaybackStep ==
  /\ unit = "playback" /\ UserWork!Next
  /\ UNCHANGED <<unit, x8, x9, x10, x11, x12, x13, x14, x15, x16, x17>>
ListsStep ==
  /\ unit = "lists" /\ Lists!Next
  /\ UNCHANGED <<unit, x7, x8, x9, x10, x11, x12, x13, x14, x15, x16, x17>>
AccessStep ==
  /\ unit = "access" /\ Login!Next
  /\ UNCHANGED <<unit, x7, x8, x9, x10, x11, x12, x13, x14, x15, x16, x17>>
AdminStep ==
  /\ unit = "admin" /\ Console!Next
  /\ UNCHANGED <<unit, x8, x9, x10, x11, x12, x13, x14, x15, x16, x17>>
AudioStep ==
  /\ unit = "audio" /\ Audio!Next
  /\ UNCHANGED <<unit, x10, x11, x12, x13, x14, x15, x16, x17>>
TelemetryStep ==
  /\ unit = "telemetry" /\ Meters!Next
  /\ UNCHANGED unit
HistoryStep ==
  /\ unit = "history" /\ History!Next
  /\ UNCHANGED <<unit, x15, x16, x17>>
ObserverStep ==
  /\ unit = "observer" /\ Observer!Next
  /\ UNCHANGED <<unit, x15, x16, x17>>
ControlStep ==
  /\ unit = "control" /\ Control!Next
  /\ UNCHANGED <<unit, x15, x16, x17>>
RenamingStep ==
  /\ unit = "renaming" /\ Renaming!Next
  /\ UNCHANGED <<unit, x15, x16, x17>>
PoliciesStep ==
  /\ unit = "policies" /\ Rules!Next
  /\ UNCHANGED <<unit, x8, x9, x10, x11, x12, x13, x14, x15, x16, x17>>
PackagingStep ==
  /\ unit = "packaging" /\ Splitter!Next
  /\ UNCHANGED <<unit, x7, x8, x9, x10, x11, x12, x13, x14, x15, x16, x17>>
ImagesStep ==
  /\ unit = "images" /\ Images!Next
  /\ UNCHANGED <<unit, x13, x14, x15, x16, x17>>

Next ==
  \/ PlaybackStep
  \/ ListsStep
  \/ AccessStep
  \/ AdminStep
  \/ AudioStep
  \/ TelemetryStep
  \/ HistoryStep
  \/ ObserverStep
  \/ ControlStep
  \/ RenamingStep
  \/ PoliciesStep
  \/ PackagingStep
  \/ ImagesStep

Spec == Init /\ [][Next]_<<unit, cells>>

Interchangeable == Permutations(Peers) \cup Permutations(Servers)  \cup Permutations(Names)

-----------------------------------------------------------------------------
(* What is checked of each; the parts are stated in the components' modules. *)

\* What a user did stays, whatever lists resolve meanwhile and in whatever order
\* requests overlap, unless two of the user's own writes do (upsertPlaybackState,
\* SavePlaybackResolution); and a denial of playback is not taken back by a
\* success that began before it (playbackGuardTracker).
UserData ==
  [][unit = "playback" =>
       UserWork!TypeOK /\ UserWork!KeepsUserData /\ UserWork!KeepsDenials]_<<unit, cells>>

\* The pages of resume, next-up, latest and filtered lists show what they mean to,
\* once each, however the library's own pages are cut; a library that changes under
\* them never makes a count of children wrong (personalquery.go, userdata.go).
ListsSound == unit = "lists" => Lists!ListsSound

\* Sessions that were ended stay ended, users keep their identities, and logins
\* with wrong passwords are bounded, in spite of logins under way (login,
\* loginFailureLimiter, RevokeSession, controlplane's user changes).  Without a login,
\* images come only from an upstream that was lately validated, under the configuration
\* in use (ValidateAnonymousImageNamespace, handleAnonymousItemImage).
AccessSound ==
  /\ unit = "access" => Login!AccessSound
  /\ unit = "images" => Images!ImagesSound

\* Consoles: no request gets through on a session that ended, a ticket confirms
\* once and for its own session, and capacity and rates are kept (adminauth).
AdminSound == unit = "admin" => Console!AdminSound

\* A conversion reads from the configuration in use, one version of the item, and no
\* reader or reconfiguration waits for ever at the gate (audioSourceAccess); its
\* output is cut at the film's keyframes, each segment whole and the same wherever
\* the run began (makeTimeline, splitFragments, splitTransport).
SourceSound ==
  /\ unit = "audio" => Audio!SourceSound
  /\ unit = "packaging" => Splitter!PackagingSound

\* What the console is shown is what happened: the rings and totals of telemetry
\* under a clock that jumps, the pages and history of copies, and the health and
\* the waits of a copy under way (Registry, ByteMeter, MediaBufferLiveRegistry,
\* MediaBufferRegistry, mediaBufferLiveStream).
ObservationSound ==
  /\ unit = "telemetry" => Meters!TelemetrySound
  /\ unit = "history" => History!HistorySound
  /\ unit = "observer" => Observer!ObserverSound

\* The stored upstream can always be loaded and routed to, a stored password goes to
\* its base and nowhere else but below it after a redirect, and every login whose token
\* arrives is stored or logged out (ReconfigureUpstream, UpsertEndpoint, DeleteEndpoint).
ControlPlaneSound ==
  /\ unit = "control" => Control!ControlPlaneSound
  /\ unit = "renaming" => Renaming!ControlPlaneSound

\* A save never buries a row its author did not see, denials win, one rule is first
\* and the previews tell what the gateway does (UpsertPolicy, FirstMatch, Select).
PoliciesSound == unit = "policies" => Rules!PoliciesSound
=============================================================================
