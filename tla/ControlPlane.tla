----------------------------- MODULE ControlPlane -----------------------------
(* The stored upstream: one source, the endpoints it is reached by and the     *)
(* rules that send requests to them.  Administrators set the source up, change *)
(* it and try it out in several steps, with the upstream in between; endpoints *)
(* and rules are changed in transactions; the gateway renews the login and the *)
(* server's particulars meanwhile.  How tokens race is UpstreamAuth's subject. *)
EXTENDS Integers, Sequences, FiniteSets, SequencesExt

CONSTANTS
  Admins, Keys, Urls, Servers,
  Identities,                 \* user names, with the client a login is made as
  Primary,                    \* PrimaryEndpointKey, one of Keys
  Home,                       \* the URL it was set up with, if it was
  EmbyOf,                     \* the base with /emby of a URL that does not end in it
  MaxEndpoints, MaxTurns,     \* bounds
  Nothing

VARIABLES
  source,      \* the row of upstream_sources
  endpoints,   \* the rows of upstream_endpoints, oldest first
  rules,       \* the rows of route_rules: the enabled ones, by target
  saves,       \* how often a row was saved: the times in column updated
  op,          \* what an administrator's request is doing
  refresh,     \* RefreshUpstreamServerInfo
  nextId, logins, live,       \* endpoints and logins so far; logins that are valid upstream
  sent, lost, stranded,       \* stored passwords that went out, logouts that failed, cut rules
  unheard,                    \* logins granted in an answer that never came, or without its token
  turns

stored == <<source, endpoints, rules, saves, nextId>>
upstream == <<logins, live>>
ghosts == <<sent, lost, stranded, unheard>>
vars == <<stored, op, refresh, upstream, ghosts, turns>>

Turn == turns < MaxTurns /\ turns' = turns + 1

\* The row of the source, with its login and password, and a look at its server.  A
\* login, 0 for none, is the token, the user id and the generation, written together.
SourceRecord ==
  [server : Servers, info : Servers, checked : Nat, identity : Identities,
   password : {"stored", "new"}, login : Nat]
RefreshRecord == [server : Servers, info : Servers]

\* Set-up has a key and a URL to use, /emby is put after a URL, and Nothing is no row,
\* no URL and no password.
Assumption ==
  /\ Primary \in Keys /\ Home \in Urls /\ EmbyOf \in [Urls -> Urls \cup {Nothing}]
  /\ MaxEndpoints \in Nat
  /\ Nothing \notin Urls \cup {"stored", "new"}
  /\ Nothing \notin SourceRecord \cup RefreshRecord

-----------------------------------------------------------------------------
(* Reading the stored upstream *)

\* ValidateUpstreamEndpoints
Valid(eps) ==
  LET defaults == {i \in DOMAIN eps : eps[i].default}
  IN Cardinality(defaults) = 1 /\ \A i \in defaults : eps[i].enabled

\* The indexes: the keys and the URLs differ, and at most one row is the default.
Indexed(eps) ==
  \A i, j \in DOMAIN eps :
    i # j => /\ eps[i].key # eps[j].key /\ eps[i].url # eps[j].url
             /\ ~(eps[i].default /\ eps[j].default)

\* loadDefaultUpstreamRuntime
Loads == source # Nothing /\ Valid(endpoints)

DefaultEndpoint == SelectLastInSeq(endpoints, LAMBDA e : e.default)
EnabledByKey(k) == SelectInSeq(endpoints, LAMBDA e : e.enabled /\ e.key = k)

\* upstreamRequestSnapshotFromRuntimeEndpoint
Projected(key) == IF key = Nothing THEN DefaultEndpoint ELSE EnabledByKey(key)

\* selectUpstreamSnapshot: a rule without its target means the default.
Route(target) ==
  Projected(IF target # Nothing /\ EnabledByKey(target) = 0 THEN Nothing ELSE target)

\* UpstreamFingerprint
Fingerprint == <<source, endpoints, saves>>

\* defaultEndpointRecord and rejectEndpointCollision
HasDefault == Valid(endpoints)
Collision(url) == \E i \in DOMAIN endpoints : endpoints[i].url = url /\ ~endpoints[i].enabled

\* ResolveBackendPassword: the stored one is for the configured base alone.
Resolved_Faulty(given, url) ==
  IF given # Nothing THEN given ELSE IF source = Nothing THEN Nothing ELSE source.password
Resolved(given, url) ==
  IF given # Nothing THEN given
  ELSE IF source = Nothing \/ ~HasDefault THEN Nothing
  ELSE IF endpoints[DefaultEndpoint].url # url THEN Nothing ELSE source.password

-----------------------------------------------------------------------------
(* Initial state: not set up yet, as set-up leaves it, or without its login *)

NewEndpoint(id, key, url) ==
  [id |-> id, key |-> key, url |-> url, enabled |-> TRUE, default |-> TRUE, ws |-> FALSE]
\* No request, and one that is left with a login to log out.
Idle == [pc |-> "idle"]
Owing(login) == [pc |-> "cleanup", login |-> login]

Init ==
  /\ \/ source = Nothing /\ endpoints = <<>> /\ nextId = 1 /\ logins = 0
     \/ \E s \in Servers, i \in Identities, l \in {0, 1} :
          /\ source = [server |-> s, info |-> s, checked |-> 0, identity |-> i,
                       password |-> "stored", login |-> l]
          /\ endpoints = <<NewEndpoint(1, Primary, Home)>>
          /\ nextId = 2 /\ logins = l
  /\ live = 1..logins
  /\ rules = {} /\ saves = 0
  /\ op = [a \in Admins |-> Idle] /\ refresh = Nothing
  /\ sent = {} /\ lost = {} /\ stranded = {} /\ unheard = {} /\ turns = 0

-----------------------------------------------------------------------------
(* Setting up, reconfiguring and probing: kind is one of these *)

\* UpstreamRequest: no answer, one that is too long or not JSON, a failure or a
\* redirect; or a server's.
Answers == Servers \cup {"redirect", "down"}

\* ProbeEndpointWebSocket: only switching protocols will do.
Capable(status) == status = "switching"

Become(a, r) == op' = [op EXCEPT ![a] = r]

\* The form: pbsetup may create the source and is a reconfiguration when there is
\* one, the console may not; an empty password stands for the stored one.  Whom a probe
\* logs in as is stored nowhere.
Ask(a, kind, url, identity, password) ==
  /\ op[a] = Idle /\ Turn
  /\ kind = "setup" => source = Nothing
  /\ Become(a, [pc |-> IF kind = "probe" THEN "resolve" ELSE "load", kind |-> kind, url |-> url,
                identity |-> IF kind = "probe" THEN Nothing ELSE identity, password |-> password,
                seen |-> Nothing, expected |-> Nothing, public |-> Nothing, retried |-> FALSE,
                noop |-> FALSE, login |-> 0, old |-> 0, base |-> Nothing])
  /\ UNCHANGED <<stored, refresh, upstream, ghosts>>

\* ReconfigureUpstream's first look at the store.
Load(a) ==
  /\ op[a].pc = "load"
  /\ IF \/ source = Nothing /\ op[a].kind = "reconfigure"
        \/ source # Nothing /\ (~HasDefault \/ Collision(op[a].url))
     THEN Become(a, Idle)
     ELSE Become(a, [op[a] EXCEPT !.pc = "resolve", !.seen = Fingerprint,
                       !.expected = IF source = Nothing THEN Nothing ELSE source.server,
                       !.old = IF source = Nothing THEN 0 ELSE source.login])
  /\ UNCHANGED <<stored, refresh, upstream, ghosts, turns>>

\* The password is resolved by a look of its own.  A form that repeats all that is
\* stored, of a source with a login, is only checked against the public particulars
\* (completeNoop).
Resolve(a) ==
  /\ op[a].pc = "resolve"
  /\ LET o == op[a]
         p == Resolved(o.password, o.url)
         reused == o.password = Nothing
         seenSource == IF o.seen = Nothing THEN Nothing ELSE o.seen[1]
         same == /\ seenSource # Nothing
                 /\ seenSource.password = p /\ seenSource.identity = o.identity
                 /\ seenSource.login # 0
                 /\ \E i \in DOMAIN o.seen[2] : o.seen[2][i].default /\ o.seen[2][i].url = o.url
     IN IF p = Nothing THEN Become(a, Idle)
        ELSE Become(a, [o EXCEPT !.pc = "public", !.password = p, !.noop = same,
                          !.base = IF reused THEN endpoints[DefaultEndpoint].url ELSE Nothing])
  /\ UNCHANGED <<stored, refresh, upstream, ghosts, turns>>

\* probeUpstreamPublic, at the base and, when that redirects, once below it: a
\* server answers with its identity, or there is no answer.
Public(a, answer) ==
  /\ op[a].pc = "public"
  /\ LET o == op[a] IN
     IF answer = "redirect" /\ ~o.retried /\ EmbyOf[o.url] # Nothing
     THEN Become(a, [o EXCEPT !.url = EmbyOf[o.url], !.retried = TRUE])
     ELSE IF \/ answer \notin Servers \/ o.noop
             \/ o.expected # Nothing /\ answer # o.expected
     THEN Become(a, Idle)
     ELSE Become(a, [o EXCEPT !.pc = "login", !.public = answer])
  /\ UNCHANGED <<stored, refresh, upstream, ghosts, turns>>

\* authenticateUpstream: the password goes out, and the login is refused or granted.
\* The answer may be another server's or lack a field; its token is kept to be logged
\* out even so.
Sent(o) == IF o.base = Nothing THEN sent
           ELSE sent \cup {[to |-> o.url, base |-> o.base, redirected |-> o.retried]}
Login(a, answer, complete) ==
  /\ op[a].pc = "login"
  /\ sent' = Sent(op[a])
  /\ IF answer = "refused" THEN Become(a, Idle) /\ UNCHANGED upstream
     ELSE /\ logins' = logins + 1 /\ live' = live \cup {logins + 1}
          /\ Become(a, IF answer = op[a].public /\ complete /\ op[a].kind # "probe"
                       THEN [op[a] EXCEPT !.pc = "commit", !.login = logins + 1]
                       ELSE Owing(logins + 1))
  /\ UNCHANGED <<stored, refresh, lost, stranded, unheard, turns>>

\* It is granted, and the answer is lost, too long, not JSON or without its token:
\* there is nothing to log out with.
LoginUnheard(a) ==
  /\ op[a].pc = "login"
  /\ sent' = Sent(op[a])
  /\ logins' = logins + 1 /\ live' = live \cup {logins + 1}
  /\ unheard' = unheard \cup {logins + 1}
  /\ Become(a, Idle)
  /\ UNCHANGED <<stored, refresh, lost, stranded, turns>>

\* The transaction of ReconfigureUpstream: a deadline, a change since the first
\* look, another owner of the URL or an index undoes it all.
Moved(url) == IF source = Nothing THEN <<NewEndpoint(nextId, Primary, url)>>
              ELSE [endpoints EXCEPT ![DefaultEndpoint].url = url]
Undisturbed_Faulty(o) ==
  ~Collision(o.url) /\ (source # Nothing => HasDefault)
Undisturbed(o) ==
  /\ o.seen = Fingerprint /\ ~Collision(o.url)
  /\ source # Nothing => HasDefault /\ source.server = o.public
  /\ Indexed(Moved(o.url))

Commit(a, inTime) ==
  /\ op[a].pc = "commit"
  /\ LET o == op[a]
     IN IF inTime /\ Undisturbed(o)
        THEN /\ source' = [server |-> o.public, info |-> o.public, checked |-> 0,
                           identity |-> o.identity, password |-> o.password,
                           login |-> o.login]
             /\ endpoints' = Moved(o.url) /\ saves' = saves + 1
             /\ nextId' = IF source = Nothing THEN nextId + 1 ELSE nextId
             /\ Become(a, Owing(o.old))
        ELSE Become(a, Owing(o.login)) /\ UNCHANGED <<source, endpoints, saves, nextId>>
  /\ UNCHANGED <<rules, refresh, upstream, ghosts, turns>>

\* logoutUpstream, unless the login is the one that is stored; that it cannot be told
\* whose it is (ClassifyTokenOwnership) is as a logout that fails.
LogOut(login, works) ==
  IF login = 0 \/ (source # Nothing /\ source.login = login) THEN UNCHANGED <<live, lost>>
  ELSE IF works THEN live' = live \ {login} /\ UNCHANGED lost
  ELSE lost' = lost \cup {login} /\ UNCHANGED live

\* What a failed attempt or a probe obtained, or what a successful one replaced.
Finish(a, works) ==
  /\ op[a].pc = "cleanup"
  /\ LogOut(op[a].login, works)
  /\ Become(a, Idle)
  /\ UNCHANGED <<stored, refresh, logins, sent, stranded, unheard, turns>>

-----------------------------------------------------------------------------
(* Endpoints and rules *)

Targeted(key) == key \in rules

\* Rules whose endpoint was enabled, kept its row's key and is gone or disabled.
Cut(new) ==
  {k \in rules : \E i \in DOMAIN endpoints :
     /\ endpoints[i].enabled /\ endpoints[i].key = k
     /\ ~\E j \in DOMAIN new : new[j].id = endpoints[i].id /\ (new[j].enabled \/ new[j].key # k)}

SaveEndpoints(new) ==
  /\ endpoints' = new /\ saves' = saves + 1
  /\ stranded' = stranded \cup Cut(new)
  /\ UNCHANGED <<source, rules, op, refresh, upstream, sent, lost, unheard>>

\* UpsertEndpoint: the rows once the others' claims to be the default are
\* cleared and this row is saved; then the oldest enabled one is promoted.
Saved(at, row) ==
  LET was == at <= Len(endpoints) /\ endpoints[at].default
      cleared == [i \in DOMAIN endpoints |->
                    IF row.default /\ ~was THEN [endpoints[i] EXCEPT !.default = FALSE]
                    ELSE endpoints[i]]
  IN IF at <= Len(endpoints) THEN [cleared EXCEPT ![at] = row] ELSE Append(cleared, row)

Promoted_Faulty(rows) ==
  LET first == SelectInSeq(rows, LAMBDA e : e.enabled)
  IN IF \E i \in DOMAIN rows : rows[i].default THEN rows
     ELSE [rows EXCEPT ![first].default = TRUE]
Promoted(rows) ==
  LET first == SelectInSeq(rows, LAMBDA e : e.enabled)
  IN IF \E i \in DOMAIN rows : rows[i].enabled /\ rows[i].default THEN rows
     ELSE [rows EXCEPT ![first].default = TRUE]

UpsertEndpoint(at, key, url, enabled, default) ==
  LET new == at > Len(endpoints)
      row == [id |-> IF new THEN nextId ELSE endpoints[at].id, key |-> key, url |-> url,
              enabled |-> enabled, default |-> default, ws |-> ~new /\ endpoints[at].ws]
      rows == Saved(at, row)
  IN /\ source # Nothing
     /\ \A i \in DOMAIN endpoints \ {at} : endpoints[i].key # key /\ endpoints[i].url # url
     /\ (~new /\ endpoints[at].enabled /\ ~enabled) => ~Targeted(key)
     /\ \E i \in DOMAIN rows : rows[i].enabled
     /\ Indexed(rows) /\ Indexed(Promoted(rows))
     /\ SaveEndpoints(Promoted(rows))
     /\ nextId' = IF new THEN nextId + 1 ELSE nextId

\* handleCreateEndpoint and handleUpdateEndpoint
CreateEndpoint(key, url, enabled, default) ==
  /\ Len(endpoints) < MaxEndpoints /\ Turn
  /\ UpsertEndpoint(Len(endpoints) + 1, key, url, enabled, default)
UpdateEndpoint(at, key, url, enabled, default) ==
  /\ at \in DOMAIN endpoints /\ Turn
  /\ UpsertEndpoint(at, key, url, enabled, default)

DeleteEndpoint_Faulty(at) ==
  /\ at \in DOMAIN endpoints /\ Turn
  /\ ~endpoints[at].default
  /\ SaveEndpoints(RemoveAt(endpoints, at))
  /\ UNCHANGED nextId
DeleteEndpoint(at) ==
  /\ at \in DOMAIN endpoints /\ Turn
  /\ ~endpoints[at].default /\ ~Targeted(endpoints[at].key)
  /\ SaveEndpoints(RemoveAt(endpoints, at))
  /\ UNCHANGED nextId

\* handleProbeEndpointWebSocket: the outcome goes to the row that was read, if
\* it is still there, whatever its URL is by then.
ProbeWebSocket(a, at) ==
  /\ op[a] = Idle /\ at \in DOMAIN endpoints /\ Turn
  /\ Become(a, [pc |-> "websocket", id |-> endpoints[at].id])
  /\ UNCHANGED <<stored, refresh, upstream, ghosts>>

RecordWebSocketProbeResult(a, capable) ==
  /\ op[a].pc = "websocket"
  /\ LET at == SelectInSeq(endpoints, LAMBDA e : e.id = op[a].id)
     IN IF at = 0 THEN UNCHANGED <<endpoints, saves>>
        ELSE endpoints' = [endpoints EXCEPT ![at].ws = capable] /\ saves' = saves + 1
  /\ Become(a, Idle)
  /\ UNCHANGED <<source, rules, nextId, refresh, upstream, ghosts, turns>>

\* UpsertRouteRule and DeleteRouteRule: no target is looked up.
EditRules(new) ==
  /\ new # rules /\ Turn /\ rules' = new
  /\ UNCHANGED <<source, endpoints, saves, nextId, op, refresh, upstream, ghosts>>

-----------------------------------------------------------------------------
(* The gateway *)

\* CompareAndSwapUpstreamAuth, after a login of its own, and the logout of the one it
\* replaces.
Renew(works) ==
  /\ Loads /\ Turn
  /\ logins' = logins + 1
  /\ source' = [source EXCEPT !.login = logins + 1]
  /\ IF works \/ source.login = 0
     THEN live' = (live \ {source.login}) \cup {logins + 1} /\ UNCHANGED lost
     ELSE live' = live \cup {logins + 1} /\ lost' = lost \cup {source.login}
  /\ UNCHANGED <<endpoints, rules, saves, nextId, op, refresh, sent, stranded, unheard>>

RenewUnheard ==
  /\ Loads /\ Turn
  /\ logins' = logins + 1 /\ live' = live \cup {logins + 1}
  /\ unheard' = unheard \cup {logins + 1}
  /\ UNCHANGED <<stored, op, refresh, sent, lost, stranded>>

\* RefreshUpstreamServerInfo: the source is read, its default endpoint asked.
BeginRefresh(answer) ==
  /\ refresh = Nothing /\ Loads /\ Turn
  /\ answer = source.server
  /\ refresh' = [server |-> source.server, info |-> answer]
  /\ UNCHANGED <<stored, op, upstream, ghosts>>

\* UpdateUpstreamServerInfo: of this server only; the time of the check changes.
UpdateServerInfo ==
  /\ refresh # Nothing /\ source # Nothing
  /\ IF source.server = refresh.server
     THEN source' = [source EXCEPT !.info = refresh.info, !.checked = @ + 1]
     ELSE UNCHANGED source
  /\ refresh' = Nothing
  /\ UNCHANGED <<endpoints, rules, saves, nextId, op, upstream, ghosts, turns>>

-----------------------------------------------------------------------------

Next ==
  \/ \E a \in Admins, k \in {"setup", "reconfigure", "probe"}, u \in Urls,
        i \in Identities, p \in {Nothing, "new"} : Ask(a, k, u, i, p)
  \/ \E a \in Admins : Load(a) \/ Resolve(a) \/ LoginUnheard(a)
  \/ \E a \in Admins, s \in Answers : Public(a, s)
  \/ \E a \in Admins, s \in Servers \cup {"refused"}, c \in BOOLEAN : Login(a, s, c)
  \/ \E a \in Admins, b \in BOOLEAN : Commit(a, b) \/ Finish(a, b)
  \/ \E k \in Keys, u \in Urls, e, d \in BOOLEAN : CreateEndpoint(k, u, e, d)
  \/ \E i \in 1..MaxEndpoints, k \in Keys, u \in Urls, e, d \in BOOLEAN :
       UpdateEndpoint(i, k, u, e, d)
  \/ \E i \in 1..MaxEndpoints : DeleteEndpoint(i)
  \/ \E a \in Admins, i \in 1..MaxEndpoints : ProbeWebSocket(a, i)
  \/ \E a \in Admins, s \in {"switching", "other"} :
       RecordWebSocketProbeResult(a, Capable(s))
  \/ \E k \in Keys : EditRules(rules \cup {k}) \/ EditRules(rules \ {k})
  \/ \E b \in BOOLEAN : Renew(b)
  \/ RenewUnheard
  \/ \E s \in Servers : BeginRefresh(s)
  \/ UpdateServerInfo

Spec == Init /\ [][Next]_vars

-----------------------------------------------------------------------------
(* Properties *)

TypeOK ==
  /\ source = Nothing <=> endpoints = <<>>
  /\ rules \subseteq Keys
  /\ live \subseteq 1..logins /\ lost \subseteq live /\ unheard \subseteq live

\* Once there is a source it loads, whatever administrators do and in whatever
\* order: one default, enabled; keys and URLs that differ; and every request,
\* with a rule or without, has an enabled endpoint to go to.
AlwaysRoutable ==
  source # Nothing =>
    /\ Loads /\ Indexed(endpoints)
    /\ \A k \in Keys \cup {Nothing} : endpoints[Route(k)].enabled

\* No deletion and no disabling takes an enabled endpoint from an enabled rule,
\* as long as the endpoint keeps its key.
RulesKeepTargets == stranded = {}

\* The particulars that are shown are those of the server the login is for.
InfoOfServer == source # Nothing => source.info = source.server

\* A password the console did not type goes to the base it was configured with at the
\* time, and below that base only when the base redirected the same request.
PasswordNearHome ==
  \A s \in sent : s.to = IF s.redirected THEN EmbyOf[s.base] ELSE s.base

\* The stored login is valid, and of the other valid ones each whose token the gateway
\* was given is in the hands of a request that will store it or log it out, unless a
\* logout failed.
LoginsAccounted ==
  /\ source # Nothing /\ source.login # 0 => source.login \in live
  /\ \A l \in live \ unheard :
       \/ source # Nothing /\ source.login = l
       \/ l \in lost
       \/ \E a \in Admins : op[a].pc \in {"commit", "cleanup"} /\ op[a].login = l

ControlPlaneSound ==
  /\ TypeOK /\ AlwaysRoutable /\ RulesKeepTargets /\ InfoOfServer /\ PasswordNearHome
  /\ LoginsAccounted
=============================================================================
