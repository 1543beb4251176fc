------------------------------- MODULE AdminAuth -------------------------------
(* The administrator's sessions: opaque, in memory, bounded in number and in   *)
(* time, each holding the token of a superuser; and the tickets that confirm a *)
(* reconfiguration.  A request passes several checks, each taking the lock of  *)
(* the store anew, with logouts, reauthentications and the clock in between.   *)
EXTENDS Integers, Sequences, FiniteSets

CONSTANTS
  Superusers, Requests,                        \* request: a slot for one under way
  MaxSessions, AbsoluteTTL, IdleTTL, ReauthTTL,
  RateLimit, Window,
  MaxIds, MaxTime,        \* bounds: sessions ever made, and the clock
  Nothing

VARIABLES
  session,    \* Store.sessions with those that are gone: [of, created, seen, state]
  ticket,     \* Store.reauth with those that are gone: [session, expires, kept]
  windows,    \* the rate limiters: of each session, and at 0 of the address
  valid,      \* superusers whose token PocketBase accepts
  request,    \* the requests under way
  confirmed,  \* what the tickets have confirmed: [ticket, session, ended]
  now

vars == <<session, ticket, windows, valid, request, confirmed, now>>

\* A limiter lets a first try through.
Assumption ==
  MaxSessions \in Nat /\ MaxIds \in Nat /\ ReauthTTL \in Nat /\ RateLimit \in Nat \ {0}

NoRequest == [pc |-> "idle", kind |-> "", id |-> 0, csrf |-> 0, ticket |-> 0, of |-> Nothing]

Init ==
  /\ session = <<>> /\ ticket = <<>>
  /\ windows = [k \in 0..MaxIds |-> Nothing]
  /\ valid = Superusers
  /\ request = [r \in Requests |-> NoRequest]
  /\ confirmed = <<>>
  /\ now = 0

-----------------------------------------------------------------------------
(* The store and the limiter *)

Live == {i \in DOMAIN session : session[i].state = "live"}

IsExpired(s) == now - s.created > AbsoluteTTL \/ now - s.seen > IdleTTL

TicketExpired(t) == ticket[t].expires <= now

\* expireLocked: the tickets of an expired session stay until their own end.
Swept ==
  [i \in DOMAIN session |->
     IF i \in Live /\ IsExpired(session[i]) THEN [session[i] EXCEPT !.state = "expired"]
     ELSE session[i]]
SweptTickets ==
  [t \in DOMAIN ticket |-> IF TicketExpired(t) THEN [ticket[t] EXCEPT !.kept = FALSE]
                           ELSE ticket[t]]

\* Get leaves a session it finds as it is and sweeps when there is none.
Got(i) == i \in Live /\ ~IsExpired(session[i])
Get(i) == IF Got(i) THEN UNCHANGED <<session, ticket>>
          ELSE session' = Swept /\ ticket' = SweptTickets

\* Delete drops the session's tickets with it.
Deleted(s, i) == IF i \in Live THEN [s EXCEPT ![i].state = "ended"] ELSE s
DeletedTickets_Faulty(i) == [t \in DOMAIN ticket |-> IF t > 0 THEN ticket[t] ELSE ticket[i]]
DeletedTickets(i) ==
  [t \in DOMAIN ticket |-> IF ticket[t].session = i THEN [ticket[t] EXCEPT !.kept = FALSE]
                           ELSE ticket[t]]

NewSession(u) == [of |-> u, created |-> now, seen |-> now, state |-> "live"]
HasRoom_Faulty(s) == Len(s) < MaxIds
HasRoom(s) ==
  Len(s) < MaxIds /\ Cardinality({i \in DOMAIN s : s[i].state = "live"}) < MaxSessions

WindowOpen(k) == windows[k] # Nothing /\ now - windows[k].start < Window
Allows(k) == WindowOpen(k) => windows[k].count < RateLimit
Counted(k) ==
  [windows EXCEPT ![k] = IF ~WindowOpen(k) THEN [count |-> 1, start |-> now]
                         ELSE [count |-> windows[k].count + 1, start |-> windows[k].start]]

\* ConsumeReauth: a ticket is gone when it was shown, also to the wrong session.
Consumes(i, t) == ticket[t].kept /\ ~TicketExpired(t) /\ ticket[t].session = i
Consumed(t) == [SweptTickets EXCEPT ![t].kept = FALSE]

Goto(r, pc) == request' = [request EXCEPT ![r].pc = pc]
Answered(r) == request' = [request EXCEPT ![r] = NoRequest]

-----------------------------------------------------------------------------
(* Requests *)

\* handleSessionCreate
SessionCreate(u) ==
  /\ Allows(0) /\ u \in valid
  /\ HasRoom(Swept)
  /\ windows' = Counted(0)
  /\ session' = Append(Swept, NewSession(u))
  /\ ticket' = SweptTickets
  /\ UNCHANGED <<valid, request, confirmed, now>>

SessionRefused(u) ==
  /\ Allows(0)
  /\ u \notin valid \/ (Len(session) < MaxIds /\ ~HasRoom(Swept))
  /\ windows' = Counted(0)
  /\ IF u \in valid THEN session' = Swept /\ ticket' = SweptTickets
     ELSE UNCHANGED <<session, ticket>>
  /\ UNCHANGED <<valid, request, confirmed, now>>

\* loadSession: the session of the cookie, whose token must still be accepted.
LoadSession(r, kind, i, csrf, t, u) ==
  /\ request[r].pc = "idle"
  /\ IF Got(i) /\ session[i].of \notin valid
     THEN session' = Deleted(session, i) /\ ticket' = DeletedTickets(i)
     ELSE Get(i)
  /\ request' = IF Got(i) /\ session[i].of \in valid
                THEN [request EXCEPT ![r] = [pc |-> "loaded", kind |-> kind, id |-> i,
                                             csrf |-> csrf, ticket |-> t, of |-> u]]
                ELSE request
  /\ UNCHANGED <<windows, valid, confirmed, now>>

\* withAuth: the limiter of the session, then Touch.
Touch(r) ==
  LET i == request[r].id IN
  /\ request[r].pc = "loaded"
  /\ windows' = IF Allows(i) THEN Counted(i) ELSE windows
  /\ IF Allows(i) /\ Got(i)
     THEN /\ session' = [session EXCEPT ![i].seen = now]
          /\ UNCHANGED ticket
          /\ IF request[r].kind = "read" THEN Answered(r) ELSE Goto(r, "touched")
     ELSE /\ IF Allows(i) THEN Get(i) ELSE UNCHANGED <<session, ticket>>
          /\ Answered(r)
  /\ UNCHANGED <<valid, confirmed, now>>

\* withAuthWrite
ValidateCSRF(r) ==
  LET i == request[r].id IN
  /\ request[r].pc = "touched"
  /\ Get(i)
  /\ IF Got(i) /\ request[r].csrf = i THEN Goto(r, request[r].kind) ELSE Answered(r)
  /\ UNCHANGED <<windows, valid, confirmed, now>>

\* handleSessionReauth: the session is replaced by one with the new token, which
\* may find the store full; the ticket belongs to the new one.
ReauthDelete(r) ==
  LET i == request[r].id IN
  /\ request[r].pc = "reauth"
  /\ IF request[r].of \in valid /\ request[r].of = session[i].of
     THEN session' = Deleted(session, i) /\ ticket' = DeletedTickets(i) /\ Goto(r, "create")
     ELSE UNCHANGED <<session, ticket>> /\ Answered(r)
  /\ UNCHANGED <<windows, valid, confirmed, now>>

ReauthCreate(r) ==
  /\ request[r].pc = "create" /\ Len(session) < MaxIds
  /\ ticket' = SweptTickets
  /\ IF HasRoom(Swept)
     THEN /\ session' = Append(Swept, NewSession(request[r].of))
          /\ request' = [request EXCEPT ![r].pc = "issue", ![r].id = Len(session) + 1]
     ELSE session' = Swept /\ Answered(r)
  /\ UNCHANGED <<windows, valid, confirmed, now>>

\* IssueReauth looks the session up and lets the lock go before the ticket is in.
IssueChecks(r) ==
  /\ request[r].pc = "issue"
  /\ Get(request[r].id)
  /\ IF Got(request[r].id) THEN Goto(r, "ticket") ELSE Answered(r)
  /\ UNCHANGED <<windows, valid, confirmed, now>>

IssueReauth(r) ==
  /\ request[r].pc = "ticket"
  /\ ticket' = Append(ticket, [session |-> request[r].id, expires |-> now + ReauthTTL,
                               kept |-> TRUE])
  /\ Answered(r)
  /\ UNCHANGED <<session, windows, valid, confirmed, now>>

\* handleUpstreamReconfigure begins by using the ticket up.
ConsumeReauth(r) ==
  LET i == request[r].id
      t == request[r].ticket IN
  /\ request[r].pc = "reconfigure"
  /\ IF t = 0 THEN UNCHANGED <<session, ticket>>
     ELSE session' = Swept /\ ticket' = Consumed(t)
  /\ confirmed' = IF t # 0 /\ Consumes(i, t)
                  THEN Append(confirmed, [ticket |-> t, session |-> i,
                                          ended |-> session[i].state = "ended"])
                  ELSE confirmed
  /\ Answered(r)
  /\ UNCHANGED <<windows, valid, now>>

SessionLogout(i) ==
  /\ session' = Deleted(session, i)
  /\ ticket' = DeletedTickets(i)
  /\ UNCHANGED <<windows, valid, request, confirmed, now>>

\* The superuser's tokens end elsewhere: a new password, or no superuser any more.
TokenRefused(u) ==
  /\ u \in valid
  /\ valid' = valid \ {u}
  /\ UNCHANGED <<session, ticket, windows, request, confirmed, now>>

Tick ==
  /\ now < MaxTime
  /\ now' = now + 1
  /\ UNCHANGED <<session, ticket, windows, valid, request, confirmed>>

RequestStep(r) ==
  \/ Touch(r) \/ ValidateCSRF(r)
  \/ ReauthDelete(r) \/ ReauthCreate(r) \/ IssueChecks(r) \/ IssueReauth(r)
  \/ ConsumeReauth(r)

Next ==
  \/ \E u \in Superusers : SessionCreate(u) \/ SessionRefused(u) \/ TokenRefused(u)
  \/ \E r \in Requests, i \in DOMAIN session :
       \/ LoadSession(r, "read", i, 0, 0, Nothing)
       \/ \E u \in Superusers, csrf \in {0, i} : LoadSession(r, "reauth", i, csrf, 0, u)
       \/ \E t \in {0} \cup DOMAIN ticket : LoadSession(r, "reconfigure", i, i, t, Nothing)
  \/ \E r \in Requests : RequestStep(r)
  \/ \E i \in DOMAIN session : SessionLogout(i)
  \/ Tick

Spec == Init /\ [][Next]_vars

-----------------------------------------------------------------------------
(* Properties *)

TypeOK ==
  /\ \A i \in DOMAIN session :
       /\ session[i].of \in Superusers /\ session[i].state \in {"live", "expired", "ended"}
       /\ session[i].created <= session[i].seen /\ session[i].seen <= now
  /\ \A t \in DOMAIN ticket : ticket[t].session \in DOMAIN session
  /\ \A r \in Requests : request[r].id \in {0} \cup DOMAIN session

\* However many logins and reauthentications run at once, the store and the
\* windows keep within their bounds.
WithinBounds ==
  /\ Cardinality(Live) <= MaxSessions
  /\ \A k \in 0..MaxIds : windows[k] # Nothing => windows[k].count <= RateLimit

\* A ticket confirms one reconfiguration, of the session it was issued to, and
\* none after that session was logged out: not even when it was put in after the
\* logout, by a reauthentication that had looked the session up before.
ConfirmedOnce ==
  \A n \in DOMAIN confirmed :
    /\ ticket[confirmed[n].ticket].session = confirmed[n].session
    /\ ~confirmed[n].ended
    /\ \A k \in DOMAIN confirmed : confirmed[k].ticket = confirmed[n].ticket => k = n

AdminSound == TypeOK /\ WithinBounds /\ ConfirmedOnce
===============================================================================
