-------------------------------- MODULE SshMux --------------------------------
(***************************************************************************)
(* Connection multiplexing of SshConnectionManager                         *)
(* (server/src/ssh/connection-manager.ts: connect, connectRoute,           *)
(* acquireShared, retireReplacedTransports, connectShell, retryPlainShell) *)
(* over the lease registry of ConnectionLeases.                            *)
(*                                                                         *)
(* Sessions to one host either share a live transport with the same dial   *)
(* plan, wait for a dial already in flight, or dial.  A forced reconnect   *)
(* carries a token: it takes no transport older than itself, shares one    *)
(* replacement with the other sessions of the same gesture, and retires    *)
(* the transports it replaces.  A host may have several jump routes that   *)
(* are tried in turn.                                                      *)
(*                                                                         *)
(* What node runs as microtasks after a dial settles happens before the    *)
(* next event: the continuations (Resume) take priority over every other   *)
(* action (Quiet).                                                         *)
(***************************************************************************)
EXTENDS ConnectionLeases, Sequences, SequencesExt

CONSTANTS Route,      \* jump routes to the host, as dial-plan identities
          Routes,     \* the host's routes in order: the primary, the fallbacks
          Token,      \* forced-reconnect gestures
          NoToken,    \* a request that is no forced reconnect
          NoConn,
          MayShutDown \* bound: whether the application may end (once); no
                      \* session is opened after that

ASSUME MuxAssumption ==
  /\ Routes \in Seq(Route) /\ Len(Routes) > 0
  /\ NoToken \notin Token /\ NoConn \notin Conn
  /\ MayShutDown \in BOOLEAN

VARIABLES
  req,         \* req[h]: the session's connect request
  dial,        \* dial[c]: the dial that produces transport c
  pending,     \* pendingDials: per mux key, the joinable dials, oldest first
  superseded,  \* the transports a forced replacement retired
  plainKeys,   \* automaticPlainShellKeys
  lastRoute,   \* lastWorkingRoute: index into Routes
  born,        \* registered transports in order, and the plans each was
               \* forced to replace (for the properties)
  gestures     \* the forced-reconnect gestures begun (for the properties)

muxVars == <<req, dial, pending, superseded, plainKeys, lastRoute, born, gestures>>
vars == <<leaseVars, muxVars>>

\* muxKey(): the dial plan, and whether the shell is a plain console.
Key == [route : Route, plain : BOOLEAN]

Request ==
  [phase : {"idle", "dialing", "waiting", "connected", "shell", "failed"},
   token : Token \union {NoToken},
   dedicated : BOOLEAN,
   plans : Seq(Key), at : Nat, \* the routes planned, and the one being tried
   on : Conn \union {NoConn},  \* the dial waited for, or the leased transport
   reused : BOOLEAN]

NoRequest == [phase |-> "idle", token |-> NoToken, dedicated |-> FALSE,
              plans |-> <<>>, at |-> 0, on |-> NoConn, reused |-> FALSE]

NoDial == [phase |-> "none", key |-> [route |-> Routes[1], plain |-> FALSE], token |-> NoToken,
           since |-> {}]   \* the gestures begun when it began

Init ==
  /\ LeaseInit
  /\ req = [h \in Holder |-> NoRequest]
  /\ dial = [c \in Conn |-> NoDial]
  /\ pending = [k \in Key |-> <<>>]
  /\ superseded = {}
  /\ plainKeys = {}
  /\ lastRoute = 1
  /\ born = <<>>
  /\ gestures = {}

Phase(h) == req[h].phase

\* A request whose dial settled and whose continuation is still to run.
Settled(h) ==
  /\ Phase(h) \in {"dialing", "waiting"}
  /\ dial[req[h].on].phase # "flying"

Quiet == \A h \in Holder : ~Settled(h)

(***************************************************************************)
(* Sharing.  Health is passive keepalive news that changes at any time, so *)
(* a transport found suspect is a free choice.                             *)
(***************************************************************************)
Eligible(c, key, token) ==
  /\ c \in Listed
  /\ dial[c].key = key
  /\ IF token = NoToken THEN c \notin superseded ELSE dial[c].token = token

\* acquireShared(): the least busy healthy candidate.
Candidates(key, token, healthy) == {c \in healthy : Eligible(c, key, token)}

LeastBusy(S) == {c \in S : \A d \in S : LeaseCount(c) <= LeaseCount(d)}

(***************************************************************************)
(* A session gets a lease on c, or waits for c's dial.                     *)
(***************************************************************************)
SetRequest(h, r) == req' = [req EXCEPT ![h] = r]

Connected(r, c, reused) == [r EXCEPT !.phase = "connected", !.on = c, !.reused = reused]

\* retireReplacedTransports(): the listed transports of a plan, except the
\* replacement.
Replaced(key, c) == {d \in Listed : d # c /\ dial[d].key = key}

\* connect() after a forced reconnect: those of the host's other routes.
OtherPlans(r) == Range(r.plans) \ {r.plans[r.at]}

\* Variant: only the plan the reconnect landed on is retired.
ReplacedNowhere(r, c) == {}

ReplacedElsewhere(r, c) ==
  IF r.token = NoToken THEN {} ELSE UNION {Replaced(k, c) : k \in OtherPlans(r)}

\* Variant: the index is counted from one route too far.
RouteIndexNext(r) == 1 + CHOOSE i \in DOMAIN Routes : Routes[i] = r.plans[r.at].route

RouteIndex(r) == CHOOSE i \in DOMAIN Routes : Routes[i] = r.plans[r.at].route

Share(h, r, c) ==
  /\ Acquire(h, c)
  /\ SetRequest(h, Connected(r, c, TRUE))
  /\ lastRoute' = RouteIndex(r)
  /\ superseded' = superseded \union ReplacedElsewhere(r, c)
  /\ UNCHANGED <<dial, pending, plainKeys, born>>

\* Variant: a gesture joins the newest dial too.
JoinableAny(r, key) == {c \in Range(pending[key]) : c = Last(pending[key])}

\* A gesture joins only its own dial, anyone else the newest.
Joinable(r, key) ==
  IF r.token # NoToken
    THEN {c \in Range(pending[key]) : dial[c].token = r.token}
    ELSE {c \in Range(pending[key]) : c = Last(pending[key])}

Join(h, r, c) ==
  /\ SetRequest(h, [r EXCEPT !.phase = "waiting", !.on = c])
  /\ UNCHANGED <<leaseVars, dial, pending, superseded, plainKeys, lastRoute, born>>

\* A dial that failed produced no transport: its identity serves the next
\* route of the request, once nobody else is still to hear of the failure.
Unused(h) ==
  {c \in Conn :
     \/ dial[c].phase = "none"
     \/ /\ dial[c].phase = "route failed" /\ req[h].on = c
        /\ \A k \in Holder \ {h} : req[k].on # c}

StartDial(h, r) ==
  /\ \E c \in Unused(h) :
       /\ dial' = [dial EXCEPT ![c] =
                     [phase |-> "flying", key |-> r.plans[r.at], token |-> r.token,
                      since |-> gestures \union ({r.token} \ {NoToken})]]
       /\ pending' = IF r.dedicated THEN pending
                     ELSE [pending EXCEPT ![r.plans[r.at]] = Append(@, c)]
       /\ SetRequest(h, [r EXCEPT !.phase = "dialing", !.on = c])
  /\ UNCHANGED <<superseded, lastRoute, born>>

\* connectRoute() for the plan r.plans[r.at], up to its first await.
TryRoute(h, r) ==
  LET key == r.plans[r.at] IN
  \E healthy \in SUBSET Listed :
    LET shared == IF r.dedicated THEN {} ELSE Candidates(key, r.token, healthy)
        joined == IF r.dedicated THEN {} ELSE Joinable(r, key)
    IN  \/ \E c \in LeastBusy(shared) : Share(h, r, c)
        \/ /\ shared = {}
           /\ \E c \in joined : Join(h, r, c)
        \/ /\ shared = {} /\ joined = {}
           /\ StartDial(h, r)
           /\ UNCHANGED <<leaseVars, plainKeys>>

(***************************************************************************)
(* connect(): plan every route, the one that worked last first.  Without a *)
(* token a live transport over any of them serves the request first.       *)
(***************************************************************************)
RouteOrder == <<Routes[lastRoute]>> \o RemoveAt(Routes, lastRoute)

NewRequest(token, dedicated, plain, plainPlans) ==
  [NoRequest EXCEPT
     !.token = token, !.dedicated = dedicated, !.at = 1,
     !.plans = [i \in 1 .. Len(Routes) |->
                  [route |-> RouteOrder[i],
                   plain |-> plain \/ RouteOrder[i] \in plainPlans]]]

ShareAnyRoute(h, r, healthy) ==
  \E i \in DOMAIN r.plans :
    /\ \A j \in 1 .. i - 1 : Candidates(r.plans[j], NoToken, healthy) = {}
    /\ \E c \in LeastBusy(Candidates(r.plans[i], NoToken, healthy)) :
         /\ Acquire(h, c)
         /\ SetRequest(h, Connected([r EXCEPT !.at = i], c, TRUE))
    /\ UNCHANGED <<dial, pending, superseded, plainKeys, lastRoute, born>>

\* A session opens, or is forced to reconnect.
Connect(h, token) ==
  LET r == NewRequest(token, FALSE, FALSE, plainKeys) IN
  /\ Quiet
  /\ Phase(h) \in {"idle", "failed"} /\ shutDown = {}
  /\ IF token = NoToken /\ Len(Routes) > 1
       THEN \E healthy \in SUBSET Listed :
              \/ ShareAnyRoute(h, r, healthy)
              \/ /\ \A k \in Range(r.plans) : Candidates(k, NoToken, healthy) = {}
                 /\ TryRoute(h, r)
       ELSE TryRoute(h, r)
  /\ gestures' = gestures \union ({token} \ {NoToken})

(***************************************************************************)
(* A dial settles, and leaves pendingDials.                                *)
(***************************************************************************)
Unlist(c) == [k \in Key |-> RemoveFirst(pending[k], c)]

Retired(r, c) ==
  (IF r.token = NoToken THEN {} ELSE Replaced(dial[c].key, c)) \union ReplacedElsewhere(r, c)

DialReady(h) ==
  LET r == req[h]
      c == r.on
  IN  /\ Quiet
      /\ Phase(h) = "dialing" /\ dial[c].phase = "flying"
      /\ Register(h, c)
      /\ dial' = [dial EXCEPT ![c].phase = "ready"]
      /\ pending' = Unlist(c)
      /\ superseded' = superseded \union Retired(r, c)
      /\ SetRequest(h, Connected(r, c, FALSE))
      /\ lastRoute' = RouteIndex(r)
      /\ born' = Append(born, [conn |-> c,
                               replaces |-> IF r.token = NoToken THEN {} ELSE Range(r.plans)])
      /\ UNCHANGED <<plainKeys, gestures>>

\* Another jump route may avoid the failure, or not (isRouteFailure).
DialFails(h) ==
  LET c == req[h].on IN
  /\ Quiet
  /\ Phase(h) = "dialing" /\ dial[c].phase = "flying"
  /\ \E outcome \in {"failed", "route failed"} : dial' = [dial EXCEPT ![c].phase = outcome]
  /\ pending' = Unlist(c)
  /\ UNCHANGED <<leaseVars, req, superseded, plainKeys, lastRoute, born, gestures>>

\* The session that waited takes its own lease.  It would dial after all if
\* the transport died "between ready and acquire"; no event comes between.
ResumeWaiter(h) ==
  LET r == req[h] IN
  /\ Phase(h) = "waiting" /\ dial[r.on].phase = "ready"
  /\ IF r.on \in Listed THEN Share(h, r, r.on)
                         ELSE StartDial(h, r) /\ UNCHANGED <<leaseVars, plainKeys>>
  /\ UNCHANGED gestures

RouteFailed(h) == Settled(h) /\ dial[req[h].on].phase = "route failed"

NextRoute(h) ==
  /\ RouteFailed(h) /\ req[h].at < Len(req[h].plans)
  /\ TryRoute(h, [req[h] EXCEPT !.at = @ + 1])
  /\ UNCHANGED gestures

\* No route is left, or none would help; or the model ran out of transports.
\* Variant: only the last route's failure reaches those that wait.
GiveUpLastRoute(h) ==
  /\ RouteFailed(h) /\ (req[h].at = Len(req[h].plans) \/ Unused(h) = {})
  /\ SetRequest(h, [NoRequest EXCEPT !.phase = "failed"])
  /\ UNCHANGED <<leaseVars, dial, pending, superseded, plainKeys, lastRoute, born, gestures>>

GiveUp(h) ==
  /\ \/ Settled(h) /\ dial[req[h].on].phase = "failed"
     \/ RouteFailed(h) /\ (req[h].at = Len(req[h].plans) \/ Unused(h) = {})
  /\ SetRequest(h, [NoRequest EXCEPT !.phase = "failed"])
  /\ UNCHANGED <<leaseVars, dial, pending, superseded, plainKeys, lastRoute, born, gestures>>

(***************************************************************************)
(* connectShell().  A refused session on a shared transport (MaxSessions)  *)
(* gets a dedicated one; a transport that died of the shell integration    *)
(* probe gets a dedicated plain console, and the plan is remembered.       *)
(***************************************************************************)
ShellOpens(h) ==
  /\ Quiet
  /\ Phase(h) = "connected" /\ transport[req[h].on] = "open"
  /\ SetRequest(h, [req[h] EXCEPT !.phase = "shell"])
  /\ UNCHANGED <<leaseVars, dial, pending, superseded, plainKeys, lastRoute, born, gestures>>

\* Variant: the lease is not given back on the way to the next attempt.
GiveBackNever(h) == UNCHANGED leaseVars

GiveBack(h) == Release(h)

ShellRefused(h) ==
  /\ Quiet
  /\ Phase(h) = "connected"
  /\ GiveBack(h)
  /\ IF req[h].reused
       THEN StartDial(h, NewRequest(NoToken, TRUE, FALSE, plainKeys))
       ELSE /\ SetRequest(h, [NoRequest EXCEPT !.phase = "failed"])
            /\ UNCHANGED <<dial, pending, superseded, lastRoute, born>>
  /\ UNCHANGED <<plainKeys, gestures>>

ShellKillsTransport(h) ==
  LET key == dial[req[h].on].key IN
  /\ Quiet
  /\ Phase(h) = "connected" /\ ~key.plain
  /\ transport[req[h].on] \in {"lost", "closed"}
  /\ GiveBack(h)
  /\ plainKeys' = plainKeys \union {key.route}
  /\ StartDial(h, NewRequest(NoToken, TRUE, TRUE, plainKeys))
  /\ UNCHANGED gestures

\* A terminal, transfer or tunnel ends.
Leave(h) ==
  /\ Quiet
  /\ Phase(h) \in {"connected", "shell"}
  /\ Release(h)
  /\ SetRequest(h, NoRequest)
  /\ UNCHANGED <<dial, pending, superseded, plainKeys, lastRoute, born, gestures>>

Transport ==
  /\ Quiet
  /\ \E c \in Conn : Lose(c) \/ SocketClosed(c)
  /\ UNCHANGED muxVars

\* closeAll(): the application ends, dials in flight may still arrive.
Shutdown ==
  /\ Quiet
  /\ MayShutDown /\ shutDown = {}
  /\ CloseAll
  /\ UNCHANGED muxVars

Settle(h) == DialReady(h) \/ DialFails(h)
Resume(h) == ResumeWaiter(h) \/ NextRoute(h) \/ GiveUp(h)

Next ==
  \/ \E h \in Holder, t \in Token \union {NoToken} : Connect(h, t)
  \/ \E h \in Holder :
       Settle(h) \/ Resume(h) \/ ShellOpens(h) \/ ShellRefused(h)
         \/ ShellKillsTransport(h) \/ Leave(h)
  \/ Transport
  \/ Shutdown

\* Every dial settles: the ready deadline, a timer, ends it if nothing else
\* does, however often other sessions keep the event loop busy with
\* continuations of their own.  Continuations of a settled dial run.
Fairness == \A h \in Holder : SF_vars(Settle(h)) /\ WF_vars(Resume(h))

Spec == Init /\ [][Next]_vars /\ Fairness

-----------------------------------------------------------------------------
Gains(h, c) == Phase(h) # "connected" /\ req'[h].phase = "connected" /\ req'[h].on = c

IndexOf(c) == CHOOSE i \in DOMAIN born : born[i].conn = c

\* The variables stay in their types, and the remembered route is one of the
\* host's.
MuxTypeOK ==
  /\ req \in [Holder -> Request]
  /\ \A c \in Conn : dial[c].phase \in {"none", "flying", "ready", "failed", "route failed"}
  /\ \A k \in Key : pending[k] \in Seq(Conn)
  /\ superseded \subseteq Conn /\ plainKeys \subseteq Route
  /\ lastRoute \in DOMAIN Routes

\* A forced reconnect never ends up on a transport, or a dial, that was there
\* when its gesture began, by sharing, by waiting, or over another route
\* (connect and connectRoute, connection-manager.ts:500-504, 711-716).
FreshTransport ==
  \A h \in Holder :
    Phase(h) \in {"connected", "shell", "waiting", "dialing"} /\ req[h].token # NoToken
      => req[h].token \in dial[req[h].on].since

\* The sessions of one gesture, and sessions without one, never have two
\* dials to the same plan in flight: one TCP connection and one
\* authentication (pendingDials, connection-manager.ts:366-375).
OneDialPerGesture ==
  \A k \in Key, i, j \in 1 .. Cardinality(Conn) :
    i < j /\ j <= Len(pending[k]) => dial[pending[k][i]].token # dial[pending[k][j]].token

\* A session without a token is never put on a transport older than a
\* replacement that a forced reconnect established for one of the same dial
\* plans, over whichever of the host's routes each of them runs
\* (retireReplacedTransports and connect, connection-manager.ts:568-575, 857-862).
ReplacedNotHandedOut ==
  [][\A h \in Holder, c \in Conn :
       Gains(h, c) /\ req'[h].reused /\ req'[h].token = NoToken =>
         ~\E i \in DOMAIN born : IndexOf(c) < i /\ dial[c].key \in born[i].replaces]_vars

\* Only a session that is connected holds a lease: no failure path between
\* the connect and the shell keeps a transport up (connectShell,
\* connection-manager.ts:895-950).
NoLeaseWithoutSession ==
  \A h \in Holder : Unreleased(h) <=> Phase(h) \in {"connected", "shell"}

\* Nobody can join a dial that is already over (the finally in connectRoute,
\* connection-manager.ts:760-770).
PendingIsInFlight ==
  \A k \in Key : \A c \in Range(pending[k]) : dial[c].phase = "flying" /\ dial[c].key = k

\* What pendingDials hands out is one dial in flight per plan and gesture, and
\* never one that is over (connectRoute, connection-manager.ts:707-770).
DialsAreJoined == OneDialPerGesture /\ PendingIsInFlight

\* Requests share what is being dialed exactly as far as their gestures allow.
GesturesDialTogether == FreshTransport /\ DialsAreJoined

\* Every connect request gets its transport or its failure.
RequestsSettle ==
  \A h \in Holder :
    (Phase(h) \in {"dialing", "waiting"}) ~> (Phase(h) \in {"connected", "failed"})
=============================================================================
