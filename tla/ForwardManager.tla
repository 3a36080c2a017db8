---------------------------- MODULE ForwardManager ----------------------------
(***************************************************************************)
(* ForwardManager (server/src/forwards/forward-manager.ts): port forwards  *)
(* over leased SSH transports, the saved tunnels the server dials on its   *)
(* own, and the terminal sessions that own the ssh_config forwards         *)
(* (releaseSession in server/src/ws/terminal-socket.ts).                   *)
(*                                                                         *)
(* The transports are those of TransportLifetime: the registry implements  *)
(* it (ConnectionLeases!LifetimeSpec).  A transport is "down" here once    *)
(* its 'close' event was delivered.                                        *)
(*                                                                         *)
(* start() and dial() are suspended at an await while they connect or      *)
(* bind; `run` says which.  What node runs as microtasks after the awaited *)
(* event, up to the next await, is one step.                               *)
(***************************************************************************)
EXTENDS Integers, FiniteSets, Functions

CONSTANTS Conn, Fwd, Terminal, Tunnel,
          NoConn, NoTunnel,
          MaxRequests,    \* bound: how often terminals connect and tunnels are saved
          ShellsRefused,  \* whether servers refuse shells (MaxSessions)
          MayShutDown     \* bound: whether the application ends (once)

ASSUME ForwardAssumption ==
  /\ NoConn \notin Conn /\ NoTunnel \notin Tunnel /\ Fwd \cap Terminal = {}
  /\ MaxRequests \in Nat /\ ShellsRefused \in BOOLEAN /\ MayShutDown \in BOOLEAN

VARIABLES
  phase, users, \* the transports and their leases (TransportLifetime)
  fwd,          \* fwd[f]: the ActiveForward entry f
  saved,        \* saved[t]: the saved tunnel t
  term,         \* term[s]: the terminal session s
  requests, life, \* connects and saves so far; "booting", "up" or "ended"
  refusedOn     \* where a shell was refused (for the properties)

leases == <<phase, users>>
vars == <<leases, fwd, saved, term, requests, life, refusedOn>>

Leases == INSTANCE TransportLifetime WITH Holder <- Fwd \union Terminal

Entry ==
  [listed : BOOLEAN,                 \* in `forwards`
   status : {"none", "starting", "active", "reconnecting", "error"},
   tunnel : Tunnel \union {NoTunnel},
   session : BOOLEAN,                \* lifecycle
   config : BOOLEAN,                 \* origin
   connId : Conn \union {NoConn},
   bound : Conn \union {NoConn},     \* the transport the listener runs on
   timer : BOOLEAN,                  \* a redial is scheduled
   cancel : {"none", "timer", "dial"}, \* what cancelReconnect() cancels
   run : {"none", "start", "connect", "bind"},
   on : Conn \union {NoConn},        \* the transport a suspended bind uses
   cancelled : BOOLEAN, autostart : BOOLEAN, retry : BOOLEAN] \* locals of dial()

NoEntry ==
  [listed |-> FALSE, status |-> "none", tunnel |-> NoTunnel, session |-> FALSE,
   config |-> FALSE, connId |-> NoConn, bound |-> NoConn, timer |-> FALSE,
   cancel |-> "none", run |-> "none", on |-> NoConn, cancelled |-> FALSE,
   autostart |-> FALSE, retry |-> FALSE]

Kept == [exists : {TRUE}, autoStart : BOOLEAN, autoReconnect : BOOLEAN]

Deleted == [exists |-> FALSE, autoStart |-> FALSE, autoReconnect |-> FALSE]

Saved == Kept \union {Deleted}

Init ==
  /\ Leases!Init
  /\ fwd = [f \in Fwd |-> NoEntry]
  /\ saved \in [Tunnel -> Kept]
  /\ term = [s \in Terminal |-> [state |-> "none", conn |-> NoConn]]
  /\ requests = 0
  /\ life = "booting"
  /\ refusedOn = {}

Listed == {f \in Fwd : fwd[f].listed}
Unused == {f \in Fwd : fwd[f].status = "none"}

(***************************************************************************)
(* Several leases given up in one step, and perhaps one taken: the last    *)
(* release closes a transport.                                             *)
(***************************************************************************)
UsersWithout(S) == [c \in Conn |-> users[c] \ S]

PhaseWithout(S) ==
  [c \in Conn |-> IF users[c] # {} /\ users[c] \subseteq S THEN "down" ELSE phase[c]]

Release(S) == users' = UsersWithout(S) /\ phase' = PhaseWithout(S)

(***************************************************************************)
(* What happens to an entry.                                               *)
(***************************************************************************)
Scheduled(e) == [e EXCEPT !.status = "reconnecting", !.timer = TRUE, !.cancel = "timer"]

\* stop(): off the list, its scheduled or running dial cancelled, unbound.
Discarded(e) ==
  [e EXCEPT !.listed = FALSE,
            !.timer = @ /\ e.cancel # "timer",
            !.cancelled = @ \/ e.cancel = "dial",
            !.bound = NoConn]

\* connectionLost()
Lost(e) ==
  LET unbound == [e EXCEPT !.bound = NoConn] IN
  IF ~e.listed THEN unbound
  ELSE IF e.tunnel # NoTunnel /\ saved[e.tunnel].autoReconnect
    THEN Scheduled(unbound)
    ELSE [unbound EXCEPT !.listed = FALSE]

Live(e) == e.listed /\ ~e.cancelled

Bound(S) == {f \in S : fwd[f].bound # NoConn}

WithDiscarded(S) == [f \in Fwd |-> IF f \in S THEN Discarded(fwd[f]) ELSE fwd[f]]

\* dial() up to its first await.
Dialing(e, autostart) ==
  LET begun == [e EXCEPT !.cancel = "dial", !.cancelled = FALSE, !.timer = FALSE]
      wanted == IF autostart THEN saved[e.tunnel].autoStart ELSE saved[e.tunnel].autoReconnect
  IN  IF e.tunnel # NoTunnel /\ wanted
        THEN [begun EXCEPT !.run = "connect", !.autostart = autostart,
                           !.retry = saved[e.tunnel].autoReconnect]
        ELSE [begun EXCEPT !.listed = FALSE]

GivenUp(e) == [e EXCEPT !.status = "error", !.cancel = "none"]

\* Variant: a tunnel that keeps reconnecting is left as it is.
RetryNever(e) == IF e.retry THEN e ELSE GivenUp(e)

RetryOrGiveUp(e) == IF e.retry THEN Scheduled(e) ELSE GivenUp(e)

(***************************************************************************)
(* start(): by hand, for a saved tunnel, or for an ssh_config rule.        *)
(***************************************************************************)
Pending(t) == {f \in Listed : t # NoTunnel /\ fwd[f].tunnel = t /\ fwd[f].status # "active"}

Started(c, t, session, config) ==
  [NoEntry EXCEPT !.listed = TRUE, !.status = "active", !.tunnel = t, !.session = session,
                  !.config = config, !.connId = c, !.run = "start", !.on = c]

Start(f, c, t, session) ==
  LET P == Pending(t) IN
  /\ life = "up" /\ f \in Unused /\ (t # NoTunnel => ~session /\ saved[t].exists)
  /\ PhaseWithout(Bound(P))[c] = "up"
  /\ users' = [UsersWithout(Bound(P)) EXCEPT ![c] = @ \union {f}]
  /\ phase' = PhaseWithout(Bound(P))
  /\ fwd' = [WithDiscarded(P) EXCEPT ![f] = Started(c, t, session, FALSE)]
  /\ UNCHANGED <<saved, term, requests, life, refusedOn>>

\* The entry that startConfig() finds for the rule on this transport.  An
\* entry is listed before it binds, so pendingConfigStarts never adds one.
ConfigForward(c) ==
  {f \in Listed : fwd[f].config /\ fwd[f].session /\ fwd[f].connId = c}

(***************************************************************************)
(* bind() resumes: the listener is up, or it is not.  A transport that     *)
(* closed meanwhile reports it (onClose of a closed connection) before     *)
(* start() or dial() go on.                                                *)
(***************************************************************************)
Listening(e) ==
  LET bound == [e EXCEPT !.bound = e.on, !.connId = e.on]
  IN  IF phase[e.on] = "up" THEN bound ELSE Lost(bound)

\* Variant: a forward that was stopped while it bound stays up.
AfterStartAnyway(e) == [e EXCEPT !.run = "none", !.on = NoConn]

AfterStart(e) ==
  IF e.listed THEN [e EXCEPT !.run = "none", !.on = NoConn]
              ELSE [e EXCEPT !.run = "none", !.on = NoConn, !.bound = NoConn]

\* Variant: the status is the word the log line uses.
AfterDialConnected(e) ==
  IF Live(e) THEN [e EXCEPT !.run = "none", !.on = NoConn,
                            !.cancel = "none", !.status = "connected"]
             ELSE [e EXCEPT !.run = "none", !.on = NoConn, !.bound = NoConn]

AfterDial(e) ==
  IF Live(e) THEN [e EXCEPT !.run = "none", !.on = NoConn,
                            !.cancel = "none", !.status = "active"]
             ELSE [e EXCEPT !.run = "none", !.on = NoConn, !.bound = NoConn]

BindSucceeds(f) ==
  LET listening == Listening(fwd[f])
      e == IF fwd[f].run = "start" THEN AfterStart(listening) ELSE AfterDial(listening)
  IN  /\ fwd[f].run \in {"start", "bind"}
      /\ fwd' = [fwd EXCEPT ![f] = e]
      /\ IF e.bound = NoConn THEN Release({f}) ELSE UNCHANGED leases
      /\ UNCHANGED <<saved, term, requests, life, refusedOn>>

BindFails(f) ==
  LET e == [fwd[f] EXCEPT !.run = "none", !.on = NoConn] IN
  /\ fwd[f].run \in {"start", "bind"}
  /\ Release({f})
  /\ fwd' = [fwd EXCEPT ![f] =
       IF fwd[f].run = "start" THEN [e EXCEPT !.listed = FALSE]
       ELSE IF Live(e) THEN RetryOrGiveUp(e) ELSE e]
  /\ UNCHANGED <<saved, term, requests, life, refusedOn>>

(***************************************************************************)
(* dial(): the connection manager shares a transport or dials one, and     *)
(* nobody answers prompts.                                                 *)
(***************************************************************************)
Connects(f) ==
  /\ fwd[f].run = "connect"
  /\ IF Live(fwd[f])
       THEN \E c \in Conn :
              /\ Leases!Open(f, c) \/ Leases!Join(f, c)
              /\ fwd' = [fwd EXCEPT ![f].run = "bind", ![f].on = c]
       ELSE /\ fwd' = [fwd EXCEPT ![f].run = "none"]
            \* a lease on a shared transport is given right back; one dialed
            \* for nobody closes
            /\ \/ UNCHANGED leases
               \/ \E c \in Conn :
                    /\ phase[c] = "unborn" /\ phase' = [phase EXCEPT ![c] = "down"]
                    /\ UNCHANGED users
  /\ UNCHANGED <<saved, term, requests, life, refusedOn>>

ConnectFails(f) ==
  LET e == [fwd[f] EXCEPT !.run = "none"] IN
  /\ fwd[f].run = "connect"
  /\ \E needsUser \in BOOLEAN :
       fwd' = [fwd EXCEPT ![f] =
         IF ~Live(e) THEN e ELSE IF needsUser THEN GivenUp(e) ELSE RetryOrGiveUp(e)]
  /\ UNCHANGED <<leases, saved, term, requests, life, refusedOn>>

TimerFires(f) ==
  /\ fwd[f].timer
  /\ fwd' = [fwd EXCEPT ![f] = Dialing(fwd[f], FALSE)]
  /\ UNCHANGED <<leases, saved, term, requests, life, refusedOn>>

Autostart ==
  LET wanted == {t \in Tunnel : saved[t].exists /\ saved[t].autoStart
                                /\ \A f \in Listed : fwd[f].tunnel # t}
      entry(t) == Dialing([NoEntry EXCEPT !.listed = TRUE, !.status = "starting",
                                          !.tunnel = t], TRUE)
  IN  /\ life = "booting" /\ life' = "up"
      /\ \E id \in Injection(wanted, Unused) :
           fwd' = [f \in Fwd |-> IF f \in Range(id) THEN entry(AntiFunction(id)[f])
                                 ELSE fwd[f]]
      /\ UNCHANGED <<leases, saved, term, requests, refusedOn>>

(***************************************************************************)
(* The user stops a forward, adopts a running one into a saved tunnel, or  *)
(* saves or deletes a tunnel (tunnelChanged).                              *)
(***************************************************************************)
Stop(f) ==
  /\ f \in Listed
  /\ fwd' = WithDiscarded({f}) /\ Release(Bound({f}))
  /\ UNCHANGED <<saved, term, requests, life, refusedOn>>

AssignTunnel(f, t) ==
  /\ f \in Listed /\ fwd[f].status = "active" /\ saved[t].exists
  /\ fwd' = [fwd EXCEPT ![f].tunnel = t, ![f].session = FALSE]
  /\ UNCHANGED <<leases, saved, term, requests, life, refusedOn>>

Wanted(e, tunnel) ==
  /\ tunnel.exists
  /\ \/ e.status = "error"
     \/ IF e.status = "starting" THEN tunnel.autoStart ELSE tunnel.autoReconnect

SaveTunnel(t, tunnel) ==
  LET S == {f \in Pending(t) : ~Wanted(fwd[f], tunnel)} IN
  /\ requests < MaxRequests /\ requests' = requests + 1
  /\ life = "up" /\ tunnel # saved[t] /\ saved[t].exists
  /\ saved' = [saved EXCEPT ![t] = tunnel]
  /\ fwd' = WithDiscarded(S) /\ Release(Bound(S))
  /\ UNCHANGED <<term, life, refusedOn>>

(***************************************************************************)
(* A transport's 'close' event reaches every listener on it.               *)
(***************************************************************************)
TransportCloses(c) ==
  /\ phase[c] = "up"
  /\ Leases!GoDown({c})
  /\ fwd' = [f \in Fwd |-> IF fwd[f].bound = c THEN Lost(fwd[f]) ELSE fwd[f]]
  /\ UNCHANGED <<saved, term, requests, life, refusedOn>>

(***************************************************************************)
(* Terminal sessions.  connectShell() leases a transport and opens the     *)
(* shell; the tab may be closed meanwhile.                                 *)
(***************************************************************************)
TerminalConnects(s, c) ==
  /\ requests < MaxRequests /\ requests' = requests + 1
  /\ life = "up" /\ term[s].state = "none"
  /\ Leases!Open(s, c) \/ Leases!Join(s, c)
  /\ term' = [term EXCEPT ![s] = [state |-> "opening", conn |-> c]]
  /\ UNCHANGED <<fwd, saved, life, refusedOn>>

\* stopSessionForConnection()
SessionForwards(c) == {f \in Listed : fwd[f].session /\ fwd[f].connId = c}

\* Variant: the session's own lease still counts.
ReleaseSessionEarly(s) ==
  LET c == term[s].conn
      S == IF users[c] \cap Terminal = {} THEN SessionForwards(c) ELSE {}
  IN  /\ fwd' = WithDiscarded(S)
      /\ Release({s} \union Bound(S))
      /\ term' = [term EXCEPT ![s] = [state |-> "none", conn |-> NoConn]]

\* releaseSession()
ReleaseSession(s) ==
  LET c == term[s].conn
      last == users[c] \cap Terminal \subseteq {s}
      S == IF last THEN SessionForwards(c) ELSE {}
  IN  /\ fwd' = WithDiscarded(S)
      /\ Release({s} \union Bound(S))
      /\ term' = [term EXCEPT ![s] = [state |-> "none", conn |-> NoConn]]

TabCloses(s) ==
  /\ \/ /\ term[s].state = "opening"
        /\ term' = [term EXCEPT ![s].state = "closing"]
        /\ UNCHANGED <<leases, fwd>>
     \/ term[s].state = "open" /\ ReleaseSession(s)
  /\ UNCHANGED <<saved, requests, life, refusedOn>>

\* The shell is there: the session goes on to its ssh_config rule, or ends
\* at once because its tab is gone.
ShellOpens(s) ==
  LET c == term[s].conn IN
  /\ term[s].state \in {"opening", "closing"} /\ phase[c] = "up"
  /\ IF term[s].state = "closing" THEN ReleaseSession(s)
     ELSE /\ term' = [term EXCEPT ![s].state = "open"]
          /\ \/ ConfigForward(c) # {} /\ UNCHANGED <<leases, fwd>>
             \/ /\ ConfigForward(c) = {}
                /\ \E f \in Unused :
                     /\ fwd' = [fwd EXCEPT ![f] = Started(c, NoTunnel, TRUE, TRUE)]
                     /\ Leases!Join(f, c)
  /\ UNCHANGED <<saved, requests, life, refusedOn>>

\* connectShell() gives the lease back and dials a dedicated transport, or
\* the session fails.
ShellFails(s) ==
  LET c == term[s].conn IN
  /\ term[s].state \in {"opening", "closing"}
  /\ ShellsRefused \/ phase[c] = "down"
  /\ Release({s})
  /\ term' = [term EXCEPT ![s] = [state |-> "none", conn |-> NoConn]]
  /\ refusedOn' = refusedOn \union {c}
  /\ UNCHANGED <<fwd, saved, requests, life>>

\* The application ends: stopAll(), then the registry's closeAll().
Shutdown ==
  /\ MayShutDown /\ life = "up" /\ life' = "ended"
  /\ fwd' = WithDiscarded(Listed)
  /\ Leases!GoDown({c \in Conn : phase[c] # "unborn"})
  /\ UNCHANGED <<saved, term, requests, refusedOn>>

Next ==
  \/ Autostart
  \/ \E f \in Fwd, c \in Conn, t \in Tunnel \union {NoTunnel}, session \in BOOLEAN :
       Start(f, c, t, session)
  \/ \E f \in Fwd : \/ BindSucceeds(f) \/ BindFails(f)
                    \/ Connects(f) \/ ConnectFails(f)
                    \/ TimerFires(f) \/ Stop(f)
  \/ \E f \in Fwd, t \in Tunnel : AssignTunnel(f, t)
  \/ \E t \in Tunnel, tunnel \in Saved : SaveTunnel(t, tunnel)
  \/ \E c \in Conn : TransportCloses(c)
  \/ \E s \in Terminal, c \in Conn : TerminalConnects(s, c)
  \/ \E s \in Terminal : TabCloses(s) \/ ShellOpens(s) \/ ShellFails(s)
  \/ Shutdown

Spec == Init /\ [][Next]_vars

-----------------------------------------------------------------------------
\* The variables stay in their types.
FwdTypeOK ==
  /\ phase \in [Conn -> {"unborn", "up", "down"}]
  /\ users \in [Conn -> SUBSET (Fwd \union Terminal)]
  /\ fwd \in [Fwd -> Entry]
  /\ saved \in [Tunnel -> Saved]
  /\ term \in [Terminal -> [state : {"none", "opening", "closing", "open"},
                            conn : Conn \union {NoConn}]]

\* Every lease of a forward belongs to its listener or to the bind that is
\* under way, on every path a start or a dial can end on, stopped half way
\* or not: a lease left behind would keep a transport up for nobody (bind and
\* dial, forward-manager.ts:226-260, 336-352).
LeaseHasUse ==
  \A c \in Conn : \A f \in users[c] \cap Fwd : fwd[f].bound = c \/ fwd[f].on = c

\* A listener belongs to a listed forward and runs on a transport that is up
\* and that the forward leases itself: a forward stopped by the user, its
\* tunnel's settings, its terminal or a lost transport has none, also when
\* that happened while the listener was coming up (bind, start and dial,
\* forward-manager.ts:110-113, 242-259, 349-352).
ListenersAreOwned ==
  \A f \in Fwd : fwd[f].bound # NoConn =>
    fwd[f].listed /\ phase[fwd[f].bound] = "up" /\ f \in users[fwd[f].bound]

\* Leases and listeners of forwards belong together on every path of a start
\* and a dial (forward-manager.ts:226-260, 336-352).
LeasesMatchListeners == LeaseHasUse /\ ListenersAreOwned

\* What moves a forward on: a redial timer, a suspended start or dial, or
\* the listener whose transport reports its loss.
Drivers(f) ==
  {d \in {"timer", "run", "listener"} :
     \/ d = "timer" /\ fwd[f].timer
     \/ d = "run" /\ fwd[f].run # "none"
     \/ d = "listener" /\ fwd[f].bound # NoConn}

\* A listed forward never gets stuck and never dials twice at once: unless it
\* gave up with an error it is up, under way or waiting, and only one of them
\* (connectionLost, dial, retryOrGiveUp, forward-manager.ts:262-376).
OneDriver ==
  \A f \in Fwd :
    /\ Cardinality(Drivers(f)) <= 1
    /\ fwd[f].listed /\ fwd[f].status # "error" => Drivers(f) # {}

\* A dial the server makes by itself goes on only as long as the saved tunnel
\* asks for it (tunnelChanged, forward-manager.ts:193-207).  Left out are the
\* entries that show "active" while they dial: a transport lost while dial()
\* binds leaves a timer that dial() then forgets.
DialsAreWanted ==
  \A f \in Fwd : Live(fwd[f]) /\ fwd[f].run \in {"connect", "bind"} /\ fwd[f].status # "active" =>
    LET tunnel == saved[fwd[f].tunnel] IN
    tunnel.exists /\ IF fwd[f].autostart THEN tunnel.autoStart ELSE tunnel.autoReconnect

\* One thing drives a forward, and a dial only while it is wanted
\* (forward-manager.ts:193-207, 262-376).
OneWantedDriver == OneDriver /\ DialsAreWanted

\* Sessions that share a transport start its ssh_config rule once, however
\* their shells open and close (startConfig, forward-manager.ts:117-143).
OneConfigForward ==
  \A f, g \in Listed :
    /\ fwd[f].config /\ fwd[f].session /\ fwd[g].config /\ fwd[g].session
    /\ fwd[f].connId = fwd[g].connId
    => f = g

Orphaned(f) ==
  LET c == fwd[f].connId IN
  /\ fwd[f].listed /\ fwd[f].config /\ fwd[f].session /\ phase[c] = "up"
  /\ users[c] \cap Terminal = {}

\* The forward of an ssh_config rule ends with the last terminal on its
\* transport, unless a session on that transport was refused its shell
\* (releaseSession, terminal-socket.ts:791-802).
ConfigForwardsEnd == \A f \in Fwd : Orphaned(f) => fwd[f].connId \in refusedOn

\* The forward of an ssh_config rule starts once and ends with the terminals of
\* its transport (forward-manager.ts:117-143, terminal-socket.ts:791-802).
ConfigForwardsFollow == OneConfigForward /\ ConfigForwardsEnd

-----------------------------------------------------------------------------
\* Claimed: "Session forwards belong to the terminal sessions using this
\* transport; stop them when the last terminal/dial lease leaves"
\* (terminal-socket.ts:791-793).  connectShell() gives a lease back without it.
NoOrphanedForward == \A f \in Fwd : ~Orphaned(f)
=============================================================================
