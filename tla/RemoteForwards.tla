---------------------------- MODULE RemoteForwards ----------------------------
(***************************************************************************)
(* Remote forwards (-R) of ForwardManager on one SSH connection            *)
(* (startRemote, server/src/forwards/forward-manager.ts:402-438).  The     *)
(* dispatcher of a connection is an ssh2 'tcp connection' listener that    *)
(* routes by port through the map it closed over.                          *)
(*                                                                         *)
(* The server answers requests in the order they were sent, so whether it  *)
(* grants one is decided when it is sent.  A channel it opens may arrive   *)
(* in the same data as its answer, before the awaiting start resumes.      *)
(***************************************************************************)
EXTENDS Integers, FiniteSets, Sequences

CONSTANTS Fwd, Port, NoFwd, NoPort

ASSUME RemoteAssumption == NoFwd \notin Fwd /\ NoPort \notin Port

VARIABLES
  fwd,       \* fwd[f]: the forward, its port and the map its start found
  held,      \* the ports the server listens on once it has read all requests
  routes,    \* routes[i]: the map the i-th installed listener closed over
  dispatch,  \* remoteDispatch: the index of the current map, 0 for none
  last       \* how the last incoming channel was answered (for the properties)

remoteVars == <<fwd, held, routes, dispatch, last>>

NoAnswer == [owner |-> NoFwd, accepted |-> {}, rejects |-> 1]

RemoteInit ==
  /\ fwd = [f \in Fwd |-> [state |-> "none", port |-> NoPort, map |-> 0,
                           granted |-> FALSE, stopped |-> FALSE]]
  /\ held = {}
  /\ routes = <<>>
  /\ dispatch = 0
  /\ last = NoAnswer

\* Callbacks resumed at once: nothing but more of the same data comes first.
Quiet == \A f \in Fwd : fwd[f].state # "replied"

NoRoutes == [p \in Port |-> NoFwd]

Bound(p) == {f \in Fwd : fwd[f].state = "bound" /\ fwd[f].port = p}

\* startRemote() up to forwardIn's answer.
RequestForward(f, p) ==
  LET map == IF dispatch = 0 THEN Len(routes) + 1 ELSE dispatch IN
  /\ Quiet /\ fwd[f].state = "none"
  /\ \E granted \in BOOLEAN :
       /\ granted => p \notin held
       /\ fwd' = [fwd EXCEPT ![f] = [state |-> "requested", port |-> p, map |-> map,
                                     granted |-> granted, stopped |-> FALSE]]
       /\ held' = IF granted THEN held \union {p} ELSE held
  /\ dispatch' = map
  /\ routes' = IF dispatch = 0 THEN Append(routes, NoRoutes) ELSE routes
  /\ UNCHANGED last

ForwardReply(f) ==
  /\ Quiet /\ fwd[f].state = "requested"
  /\ fwd' = [fwd EXCEPT ![f].state = IF fwd[f].granted THEN "replied" ELSE "failed"]
  /\ UNCHANGED <<held, routes, dispatch, last>>

\* The function startRemote() returns: drop the route, and the dispatcher of
\* the connection with the last one.  (Its listener stays on the client.)
Unroute(f) ==
  LET emptied == [routes[fwd[f].map] EXCEPT ![fwd[f].port] = NoFwd] IN
  /\ routes' = [routes EXCEPT ![fwd[f].map] = emptied]
  /\ dispatch' = IF emptied = NoRoutes THEN 0 ELSE dispatch

\* Variant: the route is set on the map that is current by now.
RoutedNow(f) == [routes EXCEPT ![IF dispatch = 0 THEN 1 ELSE dispatch][fwd[f].port] = f]

Routed(f) == [routes EXCEPT ![fwd[f].map][fwd[f].port] = f]

\* The start resumes; a forward that was stopped meanwhile is undone at once.
ResumeStart(f) ==
  /\ fwd[f].state = "replied"
  /\ IF fwd[f].stopped
       THEN /\ Unroute(f)
            /\ held' = held \ {fwd[f].port}
            /\ fwd' = [fwd EXCEPT ![f].state = "stopped"]
       ELSE /\ routes' = Routed(f)
            /\ fwd' = [fwd EXCEPT ![f].state = "bound"]
            /\ UNCHANGED <<held, dispatch>>
  /\ UNCHANGED last

Stop(f) ==
  /\ Quiet
  /\ \/ /\ fwd[f].state = "requested"
        /\ fwd' = [fwd EXCEPT ![f].stopped = TRUE]
        /\ UNCHANGED <<held, routes, dispatch>>
     \/ /\ fwd[f].state = "bound"
        /\ Unroute(f)
        /\ held' = held \ {fwd[f].port}
        /\ fwd' = [fwd EXCEPT ![f].state = "stopped"]
  /\ UNCHANGED last

\* A channel opens: every listener answers it from its own map.
Incoming(p) ==
  /\ routes # <<>>
  /\ last' = [owner |-> IF Bound(p) = {} THEN NoFwd ELSE CHOOSE f \in Bound(p) : TRUE,
              accepted |-> {routes[i][p] : i \in DOMAIN routes} \ {NoFwd},
              rejects |-> Cardinality({i \in DOMAIN routes : routes[i][p] = NoFwd})]
  /\ UNCHANGED <<fwd, held, routes, dispatch>>

RemoteNext ==
  \/ \E f \in Fwd : \/ \E p \in Port : RequestForward(f, p)
                   \/ ForwardReply(f) \/ ResumeStart(f) \/ Stop(f)
  \/ \E p \in Port : Incoming(p)

RemoteSpec == RemoteInit /\ [][RemoteNext]_remoteVars

-----------------------------------------------------------------------------
\* A channel is carried to the target of the forward that holds its port, and
\* to no other, whatever forwards were started and stopped on the connection
\* before or meanwhile; no two forwards hold one port, and no route outlives its
\* forward, or a later one could not be routed (startRemote,
\* forward-manager.ts:409-416, 428-431).
RemoteRouting ==
  /\ last.accepted = IF last.owner = NoFwd THEN {} ELSE {last.owner}
  /\ \A i \in DOMAIN routes, p \in Port : routes[i][p] # NoFwd => routes[i][p] \in Bound(p)
  /\ \A p \in Port : Cardinality(Bound(p)) <= 1
=============================================================================
