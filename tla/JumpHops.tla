------------------------------- MODULE JumpHops -------------------------------
(***************************************************************************)
(* Shared ProxyJump hops: JumpHop and JumpHopRegistry                      *)
(* (server/src/ssh/jump-hops.ts) and the chains that dialChain             *)
(* (server/src/ssh/connection-manager.ts) builds over them.                *)
(*                                                                         *)
(* A hop is counted by the hops behind it and by the chains that end on    *)
(* it, outlives the last of them for a while, and is ridden by later       *)
(* chains through the same hops.  The chains here go to hosts behind a     *)
(* common sequence of jump hosts, so a hop's key is its depth.             *)
(***************************************************************************)
EXTENDS Integers, FiniteSets, Sequences, SequencesExt

CONSTANTS Hop, Chain, Depth, Token, NoHop, NoToken,
          MayShutDown   \* bound: whether the application ends (once)

ASSUME HopAssumption ==
  /\ Depth \in Nat \ {0} /\ NoHop \notin Hop /\ NoToken \notin Token
  /\ MayShutDown \in BOOLEAN

VARIABLES
  hop,     \* hop[x]: the JumpHop x, and the state of its client
  hops,    \* the registry's set, in insertion order
  chain,   \* chain[d]: a dial through jump hosts, then the transport it made
  ended    \* closeAll() was called

vars == <<hop, hops, chain, ended>>

HopState ==
  [client : {"unborn", "open", "lost", "ending", "closed"},
   key : 0 .. Depth, parent : Hop \union {NoHop}, parentReleased : BOOLEAN,
   refs : Int, timer : BOOLEAN, superseded : BOOLEAN, token : Token \union {NoToken}]

ChainState ==
  [state : {"none", "dialing", "up", "over"},
   len : 0 .. Depth,                \* jump hosts on its way
   at : 0 .. Depth,                 \* how many of them it is logged in to
   route : Hop \union {NoHop}, reused : Hop \union {NoHop}, token : Token \union {NoToken}]

Init ==
  /\ hop = [x \in Hop |-> [client |-> "unborn", key |-> 0, parent |-> NoHop,
                           parentReleased |-> FALSE, refs |-> 0, timer |-> FALSE,
                           superseded |-> FALSE, token |-> NoToken]]
  /\ hops = <<>>
  /\ chain = [d \in Chain |-> [state |-> "none", len |-> 0, at |-> 0, route |-> NoHop,
                               reused |-> NoHop, token |-> NoToken]]
  /\ ended = FALSE

(***************************************************************************)
(* One hop's methods, as what they make of all hops H.                     *)
(***************************************************************************)
Retain(H, x) ==
  IF x = NoHop THEN H ELSE [H EXCEPT ![x].refs = @ + 1, ![x].timer = FALSE]

\* Variant: the idle wait is never started.
ReleaseNever(H, x) == IF x = NoHop THEN H ELSE [H EXCEPT ![x].refs = @ - 1]

Release(H, x) ==
  IF x = NoHop THEN H
  ELSE [H EXCEPT ![x].refs = @ - 1,
                 ![x].timer = @ \/ (H[x].refs <= 1 /\ H[x].client \in {"open", "lost"})]

ReleaseParent(H, x) ==
  IF H[x].parentReleased THEN H
  ELSE Release([H EXCEPT ![x].parentReleased = TRUE], H[x].parent)

\* close(): end the client, whatever the references.
Close(H, x) ==
  ReleaseParent([H EXCEPT ![x].timer = FALSE,
                          ![x].client = IF @ = "closed" THEN @ ELSE "ending"], x)

\* Variant: a new hop does not count for the hop before it.
AddedUnretained(H, x, key, parent, token) ==
  [H EXCEPT ![x] = [client |-> "open", key |-> key, parent |-> parent,
                    parentReleased |-> FALSE, refs |-> 0, timer |-> FALSE,
                    superseded |-> FALSE, token |-> token]]

Added(H, x, key, parent, token) ==
  Retain([H EXCEPT ![x] = [client |-> "open", key |-> key, parent |-> parent,
                           parentReleased |-> FALSE, refs |-> 0, timer |-> FALSE,
                           superseded |-> FALSE, token |-> token]], parent)

\* add(): a forced reconnect's hop retires the hops dialed before it.
Superseding(H, key, token) ==
  IF token = NoToken THEN H
  ELSE [x \in Hop |-> IF x \in Range(hops) /\ H[x].key = key /\ H[x].token # token
                        THEN [H[x] EXCEPT !.superseded = TRUE] ELSE H[x]]

(***************************************************************************)
(* reusable(): the newest usable hop.  Keepalive health is a free choice.  *)
(***************************************************************************)
Usable(x) == hop[x].client \in {"open", "lost"} /\ ~hop[x].superseded

\* Variant: a forced reconnect rides any usable hop.
ReusableAny(key, token, healthy) ==
  {i \in DOMAIN hops : hops[i] \in healthy /\ hop[hops[i]].key = key /\ Usable(hops[i])}

\* The places of the hops that may be handed out; reusable() takes the last.
Reusable(key, token, healthy) ==
  {i \in DOMAIN hops : /\ hops[i] \in healthy /\ hop[hops[i]].key = key /\ Usable(hops[i])
                       /\ token # NoToken => hop[hops[i]].token = token}

(***************************************************************************)
(* dialChain(): ride the deepest hop there is, then log in to one hop      *)
(* after the other.                                                        *)
(***************************************************************************)
\* Variant: the dial starts one hop too far.
BeginPast(d, len, token, first, route) ==
  /\ hop' = Retain(hop, route)
  /\ chain' = [chain EXCEPT ![d] = [state |-> "dialing", len |-> len, at |-> first + 1,
                                    route |-> route, reused |-> route, token |-> token]]

Begin(d, len, token, first, route) ==
  /\ hop' = Retain(hop, route)
  /\ chain' = [chain EXCEPT ![d] = [state |-> "dialing", len |-> len, at |-> first,
                                    route |-> route, reused |-> route, token |-> token]]

DialChain(d, len, token) ==
  /\ ~ended /\ chain[d].state = "none"
  /\ \E healthy \in SUBSET Range(hops) :
       LET depths == {i \in 1 .. len : Reusable(i, token, healthy) # {}}
           first == Max(depths)
       IN  IF depths = {} THEN Begin(d, len, token, 0, NoHop)
           ELSE Begin(d, len, token, first, hops[Max(Reusable(first, token, healthy))])
  /\ UNCHANGED <<hops, ended>>

Carried(d) == chain[d].route # NoHop => hop[chain[d].route].client = "open"

\* The next jump host is logged in to: it joins the registry, and the chain
\* holds it instead of the hop before it.
HopReady(d) ==
  LET r == chain[d]
      key == r.at + 1
  IN  /\ r.state = "dialing" /\ r.at < r.len /\ Carried(d)
      /\ \E x \in Hop :
           /\ hop[x].client = "unborn"
           /\ hop' = Release(Retain(Added(Superseding(hop, key, r.token),
                                          x, key, r.route, r.token), x), r.route)
           /\ hops' = Append(hops, x)
           /\ chain' = [chain EXCEPT ![d].at = key, ![d].route = x]
      /\ UNCHANGED ended

TargetReady(d) ==
  /\ chain[d].state = "dialing" /\ chain[d].at = chain[d].len /\ Carried(d)
  /\ chain' = [chain EXCEPT ![d].state = "up"]
  /\ UNCHANGED <<hop, hops, ended>>

\* A login or a channel fails: the hops dialed for the chain are given back.
DialFails(d) ==
  /\ chain[d].state = "dialing"
  /\ hop' = Release(hop, chain[d].route)
  /\ chain' = [chain EXCEPT ![d].state = "over"]
  /\ UNCHANGED <<hops, ended>>

\* The shared hop could not open a channel: it is not handed out again, and
\* the chain dials every hop anew.
StaleHop(d) ==
  LET r == chain[d] IN
  /\ r.state = "dialing" /\ r.reused # NoHop /\ r.route = r.reused
  /\ hop' = [Release(hop, r.route) EXCEPT ![r.route].superseded = TRUE]
  /\ chain' = [chain EXCEPT ![d].at = 0, ![d].route = NoHop, ![d].reused = NoHop]
  /\ UNCHANGED <<hops, ended>>

\* The target's client closes: its last lease went, or it was lost.
ChainCloses(d) ==
  /\ chain[d].state = "up"
  /\ hop' = Release(hop, chain[d].route)
  /\ chain' = [chain EXCEPT ![d].state = "over"]
  /\ UNCHANGED <<hops, ended>>

(***************************************************************************)
(* Hops come to their end.                                                 *)
(***************************************************************************)
Lose(x) ==
  /\ hop[x].client = "open"
  /\ hop' = [hop EXCEPT ![x].client = "lost"]
  /\ UNCHANGED <<hops, chain, ended>>

\* The client's 'close' event: markClosed().
HopClosed(x) ==
  /\ hop[x].client \in {"lost", "ending"}
  /\ hop' = ReleaseParent([hop EXCEPT ![x].client = "closed", ![x].timer = FALSE], x)
  /\ hops' = RemoveFirst(hops, x)
  /\ UNCHANGED <<chain, ended>>

IdleExpires(x) ==
  /\ hop[x].timer
  /\ hop' = IF hop[x].refs <= 0 THEN Close(hop, x) ELSE [hop EXCEPT ![x].timer = FALSE]
  /\ UNCHANGED <<hops, chain, ended>>

\* The hops that count for x: each gives it back once.
Behind(x) == {y \in Hop : hop[y].parent = x /\ ~hop[y].parentReleased}

\* closeAll(): close() on every listed hop.  One that gives back another starts
\* no idle wait that lasts, since the other is closed in the same pass.
CloseAll ==
  /\ MayShutDown /\ ~ended /\ ended' = TRUE
  /\ hop' = [x \in Hop |->
       LET given == [hop[x] EXCEPT !.refs = @ - Cardinality(Behind(x) \cap Range(hops))]
       IN  IF x \notin Range(hops) THEN given
           ELSE [given EXCEPT !.client = "ending", !.timer = FALSE, !.parentReleased = TRUE]]
  /\ UNCHANGED <<hops, chain>>

Next ==
  \/ \E d \in Chain, len \in 1 .. Depth, t \in Token \union {NoToken} : DialChain(d, len, t)
  \/ \E d \in Chain : \/ HopReady(d) \/ TargetReady(d) \/ DialFails(d)
                      \/ StaleHop(d) \/ ChainCloses(d)
  \/ \E x \in Hop : Lose(x) \/ HopClosed(x) \/ IdleExpires(x)
  \/ CloseAll

\* Timers fire and 'close' events that are due arrive.
Fairness == \A x \in Hop : WF_vars(IdleExpires(x)) /\ WF_vars(HopClosed(x))

Spec == Init /\ [][Next]_vars /\ Fairness

-----------------------------------------------------------------------------
HopTypeOK ==
  /\ hop \in [Hop -> HopState]
  /\ chain \in [Chain -> ChainState]
  /\ Range(hops) \subseteq Hop /\ ended \in BOOLEAN

Riding(d) == chain[d].state \in {"dialing", "up"} /\ chain[d].route # NoHop

Riders(x) == {d \in Chain : Riding(d) /\ chain[d].route = x}

\* The hops under a chain's transport, nearest the target first (route()).
RouteOf(x) ==
  LET from[i \in 0 .. Depth] ==
        IF i = 0 THEN {x}
        ELSE from[i - 1] \union ({hop[y].parent : y \in from[i - 1]} \ {NoHop})
  IN  from[Depth]

\* A hop's count is what holds it: the hops behind it that have not given it
\* back, and the chains that end on it.  It neither leaks, which would keep
\* the login for ever, nor goes below (jump-hops.ts:63, 92-108, 146-150;
\* connection-manager.ts:1078, 1125-1127, 1132, 1335-1336).
RefsAreHeld == \A x \in Hop : hop[x].refs = Cardinality(Behind(x)) + Cardinality(Riders(x))

\* Unless the application ends, Muxus ends no hop that a chain ends on or
\* that a live hop runs through, however the idle wait and the reuse of a hop
\* interleave (jump-hops.ts:92-108, 125-150).
RouteStaysUp ==
  ~ended =>
    /\ \A d \in Chain : Riding(d) => hop[chain[d].route].client # "ending"
    /\ \A x \in Hop : hop[x].client \in {"open", "lost"} /\ hop[x].parent # NoHop =>
         hop[hop[x].parent].client # "ending"

\* A shared hop lives exactly as long as it is needed (jump-hops.ts:92-150).
RoutesAreHeld == RefsAreHeld /\ RouteStaysUp

\* A forced reconnect runs over hops of its own gesture only, down to the
\* first (reusable and add, jump-hops.ts:159-185).
FreshRoute ==
  \A d \in Chain : Riding(d) /\ chain[d].token # NoToken =>
    \A x \in RouteOf(chain[d].route) : hop[x].token = chain[d].token

\* No later chain lands on a hop that a forced reconnect dialed again
\* (jump-hops.ts:175-180): among the hops of one key that may be handed out,
\* none was there before one of a gesture it does not belong to.
ReplacedHopsRest ==
  \A i, j \in DOMAIN hops :
    /\ i < j /\ hop[hops[i]].key = hop[hops[j]].key
    /\ hop[hops[j]].token # NoToken /\ hop[hops[i]].token # hop[hops[j]].token
    => hop[hops[i]].superseded

\* A forced reconnect gets new hops, and nobody gets those it replaced
\* (reusable and add, jump-hops.ts:159-185).
ReplacementsAreFresh == FreshRoute /\ ReplacedHopsRest

\* A hop that nobody uses any more ends, unless it is ridden again in time.
UnusedHopEnds ==
  \A x \in Hop : (hop[x].client \in {"open", "lost"} /\ hop[x].refs = 0)
                   ~> (hop[x].client = "closed" \/ hop[x].refs > 0)
=============================================================================
