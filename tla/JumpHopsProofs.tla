----------------------------- MODULE JumpHopsProofs ----------------------------
(***************************************************************************)
(* Proofs about JumpHops for every set of hops, chains and gestures and    *)
(* every depth of a route.                                                 *)
(***************************************************************************)
EXTENDS JumpHops, SequenceLemmas, FiniteSetTheorems

HopTypes ==
  /\ hop \in [Hop -> HopState]
  /\ chain \in [Chain -> ChainState]
  /\ hops \in Seq(Hop) /\ ended \in BOOLEAN

\* The registry lists each hop once, from its login until its client closed.
ListedWhileLoggedIn ==
  /\ \A i, j \in DOMAIN hops : hops[i] = hops[j] => i = j
  /\ \A x \in Hop : (\E i \in DOMAIN hops : hops[i] = x)
                      <=> hop[x].client \in {"open", "lost", "ending"}

\* What is ridden was logged in to before, by its hop as well.
RoutesAreBorn ==
  /\ \A d \in Chain : Riding(d) => hop[chain[d].route].client # "unborn"
  /\ \A x \in Hop : hop[x].parent # NoHop =>
       /\ hop[hop[x].parent].client # "unborn" /\ hop[x].parent # x
       /\ hop[x].client # "unborn"

\* A live hop holds the hop before it.
LiveHopsHold ==
  \A x \in Hop : hop[x].client \in {"open", "lost"} => ~hop[x].parentReleased

\* Only a live hop waits for its end.
IdleHopsAreLive == \A x \in Hop : hop[x].timer => hop[x].client \in {"open", "lost"}

\* The count of x, and what it counts.
Counted(x) ==
  /\ IsFiniteSet(Behind(x)) /\ IsFiniteSet(Riders(x))
  /\ hop[x].refs = Cardinality(Behind(x)) + Cardinality(Riders(x))

AllCounted == \A x \in Hop : Counted(x)

\* A gesture's chain ends on a hop of the gesture, and so does each hop of it.
GesturesStayTogether ==
  /\ \A d \in Chain : Riding(d) /\ chain[d].token # NoToken =>
       hop[chain[d].route].token = chain[d].token
  /\ \A x \in Hop : hop[x].parent # NoHop /\ hop[x].token # NoToken =>
       hop[hop[x].parent].token = hop[x].token

HopInv ==
  /\ HopTypes /\ ListedWhileLoggedIn /\ RoutesAreBorn /\ LiveHopsHold /\ IdleHopsAreLive
  /\ AllCounted /\ RouteStaysUp /\ GesturesStayTogether /\ ReplacedHopsRest

-----------------------------------------------------------------------------
(* What the methods of a hop do to the counts, and what they leave alone. *)

MayWait(h) == h.timer \/ h.client \in {"open", "lost"}

Timed(g, h) == g.timer => MayWait(h)

Unmoved(g, h) ==
  /\ Timed(g, h)
  /\ g.client = h.client /\ g.key = h.key /\ g.parent = h.parent
  /\ g.token = h.token /\ g.superseded = h.superseded

LEMMA CountEffect ==
  ASSUME NEW h \in HopState, NEW n \in Int, NEW t \in BOOLEAN,
         (t = TRUE) => MayWait(h)
  PROVE  LET r == [h EXCEPT !.refs = n, !.timer = t]
         IN  /\ r \in HopState /\ Unmoved(r, h) /\ r.refs = n
             /\ r.parentReleased = h.parentReleased
BY DEF HopState, Unmoved, Timed, MayWait

LEMMA RetainEffect ==
  ASSUME NEW H \in [Hop -> HopState], NEW x \in Hop \union {NoHop}
  PROVE  /\ Retain(H, x) \in [Hop -> HopState]
         /\ \A y \in Hop : /\ Unmoved(Retain(H, x)[y], H[y])
                           /\ Retain(H, x)[y].parentReleased = H[y].parentReleased
                           /\ Retain(H, x)[y].refs = IF y = x THEN H[y].refs + 1 ELSE H[y].refs
<1>1. CASE x = NoHop
  BY <1>1, HopAssumption DEF Retain, Unmoved, Timed, MayWait
<1>2. CASE x \in Hop
  <2> DEFINE r == [H[x] EXCEPT !.refs = @ + 1, !.timer = FALSE]
  <2>1. /\ r \in HopState /\ Unmoved(r, H[x]) /\ r.refs = H[x].refs + 1
        /\ r.parentReleased = H[x].parentReleased
    <3>1. H[x] \in HopState /\ H[x].refs + 1 \in Int /\ FALSE \in BOOLEAN
      BY <1>2 DEF HopState
    <3>2. r = [H[x] EXCEPT !.refs = H[x].refs + 1, !.timer = FALSE]
      OBVIOUS
    <3> HIDE DEF r
    <3> QED BY Zenon, <3>1, <3>2, CountEffect
  <2>2. Retain(H, x) = [H EXCEPT ![x] = r]
    BY <1>2, HopAssumption DEF Retain
  <2> HIDE DEF r
  <2> QED BY <1>2, <2>1, <2>2 DEF Unmoved, Timed, MayWait
<1> QED BY <1>1, <1>2

LEMMA ReleaseEffect ==
  ASSUME NEW H \in [Hop -> HopState], NEW x \in Hop \union {NoHop}
  PROVE  /\ Release(H, x) \in [Hop -> HopState]
         /\ \A y \in Hop : /\ Unmoved(Release(H, x)[y], H[y])
                           /\ Release(H, x)[y].parentReleased = H[y].parentReleased
                           /\ Release(H, x)[y].refs = IF y = x THEN H[y].refs - 1 ELSE H[y].refs
<1>1. CASE x = NoHop
  BY <1>1, HopAssumption DEF Release, Unmoved, Timed, MayWait
<1>2. CASE x \in Hop
  <2> DEFINE n == H[x].refs - 1
             t == H[x].timer \/ (H[x].refs <= 1 /\ H[x].client \in {"open", "lost"})
             r == [H[x] EXCEPT !.refs = n, !.timer = t]
  <2>1. /\ H[x] \in HopState /\ n \in Int /\ t \in BOOLEAN
        /\ (t = TRUE) => MayWait(H[x])
    BY <1>2 DEF HopState, MayWait
  <2>2. Release(H, x) = [H EXCEPT ![x] = r]
    BY <1>2, HopAssumption DEF Release
  <2> HIDE DEF n, t
  <2>3. /\ r \in HopState /\ Unmoved(r, H[x]) /\ r.refs = n
        /\ r.parentReleased = H[x].parentReleased
    <3> DEFINE h == H[x]
    <3>1. /\ h \in HopState /\ n \in Int /\ t \in BOOLEAN
          /\ (t = TRUE) => MayWait(h)
      BY <2>1
    <3>2. r = [h EXCEPT !.refs = n, !.timer = t]
      OBVIOUS
    <3> HIDE DEF h, r
    <3>3. /\ r \in HopState /\ Unmoved(r, h) /\ r.refs = n
          /\ r.parentReleased = h.parentReleased
      BY <3>1, <3>2, CountEffect, ZenonT(40)
    <3> QED BY <3>3 DEF h
  <2> HIDE DEF r
  <2> QED BY <1>2, <2>2, <2>3 DEF Unmoved, Timed, MayWait, n
<1> QED BY <1>1, <1>2

LEMMA ReleaseParentEffect ==
  ASSUME NEW H \in [Hop -> HopState], NEW x \in Hop
  PROVE  /\ ReleaseParent(H, x) \in [Hop -> HopState]
         /\ \A y \in Hop :
              /\ Unmoved(ReleaseParent(H, x)[y], H[y])
              /\ ReleaseParent(H, x)[y].parentReleased = (y = x \/ H[y].parentReleased)
              /\ ReleaseParent(H, x)[y].refs =
                   IF y = H[x].parent /\ ~H[x].parentReleased
                     THEN H[y].refs - 1 ELSE H[y].refs
<1>1. H[x].parentReleased \in BOOLEAN /\ H[x].parent \in Hop \union {NoHop}
  BY DEF HopState
<1>2. CASE H[x].parentReleased
  BY <1>1, <1>2 DEF ReleaseParent, Unmoved, Timed, MayWait, HopState
<1>3. CASE ~H[x].parentReleased
  <2> DEFINE G == [H EXCEPT ![x].parentReleased = TRUE]
  <2>1. /\ G \in [Hop -> HopState]
        /\ \A y \in Hop : /\ Unmoved(G[y], H[y]) /\ G[y].refs = H[y].refs
                          /\ G[y].parentReleased = (y = x \/ H[y].parentReleased)
    BY ZenonT(40) DEF HopState, Unmoved, Timed, MayWait
  <2>2. ReleaseParent(H, x) = Release(G, H[x].parent)
    BY <1>3 DEF ReleaseParent
  <2> HIDE DEF G
  <2>3. /\ Release(G, H[x].parent) \in [Hop -> HopState]
        /\ \A y \in Hop :
             /\ Unmoved(Release(G, H[x].parent)[y], G[y])
             /\ Release(G, H[x].parent)[y].parentReleased = G[y].parentReleased
             /\ Release(G, H[x].parent)[y].refs =
                  IF y = H[x].parent THEN G[y].refs - 1 ELSE G[y].refs
    BY <1>1, <2>1, ReleaseEffect
  <2> QED BY <1>3, <2>1, <2>2, <2>3 DEF Unmoved, Timed, MayWait
<1> QED BY <1>1, <1>2, <1>3

\* close() and the client's 'close' event: the client ends and gives its hop back.
Ends(H, x, client) ==
  /\ H \in [Hop -> HopState]
  /\ \A y \in Hop :
       /\ H[y].key = hop[y].key /\ H[y].parent = hop[y].parent
       /\ H[y].token = hop[y].token /\ H[y].superseded = hop[y].superseded
       /\ H[y].client = IF y = x THEN client ELSE hop[y].client
       /\ H[y].timer => y # x /\ (hop[y].timer \/ hop[y].client \in {"open", "lost"})
       /\ H[y].parentReleased = (y = x \/ hop[y].parentReleased)
       /\ H[y].refs = IF y = hop[x].parent /\ ~hop[x].parentReleased
                        THEN hop[y].refs - 1 ELSE hop[y].refs

LEMMA EndEffect ==
  ASSUME HopTypes, NEW x \in Hop, NEW client \in {"ending", "closed"}
  PROVE  Ends(ReleaseParent([hop EXCEPT ![x].client = client, ![x].timer = FALSE], x),
              x, client)
<1> DEFINE r == [hop[x] EXCEPT !.client = client, !.timer = FALSE]
           G == [hop EXCEPT ![x] = r]
<1>1. /\ r \in HopState /\ r.client = client /\ r.key = hop[x].key /\ r.parent = hop[x].parent
      /\ ~r.timer /\ r.token = hop[x].token /\ r.superseded = hop[x].superseded
      /\ r.parentReleased = hop[x].parentReleased /\ r.refs = hop[x].refs
  BY DEF HopTypes, HopState
<1>2. [hop EXCEPT ![x].client = client, ![x].timer = FALSE] = G
  BY DEF HopTypes
<1> HIDE DEF r
<1>3. /\ G \in [Hop -> HopState] /\ G[x] = r
      /\ \A y \in Hop : y # x => G[y] = hop[y]
  BY <1>1 DEF HopTypes
<1> HIDE DEF G
<1>4. /\ ReleaseParent(G, x) \in [Hop -> HopState]
      /\ \A y \in Hop :
           /\ Unmoved(ReleaseParent(G, x)[y], G[y])
           /\ ReleaseParent(G, x)[y].parentReleased = (y = x \/ G[y].parentReleased)
           /\ ReleaseParent(G, x)[y].refs =
                IF y = G[x].parent /\ ~G[x].parentReleased THEN G[y].refs - 1 ELSE G[y].refs
  BY <1>3, ReleaseParentEffect
<1>5. \A y \in Hop : ReleaseParent(G, x)[y].parentReleased = (y = x \/ hop[y].parentReleased)
  BY <1>1, <1>3, <1>4
<1> DEFINE K == ReleaseParent(G, x)
<1> HIDE DEF K
<1>6. Ends(K, x, client)
  BY <1>1, <1>3, <1>4, <1>5 DEF Unmoved, Timed, MayWait, Ends, K
<1> QED BY <1>2, <1>6 DEF K

-----------------------------------------------------------------------------
(* What a step must leave as it is for a part of the invariant to hold on. *)

\* A hop is the hop it was, and has at most ended since.
Grew(x) ==
  /\ hop'[x].key = hop[x].key /\ hop'[x].parent = hop[x].parent
  /\ hop'[x].token = hop[x].token /\ (hop[x].superseded => hop'[x].superseded)
  /\ hop'[x].client = "unborn" <=> hop[x].client = "unborn"
  /\ hop'[x].client \in {"open", "lost"} =>
       hop[x].client \in {"open", "lost"} /\ hop'[x].parentReleased = hop[x].parentReleased

\* A chain rides what it rode, or a live hop that its gesture may use.
RidesOn(d) ==
  Riding(d)' =>
    \/ Riding(d) /\ chain'[d].route = chain[d].route /\ chain'[d].token = chain[d].token
    \/ /\ hop[chain'[d].route].client \in {"open", "lost"}
       /\ chain'[d].token # NoToken => hop[chain'[d].route].token = chain'[d].token

LEMMA Links ==
  ASSUME HopTypes
  PROVE  /\ \A x \in Hop : hop[x].parent # NoHop => hop[x].parent \in Hop
         /\ \A d \in Chain : Riding(d) => chain[d].route \in Hop
         /\ DOMAIN hops = 1 .. Len(hops) /\ Len(hops) \in Nat
         /\ \A i \in DOMAIN hops : hops[i] \in Hop
<1>1. \A x \in Hop : hop[x].parent \in Hop \union {NoHop}
  BY DEF HopTypes, HopState
<1>2. \A d \in Chain : chain[d].route \in Hop \union {NoHop}
  BY DEF HopTypes, ChainState
<1>3. /\ DOMAIN hops = 1 .. Len(hops) /\ Len(hops) \in Nat
      /\ \A i \in 1 .. Len(hops) : hops[i] \in Hop
  BY LenProperties, ElementOfSeq DEF HopTypes
<1> QED BY <1>1, <1>2, <1>3 DEF Riding

LEMMA NextLinks ==
  ASSUME HopTypes'
  PROVE  /\ \A x \in Hop : hop'[x].parent # NoHop => hop'[x].parent \in Hop
         /\ \A d \in Chain : Riding(d)' => chain'[d].route \in Hop
<1>1. \A x \in Hop : hop'[x].parent \in Hop \union {NoHop}
  BY DEF HopTypes, HopState
<1>2. \A d \in Chain : chain'[d].route \in Hop \union {NoHop}
  BY DEF HopTypes, ChainState
<1> QED BY <1>1, <1>2 DEF Riding

LEMMA LinksStay ==
  ASSUME HopInv, HopTypes', \A x \in Hop : Grew(x), \A d \in Chain : RidesOn(d)
  PROVE  RoutesAreBorn' /\ LiveHopsHold' /\ GesturesStayTogether'
<1>1. /\ \A x \in Hop : hop[x].parent # NoHop => hop[x].parent \in Hop
      /\ \A d \in Chain : Riding(d) => chain[d].route \in Hop
  BY Links DEF HopInv
<1>2. /\ \A x \in Hop : hop'[x].parent # NoHop => hop'[x].parent \in Hop
      /\ \A d \in Chain : Riding(d)' => chain'[d].route \in Hop
  BY NextLinks
<1>3. RoutesAreBorn'
  <2>1. \A d \in Chain : Riding(d)' => hop'[chain'[d].route].client # "unborn"
    BY <1>2 DEF HopInv, RoutesAreBorn, Grew, RidesOn
  <2>2. \A x \in Hop : hop'[x].parent # NoHop =>
          /\ hop'[hop'[x].parent].client # "unborn" /\ hop'[x].parent # x
          /\ hop'[x].client # "unborn"
    BY <1>1, <1>2 DEF HopInv, RoutesAreBorn, Grew
  <2> QED BY <2>1, <2>2 DEF RoutesAreBorn
<1>4. LiveHopsHold'
  BY DEF HopInv, LiveHopsHold, Grew
<1>5. GesturesStayTogether'
  <2>1. \A d \in Chain : Riding(d)' /\ chain'[d].token # NoToken =>
          hop'[chain'[d].route].token = chain'[d].token
    BY <1>2 DEF HopInv, GesturesStayTogether, Grew, RidesOn
  <2>2. \A x \in Hop : hop'[x].parent # NoHop /\ hop'[x].token # NoToken =>
          hop'[hop'[x].parent].token = hop'[x].token
    BY <1>1, <1>2 DEF HopInv, GesturesStayTogether, Grew
  <2> QED BY <2>1, <2>2 DEF GesturesStayTogether
<1> QED BY <1>3, <1>4, <1>5

\* The registry's list and marks, when no hop is listed or taken off.
LEMMA ListStays ==
  ASSUME HopInv, HopTypes', hops' = hops, \A x \in Hop : Grew(x),
         \A x \in Hop : hop'[x].client \in {"open", "lost", "ending"}
                          <=> hop[x].client \in {"open", "lost", "ending"}
  PROVE  ListedWhileLoggedIn' /\ ReplacedHopsRest'
<1>1. \A i \in DOMAIN hops : hops[i] \in Hop
  BY Links DEF HopInv
<1>2. ListedWhileLoggedIn'
  BY DEF HopInv, ListedWhileLoggedIn
<1>3. ReplacedHopsRest'
  BY <1>1 DEF HopInv, ReplacedHopsRest, Grew
<1> QED BY <1>2, <1>3

\* No hop begins to end.
LEMMA RoutesStay ==
  ASSUME HopInv, HopTypes', ended' = ended, \A x \in Hop : Grew(x),
         \A d \in Chain : RidesOn(d),
         \A x \in Hop : hop'[x].client = "ending" => hop[x].client = "ending"
  PROVE  RouteStaysUp'
<1>1. CASE ended
  BY <1>1 DEF RouteStaysUp
<1>2. CASE ~ended
  <2>1. /\ \A x \in Hop : hop[x].parent # NoHop => hop[x].parent \in Hop
        /\ \A d \in Chain : Riding(d)' => chain'[d].route \in Hop
    BY Links, NextLinks DEF HopInv
  <2>2. \A d \in Chain : Riding(d)' => hop'[chain'[d].route].client # "ending"
    BY <1>2, <2>1 DEF HopInv, RouteStaysUp, RidesOn
  <2>3. \A x \in Hop : hop'[x].client \in {"open", "lost"} /\ hop'[x].parent # NoHop =>
          hop'[hop'[x].parent].client # "ending"
    BY <1>2, <2>1 DEF HopInv, RouteStaysUp, Grew
  <2> QED BY <2>2, <2>3 DEF RouteStaysUp
<1> QED BY <1>1, <1>2

-----------------------------------------------------------------------------
(* The counts. *)

LEMMA CountIs ==
  ASSUME HopTypes, NEW x \in Hop, Counted(x)
  PROVE  Cardinality(Behind(x)) \in Nat /\ Cardinality(Riders(x)) \in Nat
BY FS_CardinalityType DEF Counted

LEMMA SameCount ==
  ASSUME NEW x \in Hop, Counted(x),
         Behind(x)' = Behind(x), Riders(x)' = Riders(x), hop'[x].refs = hop[x].refs
  PROVE  Counted(x)'
BY DEF Counted

LEMMA RiderJoins ==
  ASSUME HopTypes, NEW x \in Hop, Counted(x), NEW d, d \notin Riders(x),
         Behind(x)' = Behind(x), Riders(x)' = Riders(x) \union {d},
         hop'[x].refs = hop[x].refs + 1
  PROVE  Counted(x)'
<1>1. /\ IsFiniteSet(Riders(x) \union {d})
      /\ Cardinality(Riders(x) \union {d}) = Cardinality(Riders(x)) + 1
  BY FS_AddElement DEF Counted
<1> QED BY <1>1, CountIs DEF Counted

LEMMA RiderLeaves ==
  ASSUME HopTypes, NEW x \in Hop, Counted(x), NEW d \in Riders(x),
         Behind(x)' = Behind(x), Riders(x)' = Riders(x) \ {d},
         hop'[x].refs = hop[x].refs - 1
  PROVE  Counted(x)'
<1>1. /\ IsFiniteSet(Riders(x) \ {d})
      /\ Cardinality(Riders(x) \ {d}) = Cardinality(Riders(x)) - 1
  BY FS_RemoveElement DEF Counted
<1> QED BY <1>1, CountIs DEF Counted

LEMMA HopLeaves ==
  ASSUME HopTypes, NEW x \in Hop, Counted(x), NEW y \in Behind(x),
         Behind(x)' = Behind(x) \ {y}, Riders(x)' = Riders(x),
         hop'[x].refs = hop[x].refs - 1
  PROVE  Counted(x)'
<1>1. /\ IsFiniteSet(Behind(x) \ {y})
      /\ Cardinality(Behind(x) \ {y}) = Cardinality(Behind(x)) - 1
  BY FS_RemoveElement DEF Counted
<1> QED BY <1>1, CountIs DEF Counted

\* A hop that ends gives the hop before it back, once.
LEMMA EndKeepsCounts ==
  ASSUME HopInv, NEW x \in Hop, NEW client, Ends(hop', x, client), UNCHANGED chain
  PROVE  AllCounted'
<1>1. \A y \in Hop : Riders(y)' = Riders(y)
  BY DEF Riders, Riding
<1>2. \A y \in Hop : Behind(y)' = {z \in Behind(y) : z # x}
  BY ZenonT(40) DEF Behind, Ends
<1>3. SUFFICES ASSUME NEW y \in Hop
               PROVE  Counted(y)'
  BY DEF AllCounted
<1>4. Counted(y)
  BY DEF HopInv, AllCounted
<1>5. CASE y = hop[x].parent /\ ~hop[x].parentReleased
  <2>1. x \in Behind(y) /\ Behind(y)' = Behind(y) \ {x}
    BY <1>2, <1>5 DEF Behind
  <2>2. hop'[y].refs = hop[y].refs - 1
    BY <1>5 DEF Ends
  <2> QED BY <1>1, <1>4, <2>1, <2>2, HopLeaves DEF HopInv
<1>6. CASE ~(y = hop[x].parent /\ ~hop[x].parentReleased)
  <2>1. x \notin Behind(y)
    BY <1>6 DEF Behind
  <2>2. hop'[y].refs = hop[y].refs
    BY <1>6 DEF Ends
  <2>3. Behind(y)' = Behind(y)
    BY <1>2, <2>1
  <2> QED BY <1>1, <1>4, <2>2, <2>3, SameCount
<1> QED BY <1>5, <1>6

\* The hops before the others and what those hold are as they were.
Holding(x) ==
  hop'[x].parent = hop[x].parent /\ hop'[x].parentReleased = hop[x].parentReleased

LEMMA GiveUpRouteKeepsCounts ==
  ASSUME HopInv, NEW d \in Chain, chain[d].state \in {"dialing", "up"}, ~Riding(d)',
         \A e \in Chain \ {d} : chain'[e] = chain[e],
         \A x \in Hop : Holding(x) /\ hop'[x].refs =
           IF x = chain[d].route THEN hop[x].refs - 1 ELSE hop[x].refs
  PROVE  AllCounted'
<1>1. SUFFICES ASSUME NEW x \in Hop
               PROVE  Counted(x)'
  BY DEF AllCounted
<1>2. Counted(x) /\ Behind(x)' = Behind(x)
  BY DEF HopInv, AllCounted, Behind, Holding
<1>3. Riders(x)' = {e \in Riders(x) : e # d}
  BY DEF Riders, Riding
<1>4. CASE x = chain[d].route
  <2>1. d \in Riders(x)
    BY <1>4, HopAssumption DEF Riders, Riding
  <2>2. Riders(x)' = Riders(x) \ {d} /\ hop'[x].refs = hop[x].refs - 1
    BY <1>3, <1>4
  <2> QED BY <1>2, <2>1, <2>2, RiderLeaves DEF HopInv
<1>5. CASE x # chain[d].route
  <2>1. Riders(x)' = Riders(x) /\ hop'[x].refs = hop[x].refs
    BY <1>3, <1>5 DEF Riders
  <2> QED BY <1>2, <2>1, SameCount
<1> QED BY <1>4, <1>5

LEMMA TakeRouteKeepsCounts ==
  ASSUME HopInv, NEW d \in Chain, ~Riding(d), chain'[d].state = "dialing",
         \A e \in Chain \ {d} : chain'[e] = chain[e],
         \A x \in Hop : Holding(x) /\ hop'[x].refs =
           IF x = chain'[d].route THEN hop[x].refs + 1 ELSE hop[x].refs
  PROVE  AllCounted'
<1>1. SUFFICES ASSUME NEW x \in Hop
               PROVE  Counted(x)'
  BY DEF AllCounted
<1>2. Counted(x) /\ Behind(x)' = Behind(x)
  BY DEF HopInv, AllCounted, Behind, Holding
<1>3. d \notin Riders(x)
  BY DEF Riders
<1>4. CASE x = chain'[d].route
  <2>1. Riding(d)'
    BY <1>4, HopAssumption DEF Riding
  <2>2. Riders(x)' = Riders(x) \union {d} /\ hop'[x].refs = hop[x].refs + 1
    BY <1>4, <2>1 DEF Riders, Riding
  <2> QED BY <1>2, <1>3, <2>2, RiderJoins DEF HopInv
<1>5. CASE x # chain'[d].route
  <2>1. Riders(x)' = Riders(x) /\ hop'[x].refs = hop[x].refs
    BY <1>3, <1>5 DEF Riders, Riding
  <2> QED BY <1>2, <2>1, SameCount
<1> QED BY <1>4, <1>5

-----------------------------------------------------------------------------
(* One lemma per action. *)

\* A step after which every hop is as far as it was, and no chain rides more.
LEMMA CalmStep ==
  ASSUME HopInv, HopTypes', AllCounted', UNCHANGED <<hops, ended>>,
         \A x \in Hop :
           /\ hop'[x].key = hop[x].key /\ hop'[x].parent = hop[x].parent
           /\ hop'[x].token = hop[x].token /\ hop'[x].client = hop[x].client
           /\ hop'[x].parentReleased = hop[x].parentReleased
           /\ Timed(hop'[x], hop[x]) /\ (hop[x].superseded => hop'[x].superseded),
         \A d \in Chain : RidesOn(d)
  PROVE  HopInv'
<1>1. \A x \in Hop : Grew(x)
  BY DEF Grew
<1>2. RoutesAreBorn' /\ LiveHopsHold' /\ GesturesStayTogether'
  BY <1>1, LinksStay
<1>3. ListedWhileLoggedIn' /\ ReplacedHopsRest'
  BY <1>1, ListStays
<1>4. RouteStaysUp'
  BY <1>1, RoutesStay
<1>5. IdleHopsAreLive'
  BY DEF HopInv, IdleHopsAreLive, Timed, MayWait
<1> QED BY <1>2, <1>3, <1>4, <1>5 DEF HopInv

LEMMA BeginKeepsHops ==
  ASSUME HopInv, NEW d \in Chain, NEW len \in 1 .. Depth, NEW token \in Token \union {NoToken},
         NEW first \in 0 .. Depth, NEW route \in Hop \union {NoHop},
         chain[d].state = "none", Begin(d, len, token, first, route), UNCHANGED <<hops, ended>>,
         route # NoHop => /\ hop[route].client \in {"open", "lost"}
                          /\ token # NoToken => hop[route].token = token
  PROVE  HopInv'
<1> DEFINE r == [state |-> "dialing", len |-> len, at |-> first,
                 route |-> route, reused |-> route, token |-> token]
<1>1. r \in ChainState
  BY HopAssumption DEF ChainState
<1>2. /\ chain' \in [Chain -> ChainState] /\ chain'[d] = r
      /\ \A e \in Chain \ {d} : chain'[e] = chain[e]
  BY <1>1 DEF Begin, HopInv, HopTypes
<1>3. /\ hop' \in [Hop -> HopState]
      /\ \A x \in Hop : /\ Unmoved(hop'[x], hop[x]) /\ Holding(x)
                        /\ hop'[x].refs = IF x = route THEN hop[x].refs + 1 ELSE hop[x].refs
  BY RetainEffect DEF Begin, HopInv, HopTypes, Unmoved, Holding
<1>4. HopTypes'
  BY <1>2, <1>3 DEF HopInv, HopTypes
<1>5. /\ ~Riding(d) /\ chain'[d].state = "dialing" /\ chain'[d].route = route
      /\ chain'[d].token = token
  BY <1>2 DEF Riding
<1>6. AllCounted'
  BY <1>2, <1>3, <1>5, TakeRouteKeepsCounts
<1>7. \A e \in Chain : RidesOn(e)
  <2>1. RidesOn(d)
    BY <1>5 DEF RidesOn, Riding
  <2>2. \A e \in Chain \ {d} : RidesOn(e)
    BY <1>2 DEF RidesOn, Riding
  <2> QED BY <2>1, <2>2
<1> QED BY <1>3, <1>4, <1>6, <1>7, CalmStep DEF Unmoved, Holding

LEMMA DialChainKeepsHops ==
  ASSUME HopInv, NEW d \in Chain, NEW len \in 1 .. Depth, NEW token \in Token \union {NoToken},
         DialChain(d, len, token)
  PROVE  HopInv'
<1>1. PICK healthy \in SUBSET Range(hops) :
        LET depths == {i \in 1 .. len : Reusable(i, token, healthy) # {}}
            first == Max(depths)
        IN  IF depths = {} THEN Begin(d, len, token, 0, NoHop)
            ELSE Begin(d, len, token, first, hops[Max(Reusable(first, token, healthy))])
  BY DEF DialChain
<1> DEFINE depths == {i \in 1 .. len : Reusable(i, token, healthy) # {}}
           first == Max(depths)
           place == Max(Reusable(first, token, healthy))
<1>2. chain[d].state = "none" /\ UNCHANGED <<hops, ended>> /\ Depth \in Nat
  BY HopAssumption DEF DialChain
<1>3. CASE depths = {}
  <2>1. Begin(d, len, token, 0, NoHop)
    BY <1>1, <1>3
  <2>2. 0 \in 0 .. Depth
    BY <1>2
  <2> QED BY <1>2, <2>1, <2>2, BeginKeepsHops
<1>4. CASE depths # {}
  <2>1. Begin(d, len, token, first, hops[place])
    BY <1>1, <1>4
  <2>2. len \in Nat /\ depths \in SUBSET (1 .. len)
    BY <1>2
  <2> HIDE DEF depths
  <2>3. first \in depths
    BY <1>4, <2>2, LastPlace
  <2>4. first \in 0 .. Depth /\ Reusable(first, token, healthy) # {}
    BY <1>2, <2>3 DEF depths
  <2> HIDE DEF first
  <2>5. /\ Len(hops) \in Nat /\ DOMAIN hops = 1 .. Len(hops)
        /\ Reusable(first, token, healthy) \in SUBSET (1 .. Len(hops))
    BY Links DEF HopInv, Reusable
  <2>6. place \in Reusable(first, token, healthy)
    BY <2>4, <2>5, LastPlace
  <2> HIDE DEF place
  <2>7. /\ hops[place] \in Hop
        /\ hop[hops[place]].client \in {"open", "lost"}
        /\ token # NoToken => hop[hops[place]].token = token
    BY <2>6, Links DEF HopInv, Reusable, Usable
  <2> QED BY <1>2, <2>1, <2>4, <2>7, BeginKeepsHops
<1> QED BY <1>3, <1>4

LEMMA SupersedingEffect ==
  ASSUME HopInv, NEW key \in 0 .. Depth, NEW token \in Token \union {NoToken}
  PROVE  /\ Superseding(hop, key, token) \in [Hop -> HopState]
         /\ \A y \in Hop : LET h == Superseding(hop, key, token)[y] IN
              /\ h.client = hop[y].client /\ h.key = hop[y].key /\ h.parent = hop[y].parent
              /\ h.token = hop[y].token /\ h.parentReleased = hop[y].parentReleased
              /\ h.refs = hop[y].refs /\ h.timer = hop[y].timer
              /\ hop[y].superseded => h.superseded
              /\ token # NoToken /\ y \in Range(hops) /\ hop[y].key = key
                 /\ hop[y].token # token => h.superseded
<1> DEFINE M(h) == [h EXCEPT !.superseded = TRUE]
<1>1. ASSUME NEW h \in HopState
      PROVE  /\ M(h) \in HopState /\ M(h).superseded
             /\ M(h).client = h.client /\ M(h).key = h.key /\ M(h).parent = h.parent
             /\ M(h).token = h.token /\ M(h).parentReleased = h.parentReleased
             /\ M(h).refs = h.refs /\ M(h).timer = h.timer
  BY DEF HopState
<1>2. CASE token = NoToken
  BY <1>2 DEF Superseding, HopInv, HopTypes
<1>3. CASE token # NoToken
  <2>1. Superseding(hop, key, token) =
          [y \in Hop |-> IF y \in Range(hops) /\ hop[y].key = key /\ hop[y].token # token
                           THEN M(hop[y]) ELSE hop[y]]
    BY <1>3 DEF Superseding
  <2>2. \A y \in Hop : hop[y] \in HopState
    BY DEF HopInv, HopTypes
  <2> HIDE DEF M
  <2> QED BY <1>1, <1>3, <2>1, <2>2
<1> QED BY <1>2, <1>3

\* The new hop x in front of route: ridden by the chain that dialed it, which
\* does not end on route any more.
LEMMA AddEffect ==
  ASSUME HopInv, NEW key \in 0 .. Depth, NEW token \in Token \union {NoToken},
         NEW route \in Hop \union {NoHop}, NEW x \in Hop, x # route,
         hop' = Release(Retain(Added(Superseding(hop, key, token), x, key, route, token), x),
                        route)
  PROVE  /\ hop' \in [Hop -> HopState]
         /\ hop'[x].client = "open" /\ hop'[x].key = key /\ hop'[x].parent = route
         /\ hop'[x].token = token /\ ~hop'[x].parentReleased /\ hop'[x].refs = 1
         /\ \A y \in Hop \ {x} :
              /\ Grew(y) /\ Holding(y) /\ hop'[y].client = hop[y].client
              /\ Timed(hop'[y], hop[y])
              /\ hop'[y].refs = hop[y].refs
              /\ token # NoToken /\ y \in Range(hops) /\ hop[y].key = key
                 /\ hop[y].token # token => hop'[y].superseded
<1> DEFINE new == [client |-> "open", key |-> key, parent |-> route,
                   parentReleased |-> FALSE, refs |-> 0, timer |-> FALSE,
                   superseded |-> FALSE, token |-> token]
           S == Superseding(hop, key, token)
           G == [S EXCEPT ![x] = new]
           A == Retain(G, route)
           B == Retain(A, x)
<1>1. new \in HopState
  BY DEF HopState
<1>2. /\ S \in [Hop -> HopState]
      /\ \A y \in Hop :
           /\ S[y].client = hop[y].client /\ S[y].key = hop[y].key /\ S[y].parent = hop[y].parent
           /\ S[y].token = hop[y].token /\ S[y].parentReleased = hop[y].parentReleased
           /\ S[y].refs = hop[y].refs /\ S[y].timer = hop[y].timer
           /\ hop[y].superseded => S[y].superseded
           /\ token # NoToken /\ y \in Range(hops) /\ hop[y].key = key
              /\ hop[y].token # token => S[y].superseded
  BY SupersedingEffect
<1> HIDE DEF S
<1>3. /\ G \in [Hop -> HopState] /\ G[x] = new /\ \A y \in Hop \ {x} : G[y] = S[y]
  BY <1>1, <1>2
<1>4. hop' = Release(B, route)
  BY DEF Added, S
<1> HIDE DEF G
<1>5. /\ A \in [Hop -> HopState]
      /\ \A y \in Hop : /\ Unmoved(A[y], G[y]) /\ A[y].parentReleased = G[y].parentReleased
                        /\ A[y].refs = IF y = route THEN G[y].refs + 1 ELSE G[y].refs
  BY <1>3, RetainEffect
<1> HIDE DEF A
<1>6. /\ B \in [Hop -> HopState]
      /\ \A y \in Hop : /\ Unmoved(B[y], A[y]) /\ B[y].parentReleased = A[y].parentReleased
                        /\ B[y].refs = IF y = x THEN A[y].refs + 1 ELSE A[y].refs
  BY <1>5, RetainEffect
<1> HIDE DEF B
<1>7. /\ hop' \in [Hop -> HopState]
      /\ \A y \in Hop : /\ Unmoved(hop'[y], B[y]) /\ hop'[y].parentReleased = B[y].parentReleased
                        /\ hop'[y].refs = IF y = route THEN B[y].refs - 1 ELSE B[y].refs
  BY <1>4, <1>6, ReleaseEffect
<1>8. \A y \in Hop : /\ Unmoved(hop'[y], G[y]) /\ hop'[y].parentReleased = G[y].parentReleased
  BY <1>5, <1>6, <1>7 DEF Unmoved, Timed, MayWait
<1>9. \A y \in Hop : G[y].refs \in Int
  BY <1>3 DEF HopState
<1>10. hop'[x].refs = G[x].refs + 1
  BY <1>5, <1>6, <1>7
<1>11. \A y \in Hop \ {x} : hop'[y].refs = G[y].refs
  BY <1>5, <1>6, <1>7, <1>9
<1>12. /\ hop'[x].client = "open" /\ hop'[x].key = key /\ hop'[x].parent = route
       /\ hop'[x].token = token /\ ~hop'[x].parentReleased /\ hop'[x].refs = 1
  BY <1>3, <1>8, <1>10 DEF Unmoved
<1>13. \A y \in Hop \ {x} :
         /\ Grew(y) /\ Holding(y) /\ hop'[y].client = hop[y].client
         /\ Timed(hop'[y], hop[y])
         /\ hop'[y].refs = hop[y].refs
         /\ token # NoToken /\ y \in Range(hops) /\ hop[y].key = key
            /\ hop[y].token # token => hop'[y].superseded
  BY <1>2, <1>3, <1>8, <1>11 DEF Unmoved, Timed, MayWait, Grew, Holding
<1> QED BY <1>7, <1>12, <1>13

LEMMA AppendListed ==
  ASSUME HopTypes, NEW x \in Hop, hops' = Append(hops, x)
  PROVE  /\ hops' \in Seq(Hop) /\ DOMAIN hops' = 1 .. Len(hops) + 1
         /\ DOMAIN hops = 1 .. Len(hops) /\ Len(hops) \in Nat
         /\ \A i \in DOMAIN hops : hops'[i] = hops[i]
         /\ hops'[Len(hops) + 1] = x
<1>1. hops \in Seq(Hop)
  BY DEF HopTypes
<1>2. /\ hops' \in Seq(Hop) /\ Len(hops') = Len(hops) + 1
      /\ \A i \in 1 .. Len(hops) : hops'[i] = hops[i]
      /\ hops'[Len(hops) + 1] = x
  BY <1>1, AppendProperties
<1> QED BY <1>1, <1>2, LenProperties

LEMMA HopReadyKeepsHops ==
  ASSUME HopInv, NEW d \in Chain, HopReady(d)
  PROVE  HopInv'
<1> DEFINE route == chain[d].route
           token == chain[d].token
           key == chain[d].at + 1
<1>1. PICK x \in Hop :
        /\ hop[x].client = "unborn"
        /\ hop' = Release(Retain(Added(Superseding(hop, key, token), x, key, route, token), x),
                          route)
        /\ hops' = Append(hops, x)
        /\ chain' = [chain EXCEPT ![d].at = key, ![d].route = x]
  BY DEF HopReady
<1>2. /\ chain[d].state = "dialing" /\ chain[d].at < chain[d].len /\ ended' = ended
      /\ route # NoHop => hop[route].client = "open"
  BY DEF HopReady, Carried
<1>3. /\ chain[d] \in ChainState /\ key \in 0 .. Depth /\ token \in Token \union {NoToken}
      /\ route \in Hop \union {NoHop}
  <2>1. chain[d] \in ChainState /\ Depth \in Nat
    BY HopAssumption DEF HopInv, HopTypes
  <2> QED BY <1>2, <2>1 DEF ChainState
<1>4. x # route /\ hop[x].parent = NoHop /\ x # NoHop
  BY <1>1, <1>2, HopAssumption DEF HopInv, RoutesAreBorn
<1>5. /\ chain' \in [Chain -> ChainState] /\ chain'[d].state = "dialing"
      /\ chain'[d].route = x /\ chain'[d].token = token
      /\ \A e \in Chain \ {d} : chain'[e] = chain[e]
  <2> DEFINE r == [chain[d] EXCEPT !.at = key, !.route = x]
  <2>1. r \in ChainState /\ r.state = chain[d].state /\ r.route = x /\ r.token = token
    BY <1>3 DEF ChainState
  <2>2. chain' = [chain EXCEPT ![d] = r]
    BY <1>1 DEF HopInv, HopTypes
  <2> HIDE DEF r
  <2> QED BY <1>2, <2>1, <2>2 DEF HopInv, HopTypes
<1> HIDE DEF route, token, key
<1>6. /\ hop' \in [Hop -> HopState]
      /\ hop'[x].client = "open" /\ hop'[x].key = key /\ hop'[x].parent = route
      /\ hop'[x].token = token /\ ~hop'[x].parentReleased /\ hop'[x].refs = 1
      /\ \A y \in Hop \ {x} :
           /\ Grew(y) /\ Holding(y) /\ hop'[y].client = hop[y].client
           /\ Timed(hop'[y], hop[y])
           /\ hop'[y].refs = hop[y].refs
           /\ token # NoToken /\ y \in Range(hops) /\ hop[y].key = key
              /\ hop[y].token # token => hop'[y].superseded
  <2>1. hop' = Release(Retain(Added(Superseding(hop, key, token), x, key, route, token), x),
                       route)
    BY <1>1
  <2>2. key \in 0 .. Depth /\ token \in Token \union {NoToken} /\ route \in Hop \union {NoHop}
    BY <1>3
  <2> QED BY <1>4, <2>1, <2>2, AddEffect
<1>7. /\ hops' \in Seq(Hop) /\ DOMAIN hops' = 1 .. Len(hops) + 1
      /\ DOMAIN hops = 1 .. Len(hops) /\ Len(hops) \in Nat
      /\ \A i \in DOMAIN hops : hops'[i] = hops[i]
      /\ hops'[Len(hops) + 1] = x
  BY <1>1, AppendListed DEF HopInv
<1>8. HopTypes'
  BY <1>2, <1>5, <1>6, <1>7 DEF HopInv, HopTypes
<1>9. /\ \A y \in Hop : hop[y].parent # NoHop => hop[y].parent \in Hop /\ hop[y].parent # x
      /\ \A e \in Chain : Riding(e) => chain[e].route \in Hop /\ chain[e].route # x
      /\ \A i \in DOMAIN hops : hops[i] \in Hop /\ hops[i] # x /\ hops[i] \in Range(hops)
  <2>1. \A i \in DOMAIN hops : hops[i] \in Range(hops)
    BY DEF Range
  <2> QED BY <1>1, <2>1, Links DEF HopInv, RoutesAreBorn, ListedWhileLoggedIn
<1>10. Riding(d)' /\ \A e \in Chain \ {d} : Riding(e)' = Riding(e)
  BY <1>4, <1>5 DEF Riding
<1>11. Riding(d) <=> route # NoHop
  BY <1>2 DEF Riding, route
<1>12. ListedWhileLoggedIn'
  <2>1. \A i, j \in DOMAIN hops' : hops'[i] = hops'[j] => i = j
    BY <1>7, <1>9 DEF HopInv, ListedWhileLoggedIn
  <2>2. \A y \in Hop : (\E i \in DOMAIN hops' : hops'[i] = y)
                         <=> hop'[y].client \in {"open", "lost", "ending"}
    <3>1. \E i \in DOMAIN hops' : hops'[i] = x
      BY <1>7
    <3>2. ASSUME NEW y \in Hop \ {x}
          PROVE  (\E i \in DOMAIN hops' : hops'[i] = y) <=> (\E i \in DOMAIN hops : hops[i] = y)
      BY <1>7
    <3> QED BY <1>6, <3>1, <3>2 DEF HopInv, ListedWhileLoggedIn
  <2> QED BY <2>1, <2>2 DEF ListedWhileLoggedIn
<1>13. RoutesAreBorn'
  <2>1. \A e \in Chain : Riding(e)' => hop'[chain'[e].route].client # "unborn"
    BY <1>5, <1>6, <1>9, <1>10 DEF HopInv, RoutesAreBorn
  <2>2. \A y \in Hop : hop'[y].parent # NoHop =>
          /\ hop'[hop'[y].parent].client # "unborn" /\ hop'[y].parent # y
          /\ hop'[y].client # "unborn"
    <3>1. CASE route # NoHop
      BY <1>2, <1>3, <1>4, <1>6, <1>9, <3>1 DEF HopInv, RoutesAreBorn, Holding, route
    <3>2. CASE route = NoHop
      BY <1>6, <1>9, <3>2 DEF HopInv, RoutesAreBorn, Holding
    <3> QED BY <3>1, <3>2
  <2> QED BY <2>1, <2>2 DEF RoutesAreBorn
<1>14. LiveHopsHold'
  BY <1>6 DEF HopInv, LiveHopsHold, Holding
<1>19. IdleHopsAreLive'
  BY <1>6 DEF HopInv, IdleHopsAreLive, Timed, MayWait
<1>15. GesturesStayTogether'
  <2>1. \A e \in Chain : Riding(e)' /\ chain'[e].token # NoToken =>
          hop'[chain'[e].route].token = chain'[e].token
    BY <1>5, <1>6, <1>9, <1>10 DEF HopInv, GesturesStayTogether, Grew
  <2>2. ASSUME NEW y \in Hop, hop'[y].parent # NoHop, hop'[y].token # NoToken
        PROVE  hop'[hop'[y].parent].token = hop'[y].token
    <3>1. CASE y = x
      <4>1. Riding(d) /\ route \in Hop \ {x} /\ token = hop'[x].token
        BY <1>3, <1>4, <1>6, <1>11, <2>2, <3>1
      <4> QED BY <1>6, <2>2, <3>1, <4>1 DEF HopInv, GesturesStayTogether, Grew, route, token
    <3>2. CASE y # x
      BY <1>6, <1>9, <2>2, <3>2 DEF HopInv, GesturesStayTogether, Grew
    <3> QED BY <3>1, <3>2
  <2> QED BY <2>1, <2>2 DEF GesturesStayTogether
<1>16. RouteStaysUp'
  <2>1. CASE ended
    BY <1>2, <2>1 DEF RouteStaysUp
  <2>2. CASE ~ended
    <3>1. \A e \in Chain : Riding(e)' => hop'[chain'[e].route].client # "ending"
      BY <1>5, <1>6, <1>9, <1>10, <2>2 DEF HopInv, RouteStaysUp
    <3>2. \A y \in Hop : hop'[y].client \in {"open", "lost"} /\ hop'[y].parent # NoHop =>
            hop'[hop'[y].parent].client # "ending"
      <4>1. route # NoHop => route \in Hop \ {x} /\ hop'[route].client = "open"
        BY <1>2, <1>3, <1>4, <1>6 DEF route
      <4> QED BY <1>6, <1>9, <2>2, <4>1 DEF HopInv, RouteStaysUp, Holding
    <3> QED BY <1>2, <3>1, <3>2 DEF RouteStaysUp
  <2> QED BY <2>1, <2>2
<1>17. ReplacedHopsRest'
  <2>1. SUFFICES ASSUME NEW i \in DOMAIN hops', NEW j \in DOMAIN hops', i < j,
                        hop'[hops'[i]].key = hop'[hops'[j]].key,
                        hop'[hops'[j]].token # NoToken,
                        hop'[hops'[i]].token # hop'[hops'[j]].token
                 PROVE  hop'[hops'[i]].superseded
    BY DEF ReplacedHopsRest
  <2>2. i \in DOMAIN hops /\ hops'[i] = hops[i] /\ hops[i] \in Hop \ {x}
    BY <1>7, <1>9, <2>1
  <2>3. CASE j \in DOMAIN hops
    <3>1. hops'[j] = hops[j] /\ hops[j] \in Hop \ {x}
      BY <1>7, <1>9, <2>3
    <3> QED BY <1>6, <2>1, <2>2, <2>3, <3>1 DEF HopInv, ReplacedHopsRest, Grew
  <2>4. CASE j \notin DOMAIN hops
    <3>1. hops'[j] = x
      BY <1>7, <2>4
    <3> QED BY <1>6, <1>9, <2>1, <2>2, <3>1 DEF Grew
  <2> QED BY <2>3, <2>4
<1>18. AllCounted'
  <2>1. SUFFICES ASSUME NEW y \in Hop
                 PROVE  Counted(y)'
    BY DEF AllCounted
  <2>2. /\ Behind(y)' = Behind(y) \union {z \in {x} : y = route}
        /\ x \notin Behind(y)
    <3>1. x \notin Behind(y)
      BY <1>4, <2>1, HopAssumption DEF Behind
    <3>2. x \in Behind(y)' <=> y = route
      BY <1>6 DEF Behind
    <3>3. \A z \in Hop \ {x} : z \in Behind(y)' <=> z \in Behind(y)
      BY <1>6 DEF Behind, Holding
    <3>4. Behind(y)' \subseteq Hop /\ Behind(y) \subseteq Hop
      BY DEF Behind
    <3> QED BY <3>1, <3>2, <3>3, <3>4
  <2>3. Riders(y)' = {e \in Riders(y) : e # d} \union {e \in {d} : y = x}
    BY <1>5, <1>10 DEF Riders
  <2>4. Counted(y)
    BY DEF HopInv, AllCounted
  <2>5. CASE y = x
    <3>1. Behind(y)' = {} /\ Riders(y)' = {d}
      BY <1>4, <1>9, <2>2, <2>3, <2>5 DEF Behind, Riders
    <3>2. /\ IsFiniteSet(Behind(y)') /\ IsFiniteSet(Riders(y)')
          /\ Cardinality(Behind(y)') = 0 /\ Cardinality(Riders(y)') = 1
      BY <3>1, FS_EmptySet, FS_Singleton
    <3> QED BY <1>6, <2>5, <3>2 DEF Counted
  <2>6. CASE y = route
    <3>1. y # x /\ d \in Riders(y) /\ hop'[y].refs = hop[y].refs
      BY <1>4, <1>6, <1>11, <2>6, HopAssumption DEF Riders, route
    <3>2. Behind(y)' = Behind(y) \union {x} /\ Riders(y)' = Riders(y) \ {d}
      BY <2>2, <2>3, <2>6, <3>1
    <3>3. /\ IsFiniteSet(Behind(y) \union {x})
          /\ Cardinality(Behind(y) \union {x}) = Cardinality(Behind(y)) + 1
      BY <2>2, <2>4, FS_AddElement DEF Counted
    <3>4. /\ IsFiniteSet(Riders(y) \ {d})
          /\ Cardinality(Riders(y) \ {d}) = Cardinality(Riders(y)) - 1
      BY <2>4, <3>1, FS_RemoveElement DEF Counted
    <3> QED BY <2>4, <3>1, <3>2, <3>3, <3>4, CountIs DEF Counted, HopInv
  <2>7. CASE y # x /\ y # route
    <3>1. d \notin Riders(y) /\ hop'[y].refs = hop[y].refs
      BY <1>6, <2>7 DEF Riders, route
    <3>2. Behind(y)' = Behind(y) /\ Riders(y)' = Riders(y)
      BY <2>2, <2>3, <2>7, <3>1
    <3> QED BY <2>4, <3>1, <3>2, SameCount
  <2> QED BY <2>5, <2>6, <2>7
<1> QED BY <1>8, <1>12, <1>13, <1>14, <1>15, <1>16, <1>17, <1>18, <1>19
        DEF HopInv

\* The chain d gives its route up, whatever else becomes of it.
LEMMA GiveUpKeepsHops ==
  ASSUME HopInv, HopTypes', NEW d \in Chain, chain[d].state \in {"dialing", "up"},
         ~Riding(d)', \A e \in Chain \ {d} : chain'[e] = chain[e], UNCHANGED <<hops, ended>>,
         \A x \in Hop :
           /\ hop'[x].client = hop[x].client /\ hop'[x].key = hop[x].key
           /\ hop'[x].token = hop[x].token /\ Holding(x)
           /\ Timed(hop'[x], hop[x]) /\ (hop[x].superseded => hop'[x].superseded)
           /\ hop'[x].refs = IF x = chain[d].route THEN hop[x].refs - 1 ELSE hop[x].refs
  PROVE  HopInv'
<1>1. AllCounted'
  BY GiveUpRouteKeepsCounts
<1>2. \A e \in Chain : RidesOn(e)
  BY DEF RidesOn, Riding
<1> QED BY <1>1, <1>2, CalmStep DEF Holding

LEMMA ReleaseRoute ==
  ASSUME HopInv, NEW d \in Chain, hop' = Release(hop, chain[d].route)
  PROVE  /\ hop' \in [Hop -> HopState]
         /\ \A x \in Hop :
              /\ Unmoved(hop'[x], hop[x]) /\ Holding(x)
              /\ hop'[x].refs = IF x = chain[d].route THEN hop[x].refs - 1 ELSE hop[x].refs
<1>1. chain[d].route \in Hop \union {NoHop} /\ hop \in [Hop -> HopState]
  BY DEF HopInv, HopTypes, ChainState
<1> QED BY <1>1, ReleaseEffect DEF Unmoved, Holding

LEMMA ChainOverKeepsHops ==
  ASSUME HopInv, NEW d \in Chain, chain[d].state \in {"dialing", "up"},
         hop' = Release(hop, chain[d].route), chain' = [chain EXCEPT ![d].state = "over"],
         UNCHANGED <<hops, ended>>
  PROVE  HopInv'
<1>1. /\ chain' \in [Chain -> ChainState] /\ chain'[d].state = "over"
      /\ \A e \in Chain \ {d} : chain'[e] = chain[e]
  <2> DEFINE r == [chain[d] EXCEPT !.state = "over"]
  <2>1. r \in ChainState /\ r.state = "over"
    BY DEF HopInv, HopTypes, ChainState
  <2>2. chain' = [chain EXCEPT ![d] = r]
    BY DEF HopInv, HopTypes
  <2> HIDE DEF r
  <2> QED BY <2>1, <2>2 DEF HopInv, HopTypes
<1>2. HopTypes'
  BY <1>1, ReleaseRoute DEF HopInv, HopTypes
<1>3. ~Riding(d)'
  BY <1>1 DEF Riding
<1> QED BY <1>1, <1>2, <1>3, ReleaseRoute, GiveUpKeepsHops DEF Unmoved

LEMMA TargetReadyKeepsHops ==
  ASSUME HopInv, NEW d \in Chain, TargetReady(d)
  PROVE  HopInv'
<1>1. /\ chain' \in [Chain -> ChainState]
      /\ chain'[d].state = "up" /\ chain[d].state = "dialing"
      /\ chain'[d].route = chain[d].route /\ chain'[d].token = chain[d].token
      /\ \A e \in Chain \ {d} : chain'[e] = chain[e]
  <2> DEFINE r == [chain[d] EXCEPT !.state = "up"]
  <2>1. /\ r \in ChainState /\ r.state = "up" /\ r.route = chain[d].route
        /\ r.token = chain[d].token
    BY DEF HopInv, HopTypes, ChainState
  <2>2. chain' = [chain EXCEPT ![d] = r] /\ chain[d].state = "dialing"
    BY DEF TargetReady, HopInv, HopTypes
  <2> HIDE DEF r
  <2> QED BY <2>1, <2>2 DEF HopInv, HopTypes
<1>2. UNCHANGED <<hop, hops, ended>>
  BY DEF TargetReady
<1>3. HopTypes'
  BY <1>1, <1>2 DEF HopInv, HopTypes
<1>4. \A e \in Chain : Riding(e)' = Riding(e) /\ chain'[e].route = chain[e].route
                       /\ chain'[e].token = chain[e].token
  BY <1>1 DEF Riding
<1>5. AllCounted'
  <2>1. SUFFICES ASSUME NEW x \in Hop
                 PROVE  Counted(x)'
    BY DEF AllCounted
  <2>2. Riders(x)' = Riders(x) /\ Behind(x)' = Behind(x) /\ Counted(x)
    BY <1>2, <1>4 DEF Riders, Behind, HopInv, AllCounted
  <2> QED BY <1>2, <2>2, SameCount
<1>6. \A x \in Hop : Timed(hop'[x], hop[x])
  BY <1>2 DEF Timed, MayWait
<1> QED BY <1>2, <1>3, <1>4, <1>5, <1>6, CalmStep DEF RidesOn

LEMMA StaleHopKeepsHops ==
  ASSUME HopInv, NEW d \in Chain, StaleHop(d)
  PROVE  HopInv'
<1> DEFINE route == chain[d].route
           R == Release(hop, route)
<1>1. /\ chain[d].state = "dialing" /\ route # NoHop /\ UNCHANGED <<hops, ended>>
      /\ hop' = [R EXCEPT ![route].superseded = TRUE]
      /\ chain' = [chain EXCEPT ![d].at = 0, ![d].route = NoHop, ![d].reused = NoHop]
  BY DEF StaleHop
<1>2. route \in Hop /\ chain[d] \in ChainState /\ 0 \in 0 .. Depth
  BY <1>1, HopAssumption DEF HopInv, HopTypes, ChainState
<1>3. /\ chain' \in [Chain -> ChainState] /\ chain'[d].route = NoHop
      /\ \A e \in Chain \ {d} : chain'[e] = chain[e]
  <2> DEFINE r == [chain[d] EXCEPT !.at = 0, !.route = NoHop, !.reused = NoHop]
  <2>1. r \in ChainState /\ r.route = NoHop
    BY <1>2, HopAssumption DEF ChainState
  <2>2. chain' = [chain EXCEPT ![d] = r]
    BY <1>1 DEF HopInv, HopTypes
  <2> HIDE DEF r
  <2> QED BY <2>1, <2>2 DEF HopInv, HopTypes
<1>4. /\ R \in [Hop -> HopState]
      /\ \A x \in Hop :
           /\ Unmoved(R[x], hop[x]) /\ R[x].parentReleased = hop[x].parentReleased
           /\ R[x].refs = IF x = route THEN hop[x].refs - 1 ELSE hop[x].refs
  BY <1>2, ReleaseEffect DEF HopInv, HopTypes
<1> HIDE DEF R
<1>5. /\ hop' \in [Hop -> HopState]
      /\ \A x \in Hop :
           /\ hop'[x].client = R[x].client /\ hop'[x].key = R[x].key
           /\ hop'[x].parent = R[x].parent /\ hop'[x].token = R[x].token
           /\ hop'[x].parentReleased = R[x].parentReleased /\ hop'[x].refs = R[x].refs
           /\ hop'[x].timer = R[x].timer /\ (R[x].superseded => hop'[x].superseded)
  <2> DEFINE r == [R[route] EXCEPT !.superseded = TRUE]
  <2>1. /\ r \in HopState /\ r.client = R[route].client /\ r.key = R[route].key
        /\ r.parent = R[route].parent /\ r.token = R[route].token /\ r.superseded
        /\ r.parentReleased = R[route].parentReleased /\ r.refs = R[route].refs
        /\ r.timer = R[route].timer
    BY <1>2, <1>4, ZenonT(40) DEF HopState
  <2>2. hop' = [R EXCEPT ![route] = r]
    BY <1>1
  <2> HIDE DEF r
  <2> QED BY <1>2, <1>4, <2>1, <2>2
<1>6. HopTypes' /\ ~Riding(d)'
  BY <1>1, <1>3, <1>5 DEF HopInv, HopTypes, Riding
<1>7. \A x \in Hop :
        /\ hop'[x].client = hop[x].client /\ hop'[x].key = hop[x].key
        /\ hop'[x].token = hop[x].token /\ Holding(x)
        /\ Timed(hop'[x], hop[x]) /\ (hop[x].superseded => hop'[x].superseded)
        /\ hop'[x].refs = IF x = route THEN hop[x].refs - 1 ELSE hop[x].refs
  BY <1>4, <1>5 DEF Unmoved, Timed, MayWait, Holding
<1>8. /\ chain[d].state \in {"dialing", "up"} /\ UNCHANGED <<hops, ended>>
      /\ \A e \in Chain \ {d} : chain'[e] = chain[e]
  BY <1>1, <1>3
<1> QED BY <1>6, <1>7, <1>8, GiveUpKeepsHops

LEMMA LoseKeepsHops ==
  ASSUME HopInv, NEW x \in Hop, Lose(x)
  PROVE  HopInv'
<1>1. /\ hop[x].client = "open" /\ UNCHANGED <<hops, chain, ended>>
      /\ \A y \in Hop : hop'[y].timer = hop[y].timer
      /\ hop' \in [Hop -> HopState]
      /\ \A y \in Hop :
           /\ hop'[y].client = IF y = x THEN "lost" ELSE hop[y].client
           /\ hop'[y].key = hop[y].key /\ hop'[y].parent = hop[y].parent
           /\ hop'[y].token = hop[y].token /\ hop'[y].superseded = hop[y].superseded
           /\ hop'[y].parentReleased = hop[y].parentReleased /\ hop'[y].refs = hop[y].refs
  <2> DEFINE r == [hop[x] EXCEPT !.client = "lost"]
  <2>1. /\ r \in HopState /\ r.client = "lost" /\ r.key = hop[x].key
        /\ r.parent = hop[x].parent /\ r.token = hop[x].token
        /\ r.superseded = hop[x].superseded /\ r.refs = hop[x].refs
        /\ r.parentReleased = hop[x].parentReleased /\ r.timer = hop[x].timer
    BY DEF HopInv, HopTypes, HopState
  <2>2. hop' = [hop EXCEPT ![x] = r]
    BY DEF Lose, HopInv, HopTypes
  <2> HIDE DEF r
  <2> QED BY <2>1, <2>2 DEF Lose, HopInv, HopTypes
<1>2. HopTypes'
  BY <1>1 DEF HopInv, HopTypes
<1>3. /\ \A y \in Hop : Grew(y) /\ (hop'[y].client = "ending" => hop[y].client = "ending")
      /\ \A y \in Hop : hop'[y].client \in {"open", "lost", "ending"}
                          <=> hop[y].client \in {"open", "lost", "ending"}
      /\ \A d \in Chain : RidesOn(d)
  BY <1>1 DEF Grew, RidesOn, Riding
<1>4. AllCounted'
  <2>1. SUFFICES ASSUME NEW y \in Hop
                 PROVE  Counted(y)'
    BY DEF AllCounted
  <2>2. Riders(y)' = Riders(y) /\ Behind(y)' = Behind(y) /\ Counted(y)
    BY <1>1 DEF Riders, Riding, Behind, HopInv, AllCounted
  <2> QED BY <1>1, <2>2, SameCount
<1>5. RoutesAreBorn' /\ LiveHopsHold' /\ GesturesStayTogether'
  BY <1>2, <1>3, LinksStay
<1>6. ListedWhileLoggedIn' /\ ReplacedHopsRest'
  BY <1>1, <1>2, <1>3, ListStays
<1>7. RouteStaysUp'
  BY <1>1, <1>2, <1>3, RoutesStay
<1>8. IdleHopsAreLive'
  BY <1>1 DEF HopInv, IdleHopsAreLive
<1> QED BY <1>2, <1>4, <1>5, <1>6, <1>7, <1>8 DEF HopInv

LEMMA EndGrows ==
  ASSUME HopInv, NEW x \in Hop, NEW client \in {"ending", "closed"},
         Ends(hop', x, client), UNCHANGED chain, hop[x].client # "unborn"
  PROVE  (\A y \in Hop : Grew(y)) /\ (\A d \in Chain : RidesOn(d))
<1>1. \A y \in Hop : hop[y].parentReleased \in BOOLEAN
  BY DEF HopInv, HopTypes, HopState
<1>2. Grew(x)
  BY DEF Ends, Grew
<1>3. \A y \in Hop \ {x} : Grew(y)
  BY <1>1 DEF Ends, Grew
<1>4. \A d \in Chain : RidesOn(d)
  BY DEF RidesOn, Riding
<1> QED BY <1>2, <1>3, <1>4

LEMMA HopClosedKeepsHops ==
  ASSUME HopInv, NEW x \in Hop, HopClosed(x)
  PROVE  HopInv'
<1>1. /\ hop[x].client \in {"lost", "ending"} /\ UNCHANGED <<chain, ended>>
      /\ hops' = RemoveFirst(hops, x) /\ Ends(hop', x, "closed")
  BY EndEffect DEF HopClosed, HopInv
<1>2. /\ \A y \in Hop : Grew(y) /\ (hop'[y].client = "ending" => hop[y].client = "ending")
      /\ \A d \in Chain : RidesOn(d)
  <2>1. \A y \in Hop : hop'[y].client = "ending" => hop[y].client = "ending"
    BY <1>1 DEF Ends
  <2> QED BY <1>1, <2>1, EndGrows
<1>3. /\ hops \in Seq(Hop) /\ DOMAIN hops = 1 .. Len(hops) /\ Len(hops) \in Nat
      /\ \A i \in DOMAIN hops : hops[i] \in Hop
  BY Links DEF HopInv, HopTypes
<1>4. hops' \in Seq(Hop)
  BY <1>1, <1>3, RemoveFirstKeepsOrder
<1>15. PICK n \in Nat : \E at : LeavesOut(hops', hops, x, n, at)
  BY <1>1, <1>3, RemoveFirstKeepsOrder
<1>5. PICK at : LeavesOut(hops', hops, x, n, at)
  BY <1>15
<1>6. HopTypes'
  BY <1>1, <1>4 DEF HopInv, HopTypes, Ends
<1>7. DOMAIN hops' = 1 .. Len(hops') /\ Len(hops') \in Nat
  BY <1>4, LenProperties
<1>8. \A i \in DOMAIN hops' : at[i] \in DOMAIN hops
  BY <1>5 DEF LeavesOut
<1>9. ListedWhileLoggedIn'
  <2>1. ASSUME NEW i \in DOMAIN hops', NEW j \in DOMAIN hops', hops'[i] = hops'[j]
        PROVE  i = j
    <3>1. at[i] = at[j]
      BY <1>5, <1>8, <2>1 DEF LeavesOut, HopInv, ListedWhileLoggedIn
    <3>2. ~(at[i] < at[j]) /\ ~(at[j] < at[i])
      BY <1>3, <1>8, <3>1
    <3> QED BY <1>5, <1>7, <3>2 DEF LeavesOut
  <2>2. ASSUME NEW y \in Hop
        PROVE  (\E i \in DOMAIN hops' : hops'[i] = y)
                 <=> (y # x /\ \E i \in DOMAIN hops : hops[i] = y)
    <3>1. ASSUME NEW i \in DOMAIN hops', hops'[i] = y
          PROVE  y # x /\ \E k \in DOMAIN hops : hops[k] = y
      <4>1. hops[at[i]] = y /\ at[i] # n /\ at[i] \in DOMAIN hops
        BY <1>5, <1>8, <3>1 DEF LeavesOut
      <4>2. y # x
        BY <1>5, <4>1 DEF LeavesOut, HopInv, ListedWhileLoggedIn
      <4> QED BY <4>1, <4>2
    <3>2. ASSUME y # x, NEW i \in DOMAIN hops, hops[i] = y
          PROVE  \E k \in DOMAIN hops' : hops'[k] = y
      <4>1. i # n
        BY <1>5, <3>2 DEF LeavesOut
      <4>2. PICK k \in DOMAIN hops' : at[k] = i
        BY <1>5, <4>1 DEF LeavesOut
      <4> QED BY <1>5, <3>2, <4>2 DEF LeavesOut
    <3> QED BY <3>1, <3>2
  <2>3. \A y \in Hop : (\E i \in DOMAIN hops' : hops'[i] = y)
                         <=> hop'[y].client \in {"open", "lost", "ending"}
    BY <1>1, <2>2 DEF HopInv, ListedWhileLoggedIn, Ends
  <2> QED BY <2>1, <2>3 DEF ListedWhileLoggedIn
<1>10. ReplacedHopsRest'
  <2>1. SUFFICES ASSUME NEW i \in DOMAIN hops', NEW j \in DOMAIN hops', i < j,
                        hop'[hops'[i]].key = hop'[hops'[j]].key,
                        hop'[hops'[j]].token # NoToken,
                        hop'[hops'[i]].token # hop'[hops'[j]].token
                 PROVE  hop'[hops'[i]].superseded
    BY DEF ReplacedHopsRest
  <2>2. /\ at[i] \in DOMAIN hops /\ at[j] \in DOMAIN hops /\ at[i] < at[j]
        /\ hops'[i] = hops[at[i]] /\ hops'[j] = hops[at[j]]
    BY <1>5, <1>8, <2>1 DEF LeavesOut
  <2>3. hops[at[i]] \in Hop /\ hops[at[j]] \in Hop
    BY <1>3, <2>2
  <2> QED BY <1>2, <2>1, <2>2, <2>3 DEF HopInv, ReplacedHopsRest, Grew
<1>11. AllCounted'
  BY <1>1, EndKeepsCounts
<1>12. IdleHopsAreLive'
  BY <1>1 DEF HopInv, IdleHopsAreLive, Ends
<1>13. RoutesAreBorn' /\ LiveHopsHold' /\ GesturesStayTogether'
  BY <1>2, <1>6, LinksStay
<1>14. RouteStaysUp'
  BY <1>1, <1>2, <1>6, RoutesStay
<1> QED BY <1>6, <1>9, <1>10, <1>11, <1>12, <1>13, <1>14 DEF HopInv

LEMMA IdleExpiresKeepsHops ==
  ASSUME HopInv, NEW x \in Hop, IdleExpires(x)
  PROVE  HopInv'
<1>1. /\ hop[x].timer /\ hop[x].client \in {"open", "lost"}
      /\ UNCHANGED <<hops, chain, ended>>
  BY DEF IdleExpires, HopInv, IdleHopsAreLive
<1>2. CASE hop[x].refs <= 0
  <2>1. hop' = Close(hop, x)
    BY <1>2 DEF IdleExpires
  <2>2. [hop EXCEPT ![x].timer = FALSE,
                    ![x].client = IF @ = "closed" THEN @ ELSE "ending"]
          = [hop EXCEPT ![x].client = "ending", ![x].timer = FALSE]
    <3> DEFINE r == [hop[x] EXCEPT !.timer = FALSE, !.client = "ending"]
               q == [hop[x] EXCEPT !.client = "ending", !.timer = FALSE]
    <3>1. r = q
      BY DEF HopInv, HopTypes, HopState
    <3>2. [hop EXCEPT ![x].timer = FALSE,
                      ![x].client = IF @ = "closed" THEN @ ELSE "ending"]
            = [hop EXCEPT ![x] = r]
      BY <1>1 DEF HopInv, HopTypes
    <3>3. [hop EXCEPT ![x].client = "ending", ![x].timer = FALSE] = [hop EXCEPT ![x] = q]
      BY DEF HopInv, HopTypes
    <3> QED BY <3>1, <3>2, <3>3
  <2>3. Ends(hop', x, "ending")
    BY <2>1, <2>2, EndEffect DEF Close, HopInv
  <2>4. HopTypes'
    BY <1>1, <2>3 DEF HopInv, HopTypes, Ends
  <2>5. /\ \A y \in Hop : Grew(y)
        /\ \A y \in Hop : hop'[y].client \in {"open", "lost", "ending"}
                            <=> hop[y].client \in {"open", "lost", "ending"}
        /\ \A d \in Chain : RidesOn(d)
    <3>1. \A y \in Hop : hop'[y].client \in {"open", "lost", "ending"}
                            <=> hop[y].client \in {"open", "lost", "ending"}
      BY <1>1, <2>3 DEF Ends
    <3> QED BY <1>1, <2>3, <3>1, EndGrows
  <2>6. Behind(x) = {} /\ Riders(x) = {}
    <3>1. Counted(x) /\ hop[x].refs \in Int
      BY DEF HopInv, AllCounted, HopTypes, HopState
    <3>2. Cardinality(Behind(x)) = 0 /\ Cardinality(Riders(x)) = 0
      BY <1>2, <3>1, CountIs DEF Counted, HopInv
    <3> QED BY <3>1, <3>2, FS_EmptySet DEF Counted
  <2>7. RouteStaysUp'
    <3>1. CASE ended
      BY <1>1, <3>1 DEF RouteStaysUp
    <3>2. CASE ~ended
      <4>1. /\ \A y \in Hop : hop[y].parent # NoHop => hop[y].parent \in Hop
            /\ \A d \in Chain : Riding(d) => chain[d].route \in Hop
        BY Links DEF HopInv
      <4>2. \A d \in Chain : Riding(d)' => hop'[chain'[d].route].client # "ending"
        BY <1>1, <2>3, <2>6, <3>2, <4>1 DEF HopInv, RouteStaysUp, Ends, Riding, Riders
      <4>3. ASSUME NEW y \in Hop, hop'[y].client \in {"open", "lost"}, hop'[y].parent # NoHop
            PROVE  hop'[hop'[y].parent].client # "ending"
        <5>1. /\ y # x /\ hop[y].client \in {"open", "lost"}
              /\ hop'[y].parent = hop[y].parent /\ hop[y].parent \in Hop
          BY <2>3, <4>1, <4>3 DEF Ends
        <5>2. hop[y].parent # x
          BY <2>6, <5>1 DEF Behind, HopInv, LiveHopsHold
        <5> QED BY <2>3, <3>2, <4>3, <5>1, <5>2 DEF HopInv, RouteStaysUp, Ends
      <4> QED BY <1>1, <4>2, <4>3 DEF RouteStaysUp
    <3> QED BY <3>1, <3>2
  <2>8. AllCounted'
    BY <1>1, <2>3, EndKeepsCounts
  <2>9. IdleHopsAreLive'
    BY <2>3 DEF HopInv, IdleHopsAreLive, Ends
  <2>10. RoutesAreBorn' /\ LiveHopsHold' /\ GesturesStayTogether'
    BY <2>4, <2>5, LinksStay
  <2>11. ListedWhileLoggedIn' /\ ReplacedHopsRest'
    BY <1>1, <2>4, <2>5, ListStays
  <2> QED BY <2>4, <2>7, <2>8, <2>9, <2>10, <2>11 DEF HopInv
<1>3. CASE ~(hop[x].refs <= 0)
  <2> DEFINE r == [hop[x] EXCEPT !.timer = FALSE]
  <2>1. /\ r \in HopState /\ r.client = hop[x].client /\ r.key = hop[x].key
        /\ r.parent = hop[x].parent /\ r.token = hop[x].token
        /\ r.superseded = hop[x].superseded /\ r.refs = hop[x].refs
        /\ r.parentReleased = hop[x].parentReleased /\ ~r.timer
    BY DEF HopInv, HopTypes, HopState
  <2>2. hop' = [hop EXCEPT ![x] = r]
    BY <1>3 DEF IdleExpires, HopInv, HopTypes
  <2> HIDE DEF r
  <2>3. /\ hop' \in [Hop -> HopState]
        /\ \A y \in Hop :
             /\ hop'[y].key = hop[y].key /\ hop'[y].parent = hop[y].parent
             /\ hop'[y].token = hop[y].token /\ hop'[y].client = hop[y].client
             /\ hop'[y].parentReleased = hop[y].parentReleased
             /\ hop'[y].refs = hop[y].refs
             /\ Timed(hop'[y], hop[y]) /\ (hop[y].superseded => hop'[y].superseded)
    BY <2>1, <2>2 DEF HopInv, HopTypes, Timed, MayWait
  <2>4. HopTypes' /\ \A d \in Chain : RidesOn(d)
    BY <1>1, <2>3 DEF HopInv, HopTypes, RidesOn, Riding
  <2>5. AllCounted'
    <3>1. SUFFICES ASSUME NEW y \in Hop
                   PROVE  Counted(y)'
      BY DEF AllCounted
    <3>2. Riders(y)' = Riders(y) /\ Behind(y)' = Behind(y) /\ Counted(y)
      BY <1>1, <2>3 DEF Riders, Riding, Behind, HopInv, AllCounted
    <3> QED BY <2>3, <3>2, SameCount
  <2> QED BY <1>1, <2>3, <2>4, <2>5, CalmStep
<1> QED BY <1>2, <1>3

LEMMA CloseAllKeepsHops ==
  ASSUME HopInv, CloseAll
  PROVE  HopInv'
<1> DEFINE R == Range(hops)
           given(x) == [hop[x] EXCEPT !.refs = @ - Cardinality(Behind(x) \cap R)]
           over(x) == [given(x) EXCEPT !.client = "ending", !.timer = FALSE,
                                       !.parentReleased = TRUE]
<1>1. ended' = TRUE /\ UNCHANGED <<hops, chain>>
  BY DEF CloseAll
<1>2. hop' = [x \in Hop |-> IF x \notin R THEN given(x) ELSE over(x)]
  BY DEF CloseAll
<1>3. ASSUME NEW x \in Hop
      PROVE  /\ Counted(x) /\ IsFiniteSet(Behind(x) \ R)
             /\ Cardinality(Behind(x) \cap R) \in Nat
             /\ Cardinality(Behind(x) \ R) = Cardinality(Behind(x)) - Cardinality(Behind(x) \cap R)
  <2>1. Counted(x) /\ IsFiniteSet(Behind(x))
    BY DEF HopInv, AllCounted, Counted
  <2>2. IsFiniteSet(Behind(x) \cap R)
    BY <2>1, FS_Intersection
  <2> QED BY <2>1, <2>2, FS_CardinalityType, FS_Difference
<1>4. \A x \in Hop : x \in R <=> hop[x].client \in {"open", "lost", "ending"}
  BY DEF Range, HopInv, ListedWhileLoggedIn
<1> HIDE DEF R
<1>5. ASSUME NEW x \in Hop
      PROVE  /\ hop'[x] \in HopState
             /\ hop'[x].key = hop[x].key /\ hop'[x].parent = hop[x].parent
             /\ hop'[x].token = hop[x].token /\ hop'[x].superseded = hop[x].superseded
             /\ hop'[x].client = IF x \in R THEN "ending" ELSE hop[x].client
             /\ hop'[x].parentReleased = (x \in R \/ hop[x].parentReleased)
             /\ hop'[x].timer => x \notin R /\ hop[x].timer
             /\ hop'[x].refs = hop[x].refs - Cardinality(Behind(x) \cap R)
  <2> DEFINE n == hop[x].refs - Cardinality(Behind(x) \cap R)
             h == hop[x]
             g == [h EXCEPT !.refs = n]
             o == [g EXCEPT !.client = "ending", !.timer = FALSE, !.parentReleased = TRUE]
  <2>1. h \in HopState /\ n \in Int
    <3>1. h \in HopState /\ h.refs \in Int
      BY DEF HopInv, HopTypes, HopState
    <3>2. Cardinality(Behind(x) \cap R) \in Nat
      BY <1>3
    <3> QED BY <3>1, <3>2
  <2>2. hop'[x] = IF x \notin R THEN g ELSE o
    BY <1>2
  <2> HIDE DEF n, h
  <2>3. /\ g \in HopState /\ g.key = h.key /\ g.parent = h.parent /\ g.token = h.token
        /\ g.superseded = h.superseded /\ g.client = h.client /\ g.timer = h.timer
        /\ g.parentReleased = h.parentReleased /\ g.refs = n
    BY <2>1 DEF HopState
  <2> HIDE DEF g
  <2>4. /\ o \in HopState /\ o.key = g.key /\ o.parent = g.parent /\ o.token = g.token
        /\ o.superseded = g.superseded /\ o.client = "ending" /\ o.timer = FALSE
        /\ o.parentReleased = TRUE /\ o.refs = g.refs
    BY <2>3 DEF HopState
  <2> HIDE DEF o
  <2>5. h.parentReleased \in BOOLEAN
    BY <2>1 DEF HopState
  <2>6. CASE x \in R
    BY <2>2, <2>3, <2>4, <2>6 DEF n, h
  <2>7. CASE x \notin R
    BY <2>2, <2>3, <2>5, <2>7 DEF n, h
  <2> QED BY <2>6, <2>7
<1> HIDE DEF given, over
<1>6. HopTypes'
  <2>1. hop' = [x \in Hop |-> hop'[x]]
    BY <1>2
  <2>2. hop' \in [Hop -> HopState]
    BY <1>5, <2>1
  <2> QED BY <1>1, <2>2 DEF HopInv, HopTypes
<1>7. /\ \A x \in Hop : Grew(x)
      /\ \A x \in Hop : hop'[x].client \in {"open", "lost", "ending"}
                          <=> hop[x].client \in {"open", "lost", "ending"}
      /\ \A d \in Chain : RidesOn(d)
  <2>1. \A x \in Hop : hop[x].parentReleased \in BOOLEAN
    BY DEF HopInv, HopTypes, HopState
  <2>2. \A x \in Hop : Grew(x)
    BY <1>4, <1>5, <2>1 DEF Grew
  <2>3. \A x \in Hop : hop'[x].client \in {"open", "lost", "ending"}
                          <=> hop[x].client \in {"open", "lost", "ending"}
    BY <1>4, <1>5
  <2>4. \A d \in Chain : RidesOn(d)
    BY <1>1 DEF RidesOn, Riding
  <2> QED BY <2>2, <2>3, <2>4
<1>8. RoutesAreBorn' /\ LiveHopsHold' /\ GesturesStayTogether'
  BY <1>6, <1>7, LinksStay
<1>9. ListedWhileLoggedIn' /\ ReplacedHopsRest'
  BY <1>1, <1>6, <1>7, ListStays
<1>10. RouteStaysUp'
  BY <1>1 DEF RouteStaysUp
<1>11. IdleHopsAreLive'
  BY <1>5 DEF HopInv, IdleHopsAreLive
<1>12. AllCounted'
  <2>1. SUFFICES ASSUME NEW x \in Hop
                 PROVE  Counted(x)'
    BY DEF AllCounted
  <2>2. Riders(x)' = Riders(x)
    BY <1>1 DEF Riders, Riding
  <2>3. Behind(x)' = Behind(x) \ R
    BY <1>5 DEF Behind
  <2>4. Cardinality(Riders(x)) \in Nat /\ Cardinality(Behind(x)) \in Nat
    BY <1>3, CountIs DEF HopInv
  <2>5. hop'[x].refs = hop[x].refs - Cardinality(Behind(x) \cap R)
    BY <1>5
  <2>6. /\ IsFiniteSet(Behind(x)') /\ IsFiniteSet(Riders(x)')
        /\ Cardinality(Behind(x)') = Cardinality(Behind(x)) - Cardinality(Behind(x) \cap R)
        /\ Cardinality(Riders(x)') = Cardinality(Riders(x))
    BY <1>3, <2>2, <2>3 DEF Counted
  <2>7. /\ hop[x].refs = Cardinality(Behind(x)) + Cardinality(Riders(x))
        /\ Cardinality(Behind(x) \cap R) \in Nat
    BY <1>3 DEF Counted
  <2> QED BY <2>4, <2>5, <2>6, <2>7 DEF Counted
<1> QED BY <1>6, <1>8, <1>9, <1>10, <1>11, <1>12 DEF HopInv

LEMMA HopInit ==
  ASSUME Init
  PROVE  HopInv
<1>1. /\ \A x \in Hop : hop[x] = [client |-> "unborn", key |-> 0, parent |-> NoHop,
                           parentReleased |-> FALSE, refs |-> 0, timer |-> FALSE,
                           superseded |-> FALSE, token |-> NoToken]
      /\ \A d \in Chain : chain[d] = [state |-> "none", len |-> 0, at |-> 0, route |-> NoHop,
                               reused |-> NoHop, token |-> NoToken]
      /\ hops = <<>> /\ ended = FALSE /\ DOMAIN hop = Hop /\ DOMAIN chain = Chain
      /\ hop = [x \in Hop |-> hop[x]] /\ chain = [d \in Chain |-> chain[d]]
  BY DEF Init
<1>2. 0 \in 0 .. Depth
  BY HopAssumption
<1>3. HopTypes
  <2>1. \A x \in Hop : hop[x] \in HopState
    <3>1. [client |-> "unborn", key |-> 0, parent |-> NoHop, parentReleased |-> FALSE,
           refs |-> 0, timer |-> FALSE, superseded |-> FALSE, token |-> NoToken] \in HopState
      BY <1>2 DEF HopState
    <3> QED BY <1>1, <3>1
  <2>2. \A d \in Chain : chain[d] \in ChainState
    BY <1>1, <1>2 DEF ChainState
  <2>3. hop \in [Hop -> HopState]
    BY <1>1, <2>1
  <2>4. chain \in [Chain -> ChainState]
    BY <1>1, <2>2
  <2>5. hops \in Seq(Hop) /\ ended \in BOOLEAN
    <3>1. hops = <<>> /\ ended = FALSE
      BY <1>1
    <3> QED BY <3>1, EmptySeq
  <2> QED BY <2>3, <2>4, <2>5 DEF HopTypes
<1>4. \A x \in Hop : Behind(x) = {} /\ Riders(x) = {}
  BY <1>1, HopAssumption DEF Behind, Riders, Riding
<1>5. AllCounted
  <2>1. SUFFICES ASSUME NEW x \in Hop
                 PROVE  Counted(x)
    BY DEF AllCounted
  <2>2. IsFiniteSet({}) /\ Cardinality({}) = 0
    BY FS_EmptySet
  <2>3. hop[x].refs = 0
    BY <1>1
  <2> QED BY <1>4, <2>2, <2>3 DEF Counted
<1>6. ListedWhileLoggedIn /\ ReplacedHopsRest
  BY <1>1 DEF ListedWhileLoggedIn, ReplacedHopsRest
<1>7. RoutesAreBorn /\ LiveHopsHold /\ IdleHopsAreLive /\ GesturesStayTogether /\ RouteStaysUp
  BY <1>1 DEF RoutesAreBorn, LiveHopsHold, IdleHopsAreLive, GesturesStayTogether, RouteStaysUp,
              Riding
<1> QED BY <1>3, <1>5, <1>6, <1>7 DEF HopInv

LEMMA HopStep ==
  ASSUME HopInv, [Next]_vars
  PROVE  HopInv'
<1>1. CASE UNCHANGED vars
  BY <1>1 DEF vars, HopInv, HopTypes, ListedWhileLoggedIn, RoutesAreBorn, LiveHopsHold,
              IdleHopsAreLive, AllCounted, Counted, Behind, Riders, Riding, RouteStaysUp,
              GesturesStayTogether, ReplacedHopsRest
<1>2. ASSUME NEW d \in Chain, DialFails(d)
      PROVE  HopInv'
  BY <1>2, ChainOverKeepsHops DEF DialFails
<1>3. ASSUME NEW d \in Chain, ChainCloses(d)
      PROVE  HopInv'
  BY <1>3, ChainOverKeepsHops DEF ChainCloses
<1> QED BY <1>1, <1>2, <1>3, DialChainKeepsHops, HopReadyKeepsHops, TargetReadyKeepsHops,
           StaleHopKeepsHops, LoseKeepsHops, HopClosedKeepsHops, IdleExpiresKeepsHops,
           CloseAllKeepsHops DEF Next

LEMMA HopInvariance == Spec => []HopInv
BY HopInit, HopStep, PTL DEF Spec

-----------------------------------------------------------------------------
\* Hops, chains and the registry's list stay in their types
\* (jump-hops.ts:35-70, 155; connection-manager.ts:1057-1082).
THEOREM HopTypesHold == Spec => []HopTypeOK
<1>1. HopInv => HopTypeOK
  BY RangeOfSeq DEF HopInv, HopTypes, HopTypeOK
<1> QED BY <1>1, HopInvariance, PTL

\* The count of a hop is what holds it, and until the application ends no hop
\* that is held is ended (jump-hops.ts:92-150).
THEOREM RoutesStayHeld == Spec => []RoutesAreHeld
<1>1. HopInv => RoutesAreHeld
  BY DEF HopInv, RoutesAreHeld, RefsAreHeld, AllCounted, Counted
<1> QED BY <1>1, HopInvariance, PTL

-----------------------------------------------------------------------------
(* The hops of a route.  RouteOf collects them step by step; what holds of *)
(* one hop and is passed on to its parent holds of all: a step that breaks *)
(* it first does not exist.                                                *)

\* f collects the hops up to i steps in front of x, for i up to n.
Collects(f, x, n) ==
  f = [i \in 0 .. n |-> IF i = 0 THEN {x}
         ELSE f[i - 1] \union ({hop[y].parent : y \in f[i - 1]} \ {NoHop})]

LEMMA CollectionExists ==
  ASSUME NEW x, NEW n \in Nat
  PROVE  \E f : Collects(f, x, n)
<1> DEFINE S == {k \in Nat : ~\E f : Collects(f, x, k)}
<1>1. SUFFICES ASSUME S # {}
               PROVE  FALSE
  OBVIOUS
<1>2. PICK m \in S : \A k \in S : m <= k
  BY <1>1, SmallestNat
<1>3. m \in Nat /\ ~\E f : Collects(f, x, m)
  OBVIOUS
<1>4. CASE m = 0
  <2> DEFINE g == [i \in 0 .. 0 |-> {x}]
  <2>1. Collects(g, x, 0)
    BY DEF Collects
  <2> QED BY <1>3, <1>4, <2>1
<1>5. CASE m # 0
  <2>1. m - 1 \in Nat /\ m - 1 \notin S
    BY <1>2, <1>3, <1>5
  <2>2. PICK f : Collects(f, x, m - 1)
    BY <2>1
  <2> DEFINE step(T) == T \union ({hop[y].parent : y \in T} \ {NoHop})
             g == [i \in 0 .. m |-> IF i = m THEN step(f[m - 1]) ELSE f[i]]
  <2>3. \A i \in 0 .. m - 1 : f[i] = IF i = 0 THEN {x} ELSE step(f[i - 1])
    BY <2>2 DEF Collects
  <2>4. g = [i \in 0 .. m |-> IF i = 0 THEN {x} ELSE step(g[i - 1])]
    <3> HIDE DEF step
    <3>1. ASSUME NEW i \in 0 .. m
          PROVE  g[i] = IF i = 0 THEN {x} ELSE step(g[i - 1])
      <4>1. CASE i = m
        <5>1. m - 1 \in 0 .. m /\ m - 1 # m
          BY <1>3, <1>5
        <5>2. g[m] = step(f[m - 1]) /\ g[m - 1] = f[m - 1]
          BY <1>3, <5>1
        <5> QED BY <1>5, <4>1, <5>2
      <4>2. CASE i # m
        <5>1. i \in 0 .. m - 1 /\ (i # 0 => i - 1 \in 0 .. m - 1 /\ i - 1 # m)
          BY <1>3, <3>1, <4>2
        <5>2. g[i] = f[i] /\ (i # 0 => g[i - 1] = f[i - 1])
          BY <1>3, <5>1, <4>2
        <5> QED BY <2>3, <5>1, <5>2
      <4> QED BY <4>1, <4>2
    <3>2. g = [i \in 0 .. m |-> g[i]]
      OBVIOUS
    <3> HIDE DEF g
    <3> QED BY <3>1, <3>2
  <2> HIDE DEF g
  <2>5. Collects(g, x, m)
    BY <2>4 DEF Collects
  <2> QED BY <1>3, <2>5
<1> QED BY <1>4, <1>5

LEMMA RouteIsOfOneGesture ==
  ASSUME HopInv, NEW x \in Hop, hop[x].token # NoToken
  PROVE  \A y \in RouteOf(x) : hop[y].token = hop[x].token
<1> DEFINE f == CHOOSE f : Collects(f, x, Depth)
           Own == {y \in Hop : hop[y].token = hop[x].token}
           S == {i \in 0 .. Depth : ~(f[i] \subseteq Own)}
<1>1. Depth \in Nat
  BY HopAssumption
<1>2. RouteOf(x) = f[Depth]
  BY DEF RouteOf, Collects
<1>3. Collects(f, x, Depth)
  BY <1>1, CollectionExists
<1> HIDE DEF f
<1>4. \A i \in 0 .. Depth : f[i] =
        IF i = 0 THEN {x} ELSE f[i - 1] \union ({hop[y].parent : y \in f[i - 1]} \ {NoHop})
  BY <1>3 DEF Collects
<1>5. \A y \in Own : hop[y].parent # NoHop => hop[y].parent \in Own
  BY Links DEF HopInv, GesturesStayTogether
<1>6. S = {}
  <2>1. SUFFICES ASSUME S # {}
                 PROVE  FALSE
    OBVIOUS
  <2>2. S \in SUBSET Nat
    BY <1>1
  <2>3. PICK m \in S : \A k \in S : m <= k
    BY <2>1, <2>2, SmallestNat
  <2>4. m \in 0 .. Depth /\ m \in Nat /\ ~(f[m] \subseteq Own)
    BY <1>1
  <2>5. CASE m = 0
    BY <1>4, <2>4, <2>5
  <2>6. CASE m # 0
    <3>1. m - 1 \in 0 .. Depth /\ m - 1 \notin S
      BY <1>1, <2>3, <2>4, <2>6
    <3>2. f[m - 1] \subseteq Own
      BY <3>1
    <3>3. f[m] = f[m - 1] \union ({hop[y].parent : y \in f[m - 1]} \ {NoHop})
      BY <1>4, <2>4, <2>6
    <3> QED BY <1>5, <2>4, <3>2, <3>3
  <2> QED BY <2>5, <2>6
<1>7. Depth \in 0 .. Depth
  BY <1>1
<1> QED BY <1>2, <1>6, <1>7

\* A forced reconnect runs over hops of its own gesture only, and what it dials
\* again is not handed out any more (jump-hops.ts:159-185).
THEOREM ReconnectsGetFreshRoutes == Spec => []ReplacementsAreFresh
<1>1. HopInv => FreshRoute
  <2>1. SUFFICES ASSUME HopInv, NEW d \in Chain, Riding(d), chain[d].token # NoToken
                 PROVE  \A x \in RouteOf(chain[d].route) : hop[x].token = chain[d].token
    BY DEF FreshRoute
  <2>2. chain[d].route \in Hop /\ hop[chain[d].route].token = chain[d].token
    BY <2>1, Links DEF HopInv, GesturesStayTogether
  <2> QED BY <2>1, <2>2, RouteIsOfOneGesture
<1>2. HopInv => ReplacementsAreFresh
  BY <1>1 DEF HopInv, ReplacementsAreFresh
<1> QED BY <1>2, HopInvariance, PTL
=============================================================================
