------------------------- MODULE ForwardManagerProofs -------------------------
(***************************************************************************)
(* Proofs about ForwardManager for every set of forwards, tunnels,         *)
(* terminals and transports.                                               *)
(***************************************************************************)
EXTENDS ForwardManager, FiniteSetTheorems, TLAPS

\* What holds of an entry by itself: a suspended bind knows its transport, one
\* thing at most drives it, and its status says which dial it is in.
EntryOK(e) ==
  /\ e \in Entry
  /\ e.status = "none" => e = NoEntry
  /\ e.run \in {"start", "bind"} <=> e.on # NoConn
  /\ ~(e.timer /\ e.run # "none") /\ ~(e.timer /\ e.bound # NoConn)
  /\ ~(e.run # "none" /\ e.bound # NoConn)
  /\ e.listed /\ e.status # "error" => e.timer \/ e.run # "none" \/ e.bound # NoConn
  /\ e.timer => e.status \in {"reconnecting", "active"} /\ e.tunnel # NoTunnel
  /\ e.run \in {"connect", "bind"} =>
       /\ e.status \in {"starting", "reconnecting", "active"} /\ e.tunnel # NoTunnel
       /\ e.autostart <=> e.status = "starting"
  /\ e.cancelled => ~e.listed
  /\ e.session => e.tunnel = NoTunnel /\ e.connId # NoConn
  /\ e.run = "start" => e.on = e.connId
  /\ e.bound # NoConn => e.bound = e.connId

\* A forward leases what it listens on or binds on, and nothing else.
Owned(f) ==
  /\ fwd[f].bound # NoConn =>
       fwd[f].listed /\ phase[fwd[f].bound] = "up" /\ f \in users[fwd[f].bound]
  /\ fwd[f].on # NoConn =>
       /\ phase[fwd[f].on] # "unborn"
       /\ phase[fwd[f].on] = "up" => f \in users[fwd[f].on]
  /\ fwd[f].connId # NoConn => phase[fwd[f].connId] # "unborn"
  /\ \A c \in Conn : f \in users[c] => fwd[f].bound = c \/ fwd[f].on = c

\* A terminal leases the transport of its session as long as that is up.
Seated(s) ==
  /\ term[s].state = "none" <=> term[s].conn = NoConn
  /\ term[s].state # "none" =>
       /\ phase[term[s].conn] # "unborn"
       /\ phase[term[s].conn] = "up" => s \in users[term[s].conn]
  /\ \A c \in Conn : s \in users[c] => term[s].conn = c

DialWanted(f) ==
  Live(fwd[f]) /\ fwd[f].run \in {"connect", "bind"} /\ fwd[f].status # "active" =>
    LET tunnel == saved[fwd[f].tunnel] IN
    tunnel.exists /\ IF fwd[f].autostart THEN tunnel.autoStart ELSE tunnel.autoReconnect

ForwardInv ==
  /\ FwdTypeOK
  /\ \A f \in Fwd : EntryOK(fwd[f]) /\ Owned(f) /\ DialWanted(f)
  /\ \A s \in Terminal : Seated(s)
  /\ OneConfigForward /\ ConfigForwardsEnd

-----------------------------------------------------------------------------
(* What happens to an entry leaves it sound. *)

\* An ssh_config forward stays with its transport, and is not revived.
Follows(g, e) ==
  g.listed /\ g.config /\ g.session =>
    e.listed /\ e.config /\ e.session /\ g.connId = e.connId

LEMMA ListedEntry ==
  ASSUME NEW e, EntryOK(e), e.listed \/ e.run # "none" \/ e.timer \/ e.bound # NoConn
  PROVE  e.status # "none"
BY DEF EntryOK, NoEntry

LEMMA DiscardFields ==
  ASSUME NEW e \in Entry
  PROVE  LET d == Discarded(e) IN
         /\ d \in Entry /\ ~d.listed /\ d.bound = NoConn
         /\ d.timer <=> (e.timer /\ e.cancel # "timer")
         /\ d.cancelled <=> (e.cancelled \/ e.cancel = "dial")
         /\ d.status = e.status /\ d.tunnel = e.tunnel /\ d.session = e.session
         /\ d.config = e.config /\ d.connId = e.connId /\ d.run = e.run /\ d.on = e.on
         /\ d.autostart = e.autostart
<1> DEFINE d == Discarded(e)
           stale == e.timer /\ e.cancel # "timer"
           dialing == e.cancelled \/ e.cancel = "dial"
<1>1. CASE stale /\ dialing
  <2> DEFINE g == [e EXCEPT !.listed = FALSE, !.timer = TRUE, !.cancelled = TRUE,
                            !.bound = NoConn]
  <2>1. d = g
    <3>1. stale = TRUE /\ dialing = TRUE
      BY <1>1
    <3> QED BY <3>1 DEF Discarded
  <2>2. /\ g \in Entry /\ ~g.listed /\ g.timer /\ g.cancelled /\ g.bound = NoConn
        /\ g.status = e.status /\ g.tunnel = e.tunnel /\ g.session = e.session
        /\ g.config = e.config /\ g.connId = e.connId /\ g.run = e.run /\ g.on = e.on
        /\ g.autostart = e.autostart
    BY DEF Entry
  <2> HIDE DEF g
  <2>3. (d.timer <=> stale) /\ (d.cancelled <=> dialing)
    <3> HIDE DEF d
    <3> QED BY <1>1, <2>1, <2>2
  <2> QED BY <2>1, <2>2, <2>3
<1>2. CASE stale /\ ~dialing
  <2> DEFINE g == [e EXCEPT !.listed = FALSE, !.timer = TRUE, !.cancelled = FALSE,
                            !.bound = NoConn]
  <2>1. d = g
    <3>1. stale = TRUE /\ dialing = FALSE
      BY <1>2
    <3> QED BY <3>1 DEF Discarded
  <2>2. /\ g \in Entry /\ ~g.listed /\ g.timer /\ ~g.cancelled /\ g.bound = NoConn
        /\ g.status = e.status /\ g.tunnel = e.tunnel /\ g.session = e.session
        /\ g.config = e.config /\ g.connId = e.connId /\ g.run = e.run /\ g.on = e.on
        /\ g.autostart = e.autostart
    BY DEF Entry
  <2> HIDE DEF g
  <2>3. (d.timer <=> stale) /\ (d.cancelled <=> dialing)
    <3> HIDE DEF d
    <3> QED BY <1>2, <2>1, <2>2
  <2> QED BY <2>1, <2>2, <2>3
<1>3. CASE ~stale /\ dialing
  <2> DEFINE g == [e EXCEPT !.listed = FALSE, !.timer = FALSE, !.cancelled = TRUE,
                            !.bound = NoConn]
  <2>1. d = g
    <3>1. stale = FALSE /\ dialing = TRUE
      BY <1>3
    <3> QED BY <3>1 DEF Discarded
  <2>2. /\ g \in Entry /\ ~g.listed /\ ~g.timer /\ g.cancelled /\ g.bound = NoConn
        /\ g.status = e.status /\ g.tunnel = e.tunnel /\ g.session = e.session
        /\ g.config = e.config /\ g.connId = e.connId /\ g.run = e.run /\ g.on = e.on
        /\ g.autostart = e.autostart
    BY DEF Entry
  <2> HIDE DEF g
  <2>3. (d.timer <=> stale) /\ (d.cancelled <=> dialing)
    <3> HIDE DEF d
    <3> QED BY <1>3, <2>1, <2>2
  <2> QED BY <2>1, <2>2, <2>3
<1>4. CASE ~stale /\ ~dialing
  <2> DEFINE g == [e EXCEPT !.listed = FALSE, !.timer = FALSE, !.cancelled = FALSE,
                            !.bound = NoConn]
  <2>1. d = g
    <3>1. stale = FALSE /\ dialing = FALSE
      BY <1>4
    <3> QED BY <3>1 DEF Discarded
  <2>2. /\ g \in Entry /\ ~g.listed /\ ~g.timer /\ ~g.cancelled /\ g.bound = NoConn
        /\ g.status = e.status /\ g.tunnel = e.tunnel /\ g.session = e.session
        /\ g.config = e.config /\ g.connId = e.connId /\ g.run = e.run /\ g.on = e.on
        /\ g.autostart = e.autostart
    BY DEF Entry
  <2> HIDE DEF g
  <2>3. (d.timer <=> stale) /\ (d.cancelled <=> dialing)
    <3> HIDE DEF d
    <3> QED BY <1>4, <2>1, <2>2
  <2> QED BY <2>1, <2>2, <2>3
<1> QED BY <1>1, <1>2, <1>3, <1>4

LEMMA DiscardedOK ==
  ASSUME NEW e, EntryOK(e), e.listed
  PROVE  /\ EntryOK(Discarded(e)) /\ Follows(Discarded(e), e) /\ ~Discarded(e).listed
         /\ Discarded(e).bound = NoConn /\ Discarded(e).on = e.on
         /\ Discarded(e).connId = e.connId
<1> DEFINE d == Discarded(e)
<1>1. e \in Entry /\ e.status # "none"
  BY ListedEntry DEF EntryOK
<1>2. /\ d \in Entry /\ ~d.listed /\ d.bound = NoConn
      /\ d.timer <=> (e.timer /\ e.cancel # "timer")
      /\ d.cancelled <=> (e.cancelled \/ e.cancel = "dial")
      /\ d.status = e.status /\ d.tunnel = e.tunnel /\ d.session = e.session
      /\ d.config = e.config /\ d.connId = e.connId /\ d.run = e.run /\ d.on = e.on
      /\ d.autostart = e.autostart
  BY <1>1, DiscardFields
<1> HIDE DEF d
<1>3. EntryOK(d)
  BY <1>1, <1>2 DEF EntryOK
<1>4. Follows(d, e)
  BY <1>1, <1>2 DEF Follows, Entry
<1> QED BY <1>2, <1>3, <1>4 DEF d

LEMMA ScheduledFields ==
  ASSUME NEW e \in Entry
  PROVE  LET d == Scheduled(e) IN
         /\ d \in Entry /\ d.status = "reconnecting" /\ d.timer /\ d.listed = e.listed
         /\ d.cancelled = e.cancelled /\ d.bound = e.bound
         /\ d.tunnel = e.tunnel /\ d.session = e.session
         /\ d.config = e.config /\ d.connId = e.connId /\ d.run = e.run /\ d.on = e.on
BY DEF Scheduled, Entry

LEMMA LostOK ==
  ASSUME FwdTypeOK, NEW e, EntryOK(e), e.bound # NoConn, e.listed
  PROVE  /\ EntryOK(Lost(e)) /\ Follows(Lost(e), e) /\ Lost(e).bound = NoConn
         /\ Lost(e).on = NoConn /\ Lost(e).run = "none" /\ Lost(e).connId = e.connId
<1> DEFINE u == [e EXCEPT !.bound = NoConn]
<1>1. e \in Entry /\ e.status # "none" /\ e.run = "none" /\ e.on = NoConn
  BY ListedEntry DEF EntryOK
<1>2. /\ u \in Entry /\ u.bound = NoConn /\ u.status = e.status /\ u.timer = e.timer
      /\ u.listed = e.listed /\ u.cancelled = e.cancelled
      /\ u.tunnel = e.tunnel /\ u.session = e.session
      /\ u.config = e.config /\ u.connId = e.connId /\ u.run = e.run /\ u.on = e.on
  BY <1>1, ZenonT(40) DEF Entry
<1> HIDE DEF u
<1>3. CASE e.tunnel # NoTunnel /\ saved[e.tunnel].autoReconnect
  <2>1. Lost(e) = Scheduled(u)
    BY <1>2, <1>3 DEF Lost, u
  <2> DEFINE d == Scheduled(u)
  <2> HIDE DEF d
  <2>2. /\ d \in Entry /\ d.status = "reconnecting" /\ d.timer /\ d.listed = u.listed
        /\ d.cancelled = u.cancelled /\ d.bound = u.bound
        /\ d.tunnel = u.tunnel /\ d.session = u.session
        /\ d.config = u.config /\ d.connId = u.connId /\ d.run = u.run /\ d.on = u.on
    BY <1>2, ScheduledFields DEF d
  <2>3. EntryOK(d)
    BY <1>1, <1>2, <1>3, <2>2 DEF EntryOK
  <2>4. Follows(d, e)
    BY <1>1, <1>2, <2>2 DEF Follows
  <2> QED BY <1>1, <1>2, <2>1, <2>2, <2>3, <2>4 DEF d
<1>4. CASE ~(e.tunnel # NoTunnel /\ saved[e.tunnel].autoReconnect)
  <2> DEFINE d == [u EXCEPT !.listed = FALSE]
  <2>1. Lost(e) = d
    BY <1>2, <1>4 DEF Lost, u
  <2>2. /\ d \in Entry /\ ~d.listed /\ d.status = u.status /\ d.timer = u.timer
        /\ d.cancelled = u.cancelled /\ d.bound = u.bound
        /\ d.tunnel = u.tunnel /\ d.session = u.session
        /\ d.config = u.config /\ d.connId = u.connId /\ d.run = u.run /\ d.on = u.on
    BY <1>2 DEF Entry
  <2> HIDE DEF d
  <2>3. EntryOK(d)
    BY <1>1, <1>2, <2>2 DEF EntryOK
  <2>4. Follows(d, e)
    BY <1>1, <1>2, <2>2 DEF Follows
  <2> QED BY <1>1, <1>2, <2>1, <2>2, <2>3, <2>4
<1> QED BY <1>3, <1>4

\* What bind() makes of an entry when it returns with its listener.
LEMMA ListeningFields ==
  ASSUME FwdTypeOK, NEW e, EntryOK(e), e.run \in {"start", "bind"}
  PROVE  LET l == Listening(e) IN
         /\ l \in Entry /\ l.run = e.run /\ l.on = e.on /\ l.connId = e.on
         /\ l.config = e.config /\ l.session = e.session /\ l.tunnel = e.tunnel
         /\ l.cancelled = e.cancelled /\ (l.listed => e.listed)
         /\ l.bound # NoConn => l.bound = e.on /\ phase[e.on] = "up" /\ ~l.timer
         /\ l.listed => l.timer \/ l.bound # NoConn
         /\ l.timer => l.tunnel # NoTunnel /\ l.status = "reconnecting"
         /\ l.status \in {e.status, "reconnecting"}
<1> DEFINE b == [e EXCEPT !.bound = e.on, !.connId = e.on]
           u == [b EXCEPT !.bound = NoConn]
           l == Listening(e)
<1>1. e \in Entry /\ e.on \in Conn /\ e.on # NoConn /\ ~e.timer
  BY DEF EntryOK, Entry
<1>2. /\ b \in Entry /\ b.run = e.run /\ b.on = e.on /\ b.connId = e.on /\ b.bound = e.on
      /\ b.config = e.config /\ b.session = e.session /\ b.tunnel = e.tunnel
      /\ b.cancelled = e.cancelled /\ b.listed = e.listed /\ b.timer = e.timer
      /\ b.status = e.status
  BY <1>1 DEF Entry
<1> HIDE DEF b
<1>3. /\ u \in Entry /\ u.run = e.run /\ u.on = e.on /\ u.connId = e.on /\ u.bound = NoConn
      /\ u.config = e.config /\ u.session = e.session /\ u.tunnel = e.tunnel
      /\ u.cancelled = e.cancelled /\ u.listed = e.listed /\ u.timer = e.timer
      /\ u.status = e.status
  BY <1>1, <1>2 DEF Entry
<1> HIDE DEF u
<1>4. CASE phase[e.on] = "up"
  <2>1. l = b
    BY <1>4 DEF Listening, b
  <2> HIDE DEF l
  <2> QED BY <1>1, <1>2, <1>4, <2>1 DEF l
<1>5. CASE phase[e.on] # "up"
  <2>1. l = Lost(b)
    BY <1>5 DEF Listening, b
  <2>2. CASE ~e.listed
    <3>1. l = u
      BY <1>2, <2>1, <2>2 DEF Lost, u
    <3> HIDE DEF l
    <3> QED BY <1>1, <1>3, <2>2, <3>1 DEF l
  <2>3. CASE e.listed /\ e.tunnel # NoTunnel /\ saved[e.tunnel].autoReconnect
    <3>1. l = Scheduled(u)
      BY <1>2, <2>1, <2>3 DEF Lost, u
    <3>2. /\ l \in Entry /\ l.status = "reconnecting" /\ l.timer /\ l.listed = u.listed
          /\ l.cancelled = u.cancelled /\ l.bound = u.bound
          /\ l.tunnel = u.tunnel /\ l.session = u.session
          /\ l.config = u.config /\ l.connId = u.connId /\ l.run = u.run /\ l.on = u.on
      <4> HIDE DEF l
      <4> QED BY <1>3, <3>1, ScheduledFields
    <3> HIDE DEF l
    <3> QED BY <1>1, <1>3, <2>3, <3>2 DEF l
  <2>4. CASE e.listed /\ ~(e.tunnel # NoTunnel /\ saved[e.tunnel].autoReconnect)
    <3> DEFINE d == [u EXCEPT !.listed = FALSE]
    <3>1. l = d
      BY <1>2, <2>1, <2>4 DEF Lost, u
    <3>2. /\ d \in Entry /\ ~d.listed /\ d.status = u.status /\ d.timer = u.timer
          /\ d.cancelled = u.cancelled /\ d.bound = u.bound
          /\ d.tunnel = u.tunnel /\ d.session = u.session
          /\ d.config = u.config /\ d.connId = u.connId /\ d.run = u.run /\ d.on = u.on
      BY <1>3 DEF Entry
    <3> HIDE DEF l, d
    <3> QED BY <1>1, <1>3, <2>4, <3>1, <3>2 DEF l
  <2> QED BY <2>2, <2>3, <2>4
<1> QED BY <1>4, <1>5

LEMMA EndedFields ==
  ASSUME NEW e \in Entry
  PROVE  LET r == [e EXCEPT !.run = "none", !.on = NoConn] IN
         /\ r \in Entry /\ r.run = "none" /\ r.on = NoConn /\ r.connId = e.connId
         /\ r.bound = e.bound /\ r.config = e.config /\ r.session = e.session
         /\ r.tunnel = e.tunnel /\ r.cancelled = e.cancelled /\ r.listed = e.listed
         /\ r.timer = e.timer /\ r.status = e.status /\ r.retry = e.retry
BY DEF Entry

LEMMA DroppedFields ==
  ASSUME NEW e \in Entry
  PROVE  LET r == [e EXCEPT !.run = "none", !.on = NoConn, !.bound = NoConn] IN
         /\ r \in Entry /\ r.run = "none" /\ r.on = NoConn /\ r.connId = e.connId
         /\ r.bound = NoConn /\ r.config = e.config /\ r.session = e.session
         /\ r.tunnel = e.tunnel /\ r.cancelled = e.cancelled /\ r.listed = e.listed
         /\ r.timer = e.timer /\ r.status = e.status
BY DEF Entry

LEMMA UpFields ==
  ASSUME NEW e \in Entry
  PROVE  LET r == [e EXCEPT !.run = "none", !.on = NoConn,
                            !.cancel = "none", !.status = "active"] IN
         /\ r \in Entry /\ r.run = "none" /\ r.on = NoConn /\ r.connId = e.connId
         /\ r.bound = e.bound /\ r.config = e.config /\ r.session = e.session
         /\ r.tunnel = e.tunnel /\ r.cancelled = e.cancelled /\ r.listed = e.listed
         /\ r.timer = e.timer /\ r.status = "active"
BY ZenonT(40) DEF Entry

LEMMA BindOK ==
  ASSUME FwdTypeOK, NEW e, EntryOK(e), e.run \in {"start", "bind"}
  PROVE  LET l == Listening(e)
             r == IF e.run = "start" THEN AfterStart(l) ELSE AfterDial(l)
         IN  /\ EntryOK(r) /\ Follows(r, e) /\ r.run = "none" /\ r.on = NoConn
             /\ r.connId = e.on
             /\ r.bound # NoConn => r.listed /\ r.bound = e.on /\ phase[e.on] = "up"
<1> DEFINE l == Listening(e)
           r == IF e.run = "start" THEN AfterStart(l) ELSE AfterDial(l)
<1>1. e \in Entry /\ e.status # "none" /\ e.on \in Conn /\ e.on # NoConn
  BY ListedEntry DEF EntryOK, Entry
<1>2. /\ l \in Entry /\ l.run = e.run /\ l.on = e.on /\ l.connId = e.on
      /\ l.config = e.config /\ l.session = e.session /\ l.tunnel = e.tunnel
      /\ l.cancelled = e.cancelled /\ (l.listed => e.listed)
      /\ l.bound # NoConn => l.bound = e.on /\ phase[e.on] = "up" /\ ~l.timer
      /\ l.listed => l.timer \/ l.bound # NoConn
      /\ l.timer => l.tunnel # NoTunnel /\ l.status = "reconnecting"
      /\ l.status \in {e.status, "reconnecting"}
  BY ListeningFields
<1> HIDE DEF l
<1>3. /\ r \in Entry /\ r.run = "none" /\ r.on = NoConn /\ r.connId = l.connId
      /\ r.config = l.config /\ r.session = l.session /\ r.tunnel = l.tunnel
      /\ r.cancelled = l.cancelled /\ r.listed = l.listed /\ r.timer = l.timer
      /\ r.bound = IF l.listed THEN l.bound ELSE NoConn
      /\ r.status \in {l.status, "active"}
  <2>1. e.cancelled => ~e.listed
    BY DEF EntryOK
  <2>2. CASE ~l.listed
    <3>1. r = [l EXCEPT !.run = "none", !.on = NoConn, !.bound = NoConn]
      BY <2>2 DEF AfterStart, AfterDial, Live
    <3> HIDE DEF r
    <3> QED BY <1>2, <2>2, <3>1, DroppedFields
  <2>3. CASE l.listed /\ e.run = "start"
    <3>1. r = [l EXCEPT !.run = "none", !.on = NoConn]
      BY <2>3 DEF AfterStart
    <3> HIDE DEF r
    <3> QED BY <1>2, <2>3, <3>1, EndedFields
  <2>4. CASE l.listed /\ e.run # "start"
    <3>1. Live(l)
      BY <1>2, <2>1, <2>4 DEF Live
    <3> DEFINE u == [l EXCEPT !.run = "none", !.on = NoConn, !.cancel = "none",
                              !.status = "active"]
    <3>2. r = u
      BY <2>4, <3>1 DEF AfterDial
    <3>3. /\ u \in Entry /\ u.run = "none" /\ u.on = NoConn /\ u.connId = l.connId
          /\ u.bound = l.bound /\ u.config = l.config /\ u.session = l.session
          /\ u.tunnel = l.tunnel /\ u.cancelled = l.cancelled /\ u.listed = l.listed
          /\ u.timer = l.timer /\ u.status = "active"
      BY <1>2, UpFields
    <3> HIDE DEF r, u
    <3> QED BY <2>4, <3>2, <3>3
  <2> QED BY <2>2, <2>3, <2>4
<1> HIDE DEF r
<1>4. EntryOK(r)
  BY <1>1, <1>2, <1>3 DEF EntryOK
<1>5. Follows(r, e)
  BY <1>1, <1>2, <1>3 DEF EntryOK, Follows
<1> QED BY <1>2, <1>3, <1>4, <1>5 DEF l, r

LEMMA GivenUpFields ==
  ASSUME NEW e \in Entry
  PROVE  LET r == GivenUp(e) IN
         /\ r \in Entry /\ r.run = e.run /\ r.on = e.on /\ r.connId = e.connId
         /\ r.bound = e.bound /\ r.config = e.config /\ r.session = e.session
         /\ r.tunnel = e.tunnel /\ r.cancelled = e.cancelled /\ r.listed = e.listed
         /\ r.timer = e.timer /\ r.status = "error"
BY DEF Entry, GivenUp

LEMMA UnlistedFields ==
  ASSUME NEW e \in Entry
  PROVE  LET r == [e EXCEPT !.listed = FALSE] IN
         /\ r \in Entry /\ r.run = e.run /\ r.on = e.on /\ r.connId = e.connId
         /\ r.bound = e.bound /\ r.config = e.config /\ r.session = e.session
         /\ r.tunnel = e.tunnel /\ r.cancelled = e.cancelled /\ ~r.listed
         /\ r.timer = e.timer /\ r.status = e.status
BY DEF Entry

\* A dial that ended without a listener is scheduled again, gives up or was
\* cancelled; a start that did is off the list.
Ended(e) == [e EXCEPT !.run = "none", !.on = NoConn]

NotUp(e, r) ==
  \/ e.run = "start" /\ r = [Ended(e) EXCEPT !.listed = FALSE]
  \/ e.run # "start" /\ ~Live(Ended(e)) /\ r = Ended(e)
  \/ e.run # "start" /\ r = GivenUp(Ended(e))
  \/ e.run # "start" /\ r = Scheduled(Ended(e))

LEMMA NotUpOK ==
  ASSUME NEW e, EntryOK(e), e.run # "none", NEW r, NotUp(e, r)
  PROVE  /\ EntryOK(r) /\ Follows(r, e) /\ r.run = "none" /\ r.on = NoConn
         /\ r.bound = NoConn /\ r.connId = e.connId
<1> DEFINE u == Ended(e)
<1>1. e \in Entry /\ e.status # "none" /\ e.bound = NoConn /\ ~e.timer
  BY ListedEntry DEF EntryOK
<1>2. /\ u \in Entry /\ u.run = "none" /\ u.on = NoConn /\ u.connId = e.connId
      /\ u.bound = e.bound /\ u.config = e.config /\ u.session = e.session
      /\ u.tunnel = e.tunnel /\ u.cancelled = e.cancelled /\ u.listed = e.listed
      /\ u.timer = e.timer /\ u.status = e.status /\ u.retry = e.retry
  BY <1>1, EndedFields DEF Ended
<1> HIDE DEF u
<1>3. /\ r \in Entry /\ r.run = "none" /\ r.on = NoConn /\ r.connId = e.connId
      /\ r.bound = NoConn /\ r.config = e.config /\ r.session = e.session
      /\ r.tunnel = e.tunnel /\ r.cancelled = e.cancelled /\ (r.listed => e.listed)
      /\ r.timer => e.run # "start" /\ r.status = "reconnecting"
      /\ r.listed => r.status = "error" \/ r.timer
      /\ r.status # "none"
  <2>1. CASE e.run = "start" /\ r = [u EXCEPT !.listed = FALSE]
    BY <1>1, <1>2, <2>1, UnlistedFields
  <2>2. CASE e.run # "start" /\ ~Live(u) /\ r = u
    BY <1>1, <1>2, <2>2 DEF EntryOK, Live
  <2>3. CASE e.run # "start" /\ r = GivenUp(u)
    BY <1>1, <1>2, <2>3, GivenUpFields
  <2>4. CASE e.run # "start" /\ r = Scheduled(u)
    <3>1. /\ r \in Entry /\ r.status = "reconnecting" /\ r.timer /\ r.listed = u.listed
          /\ r.cancelled = u.cancelled /\ r.bound = u.bound
          /\ r.tunnel = u.tunnel /\ r.session = u.session
          /\ r.config = u.config /\ r.connId = u.connId /\ r.run = u.run /\ r.on = u.on
      BY <1>2, <2>4, ScheduledFields
    <3> QED BY <1>1, <1>2, <2>4, <3>1
  <2> QED BY <2>1, <2>2, <2>3, <2>4 DEF NotUp, u
<1>4. e.run # "start" => e.tunnel # NoTunnel
  BY <1>1 DEF EntryOK, Entry
<1>5. EntryOK(r)
  BY <1>1, <1>3, <1>4 DEF EntryOK
<1>6. Follows(r, e)
  BY <1>3 DEF Follows
<1> QED BY <1>3, <1>5, <1>6

LEMMA SavedAsks ==
  ASSUME NEW k \in Saved
  PROVE  /\ k.autoStart => k.exists
         /\ k.autoReconnect => k.exists
         /\ k.autoReconnect \in BOOLEAN /\ k.autoStart \in BOOLEAN
<1>1. CASE k \in Kept
  BY <1>1 DEF Kept
<1>2. CASE k = Deleted
  <2>1. k.exists = FALSE /\ k.autoStart = FALSE /\ k.autoReconnect = FALSE
    BY <1>2 DEF Deleted
  <2> QED BY <2>1
<1> QED BY <1>1, <1>2 DEF Saved

\* dial() starts only while the saved tunnel asks for it.
LEMMA DialingOK ==
  ASSUME FwdTypeOK, NEW e \in Entry, NEW auto \in BOOLEAN,
         e.run = "none" /\ e.on = NoConn /\ e.bound = NoConn,
         e.tunnel # NoTunnel, e.session => e.tunnel = NoTunnel /\ e.connId # NoConn,
         auto => e.status = "starting", ~auto => e.status \in {"reconnecting", "active"}
  PROVE  LET r == Dialing(e, auto)
             tunnel == saved[r.tunnel]
         IN  /\ EntryOK(r) /\ Follows(r, e) /\ r.bound = NoConn /\ r.on = NoConn
             /\ r.connId = e.connId
             /\ r.run # "none" => tunnel.exists /\ IF r.autostart THEN tunnel.autoStart
                                                                   ELSE tunnel.autoReconnect
<1> DEFINE r == Dialing(e, auto)
           begun == [e EXCEPT !.cancel = "dial", !.cancelled = FALSE, !.timer = FALSE]
           wanted == IF auto THEN saved[e.tunnel].autoStart ELSE saved[e.tunnel].autoReconnect
<1>1. saved[e.tunnel] \in Saved
  BY DEF FwdTypeOK, Entry
<1>2. wanted => /\ saved[e.tunnel].exists /\ saved[e.tunnel].autoReconnect \in BOOLEAN
  BY <1>1, SavedAsks
<1>3. /\ begun \in Entry /\ ~begun.cancelled /\ ~begun.timer /\ begun.status = e.status
      /\ begun.listed = e.listed /\ begun.run = e.run /\ begun.on = e.on
      /\ begun.connId = e.connId /\ begun.bound = e.bound /\ begun.config = e.config
      /\ begun.session = e.session /\ begun.tunnel = e.tunnel
  BY DEF Entry
<1> HIDE DEF begun
<1>4. CASE wanted
  <2> DEFINE retry == saved[e.tunnel].autoReconnect
             d == [begun EXCEPT !.run = "connect", !.autostart = auto, !.retry = retry]
  <2>1. r = d
    BY <1>4 DEF Dialing, begun
  <2>2. retry \in BOOLEAN
    BY <1>2, <1>4
  <2> HIDE DEF retry
  <2>3. /\ d \in Entry /\ ~d.cancelled /\ ~d.timer /\ d.status = e.status
        /\ d.listed = e.listed /\ d.run = "connect" /\ d.on = e.on
        /\ d.connId = e.connId /\ d.bound = e.bound /\ d.config = e.config
        /\ d.session = e.session /\ d.tunnel = e.tunnel /\ (d.autostart <=> auto)
    <3>1. CASE auto = TRUE /\ retry = TRUE
      <4> DEFINE g == [begun EXCEPT !.run = "connect", !.autostart = TRUE, !.retry = TRUE]
      <4>1. d = g
        BY <3>1
      <4>2. /\ g \in Entry /\ ~g.cancelled /\ ~g.timer /\ g.status = e.status
            /\ g.listed = e.listed /\ g.run = "connect" /\ g.on = e.on
            /\ g.connId = e.connId /\ g.bound = e.bound /\ g.config = e.config
            /\ g.session = e.session /\ g.tunnel = e.tunnel /\ g.autostart = TRUE
        BY <1>3 DEF Entry
      <4> HIDE DEF d, g
      <4> QED BY <3>1, <4>1, <4>2
    <3>2. CASE auto = TRUE /\ retry = FALSE
      <4> DEFINE g == [begun EXCEPT !.run = "connect", !.autostart = TRUE, !.retry = FALSE]
      <4>1. d = g
        BY <3>2
      <4>2. /\ g \in Entry /\ ~g.cancelled /\ ~g.timer /\ g.status = e.status
            /\ g.listed = e.listed /\ g.run = "connect" /\ g.on = e.on
            /\ g.connId = e.connId /\ g.bound = e.bound /\ g.config = e.config
            /\ g.session = e.session /\ g.tunnel = e.tunnel /\ g.autostart = TRUE
        BY <1>3, ZenonT(40) DEF Entry
      <4> HIDE DEF d, g
      <4> QED BY <3>2, <4>1, <4>2
    <3>3. CASE auto = FALSE /\ retry = TRUE
      <4> DEFINE g == [begun EXCEPT !.run = "connect", !.autostart = FALSE, !.retry = TRUE]
      <4>1. d = g
        BY <3>3
      <4>2. /\ g \in Entry /\ ~g.cancelled /\ ~g.timer /\ g.status = e.status
            /\ g.listed = e.listed /\ g.run = "connect" /\ g.on = e.on
            /\ g.connId = e.connId /\ g.bound = e.bound /\ g.config = e.config
            /\ g.session = e.session /\ g.tunnel = e.tunnel /\ g.autostart = FALSE
        BY <1>3 DEF Entry
      <4> HIDE DEF d, g
      <4> QED BY <3>3, <4>1, <4>2
    <3>4. CASE auto = FALSE /\ retry = FALSE
      <4> DEFINE g == [begun EXCEPT !.run = "connect", !.autostart = FALSE, !.retry = FALSE]
      <4>1. d = g
        BY <3>4
      <4>2. /\ g \in Entry /\ ~g.cancelled /\ ~g.timer /\ g.status = e.status
            /\ g.listed = e.listed /\ g.run = "connect" /\ g.on = e.on
            /\ g.connId = e.connId /\ g.bound = e.bound /\ g.config = e.config
            /\ g.session = e.session /\ g.tunnel = e.tunnel /\ g.autostart = FALSE
        BY <1>3, ZenonT(40) DEF Entry
      <4> HIDE DEF d, g
      <4> QED BY <3>4, <4>1, <4>2
    <3> QED BY <2>2, <3>1, <3>2, <3>3, <3>4
  <2> HIDE DEF d
  <2>4. EntryOK(d)
    BY <2>3 DEF EntryOK
  <2>5. Follows(d, e)
    BY <2>3 DEF Follows
  <2>6. saved[d.tunnel].exists /\ IF d.autostart THEN saved[d.tunnel].autoStart
                                                 ELSE saved[d.tunnel].autoReconnect
    BY <1>2, <1>4, <2>3
  <2> HIDE DEF r
  <2> QED BY <2>1, <2>3, <2>4, <2>5, <2>6 DEF r
<1>5. CASE ~wanted
  <2> DEFINE d == [begun EXCEPT !.listed = FALSE]
  <2>1. r = d
    BY <1>5 DEF Dialing, begun
  <2>2. /\ d \in Entry /\ d.run = begun.run /\ d.on = begun.on /\ d.connId = begun.connId
        /\ d.bound = begun.bound /\ d.config = begun.config /\ d.session = begun.session
        /\ d.tunnel = begun.tunnel /\ d.cancelled = begun.cancelled /\ ~d.listed
        /\ d.timer = begun.timer /\ d.status = begun.status
    BY <1>3, UnlistedFields
  <2> HIDE DEF d
  <2>3. EntryOK(d)
    BY <1>3, <2>2 DEF EntryOK
  <2>4. Follows(d, e)
    BY <2>2 DEF Follows
  <2> HIDE DEF r
  <2> QED BY <1>3, <2>1, <2>2, <2>3, <2>4 DEF r
<1> QED BY <1>4, <1>5

LEMMA StartedOK ==
  ASSUME NEW c \in Conn, NEW t \in Tunnel \union {NoTunnel},
         NEW session \in BOOLEAN, NEW config \in BOOLEAN,
         session => t = NoTunnel, config => session
  PROVE  LET r == Started(c, t, session, config) IN
         /\ EntryOK(r) /\ r.on = c /\ r.bound = NoConn /\ r.connId = c /\ r.run = "start"
         /\ r.config => config
<1> DEFINE r == Started(c, t, session, config)
<1>0. NoEntry \in Entry /\ NoEntry.bound = NoConn /\ ~NoEntry.timer /\ ~NoEntry.cancelled
  BY DEF NoEntry, Entry
<1>1. /\ r \in Entry /\ r.listed /\ r.status = "active" /\ r.tunnel = t
      /\ (r.session <=> session) /\ (r.config <=> config)
      /\ r.connId = c /\ r.bound = NoConn /\ ~r.timer /\ r.run = "start"
      /\ r.on = c /\ ~r.cancelled
  <2>1. CASE session /\ config
    <3>1. session = TRUE /\ config = TRUE
      BY <2>1
    <3> DEFINE d == [NoEntry EXCEPT !.listed = TRUE, !.status = "active", !.tunnel = t,
                                    !.session = TRUE, !.config = TRUE, !.connId = c,
                                    !.run = "start", !.on = c]
    <3>2. r = d
      BY <3>1 DEF Started
    <3>3. /\ d \in Entry /\ d.listed = TRUE /\ d.status = "active" /\ d.tunnel = t
          /\ d.session = TRUE /\ d.config = TRUE
          /\ d.connId = c /\ d.bound = NoConn /\ ~d.timer /\ d.run = "start"
          /\ d.on = c /\ ~d.cancelled
      BY <1>0, ZenonT(40) DEF Entry
    <3> HIDE DEF r, d
    <3> QED BY <2>1, <3>2, <3>3
  <2>2. CASE session /\ ~config
    <3>1. session = TRUE /\ config = FALSE
      BY <2>2
    <3> DEFINE d == [NoEntry EXCEPT !.listed = TRUE, !.status = "active", !.tunnel = t,
                                    !.session = TRUE, !.config = FALSE, !.connId = c,
                                    !.run = "start", !.on = c]
    <3>2. r = d
      BY <3>1 DEF Started
    <3>3. /\ d \in Entry /\ d.listed = TRUE /\ d.status = "active" /\ d.tunnel = t
          /\ d.session = TRUE /\ d.config = FALSE
          /\ d.connId = c /\ d.bound = NoConn /\ ~d.timer /\ d.run = "start"
          /\ d.on = c /\ ~d.cancelled
      BY <1>0, ZenonT(40) DEF Entry
    <3> HIDE DEF r, d
    <3> QED BY <2>2, <3>2, <3>3
  <2>3. CASE ~session /\ ~config
    <3>1. session = FALSE /\ config = FALSE
      BY <2>3
    <3> DEFINE d == [NoEntry EXCEPT !.listed = TRUE, !.status = "active", !.tunnel = t,
                                    !.session = FALSE, !.config = FALSE, !.connId = c,
                                    !.run = "start", !.on = c]
    <3>2. r = d
      BY <3>1 DEF Started
    <3>3. /\ d \in Entry /\ d.listed = TRUE /\ d.status = "active" /\ d.tunnel = t
          /\ d.session = FALSE /\ d.config = FALSE
          /\ d.connId = c /\ d.bound = NoConn /\ ~d.timer /\ d.run = "start"
          /\ d.on = c /\ ~d.cancelled
      BY <1>0, ZenonT(40) DEF Entry
    <3> HIDE DEF r, d
    <3> QED BY <2>3, <3>2, <3>3
  <2> QED BY <2>1, <2>2, <2>3
<1>2. c # NoConn
  BY ForwardAssumption
<1> HIDE DEF r
<1>3. EntryOK(r)
  BY <1>1, <1>2 DEF EntryOK
<1> QED BY <1>1, <1>3 DEF r

-----------------------------------------------------------------------------
(* What a step does to the leases. *)

Holders == Fwd \union Terminal

LeasesTyped ==
  /\ phase \in [Conn -> {"unborn", "up", "down"}]
  /\ users \in [Conn -> SUBSET Holders]

\* A transport is dialed once and ends once.
Ages ==
  \A c \in Conn : phase[c] # "unborn" =>
    phase'[c] # "unborn" /\ (phase'[c] = "up" => phase[c] = "up")

\* The holder takes no lease and gives none up on a transport that stays up.
Keeps(h) ==
  \A c \in Conn :
    /\ h \in users'[c] => h \in users[c]
    /\ h \in users[c] /\ phase'[c] = "up" => h \in users'[c]

\* The transports the holder leases are none the worse for the step.
Undisturbed(h) == \A c \in Conn : h \in users[c] => phase'[c] = phase[c]

Leaves(h) == \A c \in Conn : h \notin users'[c]

LEMMA SameLeases ==
  ASSUME LeasesTyped, UNCHANGED leases
  PROVE  LeasesTyped' /\ Ages /\ \A h \in Holders : Keeps(h) /\ Undisturbed(h)
BY DEF LeasesTyped, leases, Ages, Keeps, Undisturbed

LEMMA ReleaseFacts ==
  ASSUME LeasesTyped, NEW S, Release(S)
  PROVE  /\ LeasesTyped' /\ Ages
         /\ \A h \in Holders \ S : Keeps(h) /\ Undisturbed(h)
         /\ \A h \in S : Leaves(h)
<1>1. \A c \in Conn : users'[c] = users[c] \ S
  BY DEF Release, UsersWithout
<1>2. \A c \in Conn : phase'[c] = IF users[c] # {} /\ users[c] \subseteq S THEN "down"
                                   ELSE phase[c]
  BY DEF Release, PhaseWithout
<1>3. LeasesTyped'
  <2>1. DOMAIN phase' = Conn /\ DOMAIN users' = Conn
    BY DEF Release, PhaseWithout, UsersWithout
  <2>2. phase' \in [Conn -> {"unborn", "up", "down"}]
    BY DEF Release, PhaseWithout, LeasesTyped
  <2>3. users' \in [Conn -> SUBSET Holders]
    BY DEF Release, UsersWithout, LeasesTyped
  <2> QED BY <2>2, <2>3 DEF LeasesTyped
<1>4. Ages
  BY <1>2 DEF Ages
<1>5. \A h \in Holders \ S : Keeps(h) /\ Undisturbed(h)
  BY <1>1, <1>2 DEF Keeps, Undisturbed
<1>6. \A h \in S : Leaves(h)
  BY <1>1 DEF Leaves
<1> QED BY <1>3, <1>4, <1>5, <1>6

LEMMA GoDownFacts ==
  ASSUME LeasesTyped, NEW S \in SUBSET {c \in Conn : phase[c] # "unborn"}, Leases!GoDown(S)
  PROVE  /\ LeasesTyped' /\ Ages
         /\ \A h \in Holders : Keeps(h)
         /\ \A c \in Conn \ S : phase'[c] = phase[c]
         /\ \A c \in S : phase'[c] = "down" /\ users'[c] = {}
<1>1. \A c \in Conn : /\ users'[c] = IF c \in S THEN {} ELSE users[c]
                      /\ phase'[c] = IF c \in S THEN "down" ELSE phase[c]
  BY DEF Leases!GoDown
<1>2. LeasesTyped'
  <2>1. phase' \in [Conn -> {"unborn", "up", "down"}]
    BY DEF Leases!GoDown, LeasesTyped
  <2>2. users' \in [Conn -> SUBSET Holders]
    BY DEF Leases!GoDown, LeasesTyped
  <2> QED BY <2>1, <2>2 DEF LeasesTyped
<1>3. Ages
  BY <1>1 DEF Ages
<1>4. \A h \in Holders : Keeps(h)
  BY <1>1 DEF Keeps
<1> QED BY <1>1, <1>2, <1>3, <1>4

LEMMA LeaseFacts ==
  ASSUME LeasesTyped, NEW x \in Holders, NEW c \in Conn, Leases!Open(x, c) \/ Leases!Join(x, c),
         \A d \in Conn : phase[d] = "unborn" => users[d] = {}
  PROVE  /\ LeasesTyped' /\ Ages
         /\ \A h \in Holders \ {x} : Keeps(h) /\ Undisturbed(h)
         /\ \A d \in Conn : x \in users'[d] <=> d = c
         /\ phase'[c] = "up"
<1>1. \A d \in Conn : x \notin users[d]
  BY DEF Leases!Open, Leases!Join, Leases!InUse
<1>2. \A d \in Conn : users'[d] = IF d = c THEN users[d] \union {x} ELSE users[d]
  BY DEF Leases!Open, Leases!Join, LeasesTyped
<1>3. \A d \in Conn : phase'[d] = IF d = c THEN "up" ELSE phase[d]
  BY DEF Leases!Open, Leases!Join, LeasesTyped
<1>4. phase[c] \in {"unborn", "up"}
  BY DEF Leases!Open, Leases!Join
<1>5. LeasesTyped'
  <2>1. phase' \in [Conn -> {"unborn", "up", "down"}]
    BY DEF Leases!Open, Leases!Join, LeasesTyped
  <2>2. users' \in [Conn -> SUBSET Holders]
    BY DEF Leases!Open, Leases!Join, LeasesTyped
  <2> QED BY <2>1, <2>2 DEF LeasesTyped
<1>6. Ages
  BY <1>3, <1>4 DEF Ages
<1>7. \A h \in Holders \ {x} : Keeps(h) /\ Undisturbed(h)
  BY <1>2, <1>3, <1>4 DEF Keeps, Undisturbed
<1> QED BY <1>1, <1>2, <1>3, <1>5, <1>6, <1>7

-----------------------------------------------------------------------------
(* What a step leaves of the invariant. *)

LEMMA SameOwned ==
  ASSUME NEW f \in Fwd, EntryOK(fwd[f]), Owned(f), Ages, Keeps(f),
         fwd[f].bound # NoConn => phase'[fwd[f].bound] = "up",
         fwd'[f] = fwd[f]
  PROVE  Owned(f)'
<1>1. /\ fwd[f].bound \in Conn \union {NoConn} /\ fwd[f].on \in Conn \union {NoConn}
      /\ fwd[f].connId \in Conn \union {NoConn}
  BY DEF EntryOK, Entry
<1> QED BY <1>1 DEF Owned, Ages, Keeps

LEMMA DiscardedOwned ==
  ASSUME NEW f \in Fwd, EntryOK(fwd[f]), Owned(f), Ages, fwd[f].listed,
         fwd'[f] = Discarded(fwd[f]), fwd[f].bound = NoConn => Keeps(f),
         fwd[f].bound # NoConn => Leaves(f)
  PROVE  Owned(f)'
<1>1. /\ fwd[f].bound \in Conn \union {NoConn} /\ fwd[f].on \in Conn \union {NoConn}
      /\ fwd[f].connId \in Conn \union {NoConn} /\ (fwd[f].bound # NoConn => fwd[f].on = NoConn)
  BY DEF EntryOK, Entry
<1>2. /\ fwd'[f].bound = NoConn /\ fwd'[f].on = fwd[f].on /\ fwd'[f].connId = fwd[f].connId
  BY DiscardedOK
<1>3. CASE fwd[f].bound = NoConn
  BY <1>1, <1>2, <1>3 DEF Owned, Ages, Keeps
<1>4. CASE fwd[f].bound # NoConn
  BY <1>1, <1>2, <1>4 DEF Owned, Ages, Leaves
<1> QED BY <1>3, <1>4

LEMMA SameSeat ==
  ASSUME FwdTypeOK, NEW s \in Terminal, Seated(s), Ages, Keeps(s), term'[s] = term[s]
  PROVE  Seated(s)'
<1>1. term[s].conn \in Conn \union {NoConn}
  BY DEF FwdTypeOK
<1> QED BY <1>1 DEF Seated, Ages, Keeps

LEMMA SameWish ==
  ASSUME NEW f \in Fwd, DialWanted(f), fwd'[f] = fwd[f], saved' = saved
  PROVE  DialWanted(f)'
BY DEF DialWanted, Live

\* No ssh_config forward is added, moved or left without its terminals.
LEMMA ConfigsFollow ==
  ASSUME ForwardInv, Ages, refusedOn \subseteq refusedOn',
         \A f \in Fwd : Follows(fwd'[f], fwd[f]),
         \A s \in Terminal : \A c \in Conn :
           s \in users[c] /\ phase'[c] = "up" => s \in users'[c]
  PROVE  OneConfigForward' /\ ConfigForwardsEnd'
<1>1. OneConfigForward'
  BY DEF ForwardInv, OneConfigForward, Listed, Follows
<1>2. ASSUME NEW f \in Fwd, Orphaned(f)'
      PROVE  fwd'[f].connId \in refusedOn'
  <2>1. /\ fwd[f].listed /\ fwd[f].config /\ fwd[f].session
        /\ fwd'[f].connId = fwd[f].connId /\ phase'[fwd[f].connId] = "up"
        /\ users'[fwd[f].connId] \cap Terminal = {}
    BY <1>2 DEF Orphaned, Follows
  <2>2. fwd[f].connId \in Conn /\ phase[fwd[f].connId] # "unborn"
    BY <2>1 DEF ForwardInv, EntryOK, Entry, Owned
  <2>3. phase[fwd[f].connId] = "up" /\ users[fwd[f].connId] \cap Terminal = {}
    BY <2>1, <2>2 DEF Ages
  <2>4. Orphaned(f)
    BY <2>1, <2>3 DEF Orphaned
  <2> QED BY <2>1, <2>4 DEF ForwardInv, ConfigForwardsEnd
<1> QED BY <1>1, <1>2 DEF ConfigForwardsEnd

-----------------------------------------------------------------------------
(* Each step keeps the invariant. *)

LEMMA InvParts ==
  ASSUME ForwardInv
  PROVE  /\ FwdTypeOK /\ LeasesTyped
         /\ \A f \in Fwd : EntryOK(fwd[f]) /\ Owned(f) /\ DialWanted(f)
         /\ \A f \in Fwd : Follows(fwd[f], fwd[f])
         /\ \A s \in Terminal : Seated(s)
         /\ \A c \in Conn : phase[c] = "unborn" => users[c] = {}
<1>1. FwdTypeOK /\ LeasesTyped
  BY DEF ForwardInv, FwdTypeOK, LeasesTyped, Holders
<1>2. /\ \A f \in Fwd : EntryOK(fwd[f]) /\ Owned(f) /\ DialWanted(f)
      /\ \A s \in Terminal : Seated(s)
  BY DEF ForwardInv
<1>3. ASSUME NEW c \in Conn, phase[c] = "unborn"
      PROVE  users[c] = {}
  <2>1. c # NoConn
    BY ForwardAssumption
  <2>2. \A f \in Fwd : f \notin users[c]
    BY <1>2, <1>3, <2>1 DEF Owned
  <2>3. \A s \in Terminal : s \notin users[c]
    BY <1>2, <1>3, <2>1 DEF Seated
  <2> QED BY <1>1, <2>2, <2>3 DEF LeasesTyped, Holders
<1>4. \A f \in Fwd : Follows(fwd[f], fwd[f])
  BY DEF Follows
<1> QED BY <1>1, <1>2, <1>3, <1>4

LEMMA NextInv ==
  ASSUME FwdTypeOK, LeasesTyped', fwd' = [f \in Fwd |-> fwd'[f]],
         saved' \in [Tunnel -> Saved],
         term' \in [Terminal -> [state : {"none", "opening", "closing", "open"},
                                 conn : Conn \union {NoConn}]],
         \A f \in Fwd : EntryOK(fwd'[f]) /\ Owned(f)' /\ DialWanted(f)',
         \A s \in Terminal : Seated(s)',
         OneConfigForward', ConfigForwardsEnd'
  PROVE  ForwardInv'
<1>1. fwd' \in [Fwd -> Entry]
  BY DEF EntryOK
<1>2. FwdTypeOK'
  BY <1>1 DEF FwdTypeOK, LeasesTyped, Holders
<1> QED BY <1>2 DEF ForwardInv

\* A step that leaves terminals and tunnels alone and touches one entry only.
LEMMA OneEntryStep ==
  ASSUME ForwardInv, NEW f \in Fwd, NEW r, fwd' = [fwd EXCEPT ![f] = r],
         EntryOK(r), Follows(r, fwd[f]), Owned(f)', DialWanted(f)',
         LeasesTyped', Ages, UNCHANGED <<saved, term, refusedOn>>,
         \A h \in Holders \ {f} : Keeps(h) /\ Undisturbed(h)
  PROVE  ForwardInv'
<1>1. /\ FwdTypeOK /\ LeasesTyped
      /\ \A g \in Fwd : EntryOK(fwd[g]) /\ Owned(g) /\ DialWanted(g)
      /\ \A g \in Fwd : Follows(fwd[g], fwd[g])
      /\ \A s \in Terminal : Seated(s)
  BY InvParts
<1>2. /\ fwd'[f] = r /\ fwd' = [g \in Fwd |-> fwd'[g]]
      /\ \A g \in Fwd \ {f} : fwd'[g] = fwd[g]
  BY <1>1 DEF FwdTypeOK
<1>3. ASSUME NEW g \in Fwd
      PROVE  EntryOK(fwd'[g]) /\ Owned(g)' /\ DialWanted(g)' /\ Follows(fwd'[g], fwd[g])
  <2>1. CASE g = f
    BY <1>2, <2>1
  <2>2. CASE g # f
    <3>1. fwd'[g] = fwd[g] /\ Keeps(g) /\ Undisturbed(g)
      BY <1>2, <2>2 DEF Holders
    <3>2. fwd[g].bound # NoConn => phase'[fwd[g].bound] = "up"
      BY <1>1, <3>1 DEF Owned, Undisturbed, EntryOK, Entry
    <3>3. Owned(g)'
      BY <1>1, <3>1, <3>2, SameOwned
    <3>4. DialWanted(g)'
      BY <1>1, <3>1, SameWish
    <3> QED BY <1>1, <3>1, <3>3, <3>4
  <2> QED BY <2>1, <2>2
<1>4. \A s \in Terminal : Keeps(s)
  BY ForwardAssumption DEF Holders
<1>5. \A s \in Terminal : Seated(s)'
  BY <1>1, <1>4, SameSeat
<1>6. OneConfigForward' /\ ConfigForwardsEnd'
  BY <1>3, <1>4, ConfigsFollow DEF Keeps
<1>7. saved' \in [Tunnel -> Saved]
      /\ term' \in [Terminal -> [state : {"none", "opening", "closing", "open"},
                                  conn : Conn \union {NoConn}]]
  BY <1>1 DEF FwdTypeOK
<1> QED BY <1>1, <1>2, <1>3, <1>5, <1>6, <1>7, NextInv

LEMMA InitStep ==
  ASSUME Init
  PROVE  ForwardInv
<1>1. /\ phase = [c \in Conn |-> "unborn"] /\ users = [c \in Conn |-> {}]
  BY DEF Init, Leases!Init
<1>2. NoEntry \in Entry
  BY DEF NoEntry, Entry
<1>3. /\ NoEntry.status = "none" /\ NoEntry.run = "none" /\ NoEntry.on = NoConn
      /\ NoEntry.bound = NoConn /\ NoEntry.connId = NoConn
      /\ NoEntry.timer = FALSE /\ NoEntry.listed = FALSE /\ NoEntry.cancelled = FALSE
      /\ NoEntry.session = FALSE
  BY DEF NoEntry
<1>4. EntryOK(NoEntry)
  BY <1>2, <1>3 DEF EntryOK
<1>5. \A f \in Fwd : fwd[f] = NoEntry
  BY DEF Init
<1>6. FwdTypeOK
  <2>1. saved \in [Tunnel -> Saved]
    BY DEF Init, Saved
  <2>2. fwd \in [Fwd -> Entry]
    BY <1>2 DEF Init
  <2>3. term \in [Terminal -> [state : {"none", "opening", "closing", "open"},
                               conn : Conn \union {NoConn}]]
    BY DEF Init
  <2> QED BY <1>1, <2>1, <2>2, <2>3 DEF FwdTypeOK
<1>7. \A f \in Fwd : Owned(f) /\ DialWanted(f)
  BY <1>1, <1>3, <1>5 DEF Owned, DialWanted, Live
<1>8. \A s \in Terminal : Seated(s)
  BY <1>1 DEF Init, Seated
<1>9. OneConfigForward /\ ConfigForwardsEnd
  BY <1>3, <1>5 DEF OneConfigForward, ConfigForwardsEnd, Listed, Orphaned
<1> QED BY <1>4, <1>5, <1>6, <1>7, <1>8, <1>9 DEF ForwardInv

LEMMA BindSucceedsStep ==
  ASSUME ForwardInv, NEW f \in Fwd, BindSucceeds(f)
  PROVE  ForwardInv'
<1> DEFINE l == Listening(fwd[f])
           r == IF fwd[f].run = "start" THEN AfterStart(l) ELSE AfterDial(l)
<1>1. /\ FwdTypeOK /\ LeasesTyped /\ EntryOK(fwd[f]) /\ Owned(f)
      /\ fwd[f].run \in {"start", "bind"}
  BY InvParts DEF BindSucceeds
<1>2. /\ EntryOK(r) /\ Follows(r, fwd[f]) /\ r.run = "none" /\ r.on = NoConn
      /\ r.connId = fwd[f].on
      /\ r.bound # NoConn => r.listed /\ r.bound = fwd[f].on /\ phase[fwd[f].on] = "up"
  BY <1>1, BindOK
<1>3. /\ fwd' = [fwd EXCEPT ![f] = r] /\ UNCHANGED <<saved, term, refusedOn>>
      /\ IF r.bound = NoConn THEN Release({f}) ELSE UNCHANGED leases
  BY DEF BindSucceeds
<1> HIDE DEF l, r
<1>4. fwd'[f] = r
  BY <1>1, <1>3 DEF FwdTypeOK
<1>5. /\ fwd[f].on \in Conn /\ phase[fwd[f].on] # "unborn" /\ fwd[f].bound = NoConn
  BY <1>1 DEF Owned, EntryOK, Entry
<1>6. DialWanted(f)'
  BY <1>2, <1>4 DEF DialWanted
<1>7. CASE r.bound = NoConn
  <2>1. /\ LeasesTyped' /\ Ages /\ Leaves(f)
        /\ \A h \in Holders \ {f} : Keeps(h) /\ Undisturbed(h)
    BY <1>1, <1>3, <1>7, ReleaseFacts
  <2>2. Owned(f)'
    BY <1>2, <1>4, <1>5, <1>7, <2>1 DEF Owned, Ages, Leaves
  <2> QED BY <1>2, <1>3, <1>6, <2>1, <2>2, OneEntryStep
<1>8. CASE r.bound # NoConn
  <2>1. /\ LeasesTyped' /\ Ages /\ users' = users /\ phase' = phase
        /\ \A h \in Holders : Keeps(h) /\ Undisturbed(h)
    BY <1>1, <1>3, <1>8, SameLeases DEF leases
  <2>2. Owned(f)'
    BY <1>1, <1>2, <1>4, <1>5, <1>8, <2>1 DEF Owned
  <2> QED BY <1>2, <1>3, <1>6, <2>1, <2>2, OneEntryStep
<1> QED BY <1>7, <1>8

LEMMA BindFailsStep ==
  ASSUME ForwardInv, NEW f \in Fwd, BindFails(f)
  PROVE  ForwardInv'
<1> DEFINE e == fwd[f]
           u == [e EXCEPT !.run = "none", !.on = NoConn]
           r == IF e.run = "start" THEN [u EXCEPT !.listed = FALSE]
                ELSE IF Live(u) THEN RetryOrGiveUp(u) ELSE u
<1>1. /\ FwdTypeOK /\ LeasesTyped /\ EntryOK(e) /\ Owned(f) /\ e.run \in {"start", "bind"}
  BY InvParts DEF BindFails
<1>2. NotUp(e, r)
  BY DEF RetryOrGiveUp, NotUp, Ended
<1>3. /\ fwd' = [fwd EXCEPT ![f] = r] /\ Release({f}) /\ UNCHANGED <<saved, term, refusedOn>>
  BY DEF BindFails
<1> HIDE DEF u, r
<1>5. /\ EntryOK(r) /\ Follows(r, e) /\ r.run = "none" /\ r.on = NoConn
      /\ r.bound = NoConn /\ r.connId = e.connId
  BY <1>1, <1>2, NotUpOK
<1>6. fwd'[f] = r
  BY <1>1, <1>3 DEF FwdTypeOK
<1>7. DialWanted(f)'
  BY <1>5, <1>6 DEF DialWanted
<1>8. /\ LeasesTyped' /\ Ages /\ Leaves(f)
      /\ \A h \in Holders \ {f} : Keeps(h) /\ Undisturbed(h)
  BY <1>1, <1>3, ReleaseFacts
<1>9. Owned(f)'
  BY <1>1, <1>5, <1>6, <1>8 DEF Owned, Ages, Leaves, EntryOK, Entry
<1> QED BY <1>3, <1>5, <1>7, <1>8, <1>9, OneEntryStep

LEMMA ConnectFailsStep ==
  ASSUME ForwardInv, NEW f \in Fwd, ConnectFails(f)
  PROVE  ForwardInv'
<1> DEFINE e == fwd[f]
           u == [e EXCEPT !.run = "none"]
<1>1. /\ FwdTypeOK /\ LeasesTyped /\ EntryOK(e) /\ Owned(f) /\ e.run = "connect"
  BY InvParts DEF ConnectFails
<1>2. PICK r : /\ fwd' = [fwd EXCEPT ![f] = r]
               /\ NotUp(e, r)
  <2>1. PICK needsUser \in BOOLEAN :
          fwd' = [fwd EXCEPT ![f] = IF ~Live(u) THEN u ELSE IF needsUser THEN GivenUp(u)
                                                                     ELSE RetryOrGiveUp(u)]
    BY DEF ConnectFails
  <2> DEFINE r == IF ~Live(u) THEN u ELSE IF needsUser THEN GivenUp(u) ELSE RetryOrGiveUp(u)
  <2>2. NotUp(e, r)
    <3>1. u = Ended(e)
      BY <1>1 DEF EntryOK, Entry, Ended
    <3> QED BY <1>1, <3>1 DEF RetryOrGiveUp, NotUp
  <2>3. fwd' = [fwd EXCEPT ![f] = r]
    BY <2>1
  <2> HIDE DEF r
  <2> QED BY <2>2, <2>3
<1>3. UNCHANGED <<leases, saved, term, refusedOn>>
  BY DEF ConnectFails
<1> HIDE DEF u
<1>5. /\ EntryOK(r) /\ Follows(r, e) /\ r.run = "none" /\ r.on = NoConn
      /\ r.bound = NoConn /\ r.connId = e.connId
  BY <1>1, <1>2, NotUpOK
<1>6. fwd'[f] = r
  BY <1>1, <1>2 DEF FwdTypeOK
<1>7. DialWanted(f)'
  BY <1>5, <1>6 DEF DialWanted
<1>8. /\ LeasesTyped' /\ Ages /\ UNCHANGED <<phase, users>>
      /\ \A h \in Holders \ {f} : Keeps(h) /\ Undisturbed(h)
  BY <1>1, <1>3, SameLeases DEF leases
<1>9. Owned(f)'
  BY <1>1, <1>5, <1>6, <1>8 DEF Owned, EntryOK, Entry
<1> QED BY <1>2, <1>3, <1>5, <1>7, <1>8, <1>9, OneEntryStep

LEMMA TimerFiresStep ==
  ASSUME ForwardInv, NEW f \in Fwd, TimerFires(f)
  PROVE  ForwardInv'
<1> DEFINE e == fwd[f]
           r == Dialing(e, FALSE)
<1>1. /\ FwdTypeOK /\ LeasesTyped /\ EntryOK(e) /\ Owned(f) /\ e.timer
  BY InvParts DEF TimerFires
<1>2. /\ e \in Entry /\ e.run = "none" /\ e.on = NoConn /\ e.bound = NoConn
      /\ e.tunnel # NoTunnel /\ (e.session => e.tunnel = NoTunnel /\ e.connId # NoConn)
      /\ e.status \in {"reconnecting", "active"}
  BY <1>1 DEF EntryOK, Entry
<1>3. /\ EntryOK(r) /\ Follows(r, e) /\ r.bound = NoConn /\ r.on = NoConn
      /\ r.connId = e.connId
      /\ r.run # "none" => saved[r.tunnel].exists
                           /\ IF r.autostart THEN saved[r.tunnel].autoStart
                                             ELSE saved[r.tunnel].autoReconnect
  <2>1. FALSE \in BOOLEAN
    OBVIOUS
  <2> HIDE DEF e
  <2> QED BY <1>1, <1>2, <2>1, DialingOK
<1>4. /\ fwd' = [fwd EXCEPT ![f] = r] /\ UNCHANGED <<leases, saved, term, refusedOn>>
  BY DEF TimerFires
<1> HIDE DEF r
<1>5. fwd'[f] = r
  BY <1>1, <1>4 DEF FwdTypeOK
<1>6. DialWanted(f)'
  BY <1>3, <1>4, <1>5 DEF DialWanted
<1>7. /\ LeasesTyped' /\ Ages /\ UNCHANGED <<phase, users>>
      /\ \A h \in Holders \ {f} : Keeps(h) /\ Undisturbed(h)
  BY <1>1, <1>4, SameLeases DEF leases
<1>8. Owned(f)'
  BY <1>1, <1>2, <1>3, <1>5, <1>7 DEF Owned
<1> QED BY <1>3, <1>4, <1>6, <1>7, <1>8, OneEntryStep

LEMMA AssignTunnelStep ==
  ASSUME ForwardInv, NEW f \in Fwd, NEW t \in Tunnel, AssignTunnel(f, t)
  PROVE  ForwardInv'
<1> DEFINE e == fwd[f]
           r == [e EXCEPT !.tunnel = t, !.session = FALSE]
<1>1. /\ FwdTypeOK /\ LeasesTyped /\ EntryOK(e) /\ Owned(f) /\ e.listed /\ e.status = "active"
  BY InvParts DEF AssignTunnel, Listed
<1>2. fwd' = [fwd EXCEPT ![f] = r] /\ UNCHANGED <<leases, saved, term, refusedOn>>
  <2>1. fwd' = [fwd EXCEPT ![f].tunnel = t, ![f].session = FALSE]
    BY DEF AssignTunnel
  <2>2. fwd' = [fwd EXCEPT ![f] = r]
    BY <1>1, <2>1 DEF FwdTypeOK
  <2> QED BY <2>2 DEF AssignTunnel
<1>3. /\ r \in Entry /\ r.run = e.run /\ r.on = e.on /\ r.connId = e.connId
      /\ r.bound = e.bound /\ r.config = e.config /\ ~r.session
      /\ r.tunnel = t /\ r.cancelled = e.cancelled /\ r.listed = e.listed
      /\ r.timer = e.timer /\ r.status = e.status /\ r.autostart = e.autostart
  BY <1>1 DEF EntryOK, Entry
<1> HIDE DEF r
<1>4. EntryOK(r)
  BY <1>1, <1>3, ForwardAssumption DEF EntryOK
<1>5. Follows(r, e)
  BY <1>3 DEF Follows
<1>6. fwd'[f] = r
  BY <1>1, <1>2 DEF FwdTypeOK
<1>7. DialWanted(f)'
  BY <1>1, <1>3, <1>6 DEF DialWanted
<1>8. /\ LeasesTyped' /\ Ages /\ UNCHANGED <<phase, users>>
      /\ \A h \in Holders \ {f} : Keeps(h) /\ Undisturbed(h)
  BY <1>1, <1>2, SameLeases DEF leases
<1>9. Owned(f)'
  BY <1>1, <1>3, <1>6, <1>8 DEF Owned
<1> QED BY <1>2, <1>4, <1>5, <1>7, <1>8, <1>9, OneEntryStep

LEMMA ConnectsStep ==
  ASSUME ForwardInv, NEW f \in Fwd, Connects(f)
  PROVE  ForwardInv'
<1> DEFINE e == fwd[f]
<1>1. /\ FwdTypeOK /\ LeasesTyped /\ EntryOK(e) /\ Owned(f) /\ DialWanted(f)
      /\ e.run = "connect" /\ f \in Holders
      /\ \A c \in Conn : phase[c] = "unborn" => users[c] = {}
  BY InvParts DEF Connects, Holders
<1>2. /\ e \in Entry /\ e.status # "none" /\ e.on = NoConn /\ e.bound = NoConn /\ ~e.timer
      /\ e.connId \in Conn \union {NoConn}
      /\ UNCHANGED <<saved, term, refusedOn>>
  BY <1>1, ListedEntry DEF EntryOK, Entry, Connects
<1>3. CASE Live(e)
  <2>1. PICK c \in Conn : /\ Leases!Open(f, c) \/ Leases!Join(f, c)
                         /\ fwd' = [fwd EXCEPT ![f].run = "bind", ![f].on = c]
    BY <1>3 DEF Connects
  <2> DEFINE r == [e EXCEPT !.run = "bind", !.on = c]
  <2>2. fwd' = [fwd EXCEPT ![f] = r]
    BY <1>1, <2>1 DEF FwdTypeOK
  <2>3. /\ r \in Entry /\ r.run = "bind" /\ r.on = c /\ r.connId = e.connId
        /\ r.bound = e.bound /\ r.config = e.config /\ r.session = e.session
        /\ r.tunnel = e.tunnel /\ r.cancelled = e.cancelled /\ r.listed = e.listed
        /\ r.timer = e.timer /\ r.status = e.status /\ r.autostart = e.autostart
    BY <1>2 DEF Entry
  <2> HIDE DEF r
  <2>4. EntryOK(r)
    BY <1>1, <1>2, <2>3, ForwardAssumption DEF EntryOK
  <2>5. Follows(r, e)
    BY <2>3 DEF Follows
  <2>6. fwd'[f] = r
    BY <1>1, <2>2 DEF FwdTypeOK
  <2>7. DialWanted(f)'
    BY <1>1, <1>2, <2>3, <2>6 DEF DialWanted, Live
  <2>8. /\ LeasesTyped' /\ Ages /\ phase'[c] = "up"
        /\ \A h \in Holders \ {f} : Keeps(h) /\ Undisturbed(h)
        /\ \A d \in Conn : f \in users'[d] <=> d = c
    BY <1>1, <2>1, LeaseFacts
  <2>9. Owned(f)'
    BY <1>1, <1>2, <2>3, <2>6, <2>8 DEF Owned, Ages
  <2> QED BY <1>2, <2>2, <2>4, <2>5, <2>7, <2>8, <2>9, OneEntryStep
<1>4. CASE ~Live(e)
  <2> DEFINE u == [e EXCEPT !.run = "none", !.on = NoConn]
  <2>1. fwd' = [fwd EXCEPT ![f] = u]
    <3>1. fwd' = [fwd EXCEPT ![f] = [e EXCEPT !.run = "none"]]
      BY <1>1, <1>4 DEF Connects, FwdTypeOK
    <3>2. u = [e EXCEPT !.run = "none"]
      BY <1>2 DEF Entry
    <3> QED BY <3>1, <3>2
  <2>2. ~Live(u)
    BY <1>2, <1>4 DEF Live, Entry
  <2>3. NotUp(e, u)
    BY <1>1, <2>2 DEF NotUp, Ended
  <2> HIDE DEF u
  <2>4. /\ EntryOK(u) /\ Follows(u, e) /\ u.run = "none" /\ u.on = NoConn
        /\ u.bound = NoConn /\ u.connId = e.connId
    BY <1>1, <2>3, NotUpOK
  <2>5. fwd'[f] = u
    BY <1>1, <2>1 DEF FwdTypeOK
  <2>6. DialWanted(f)'
    BY <2>4, <2>5 DEF DialWanted
  <2>7. /\ LeasesTyped' /\ Ages /\ users' = users
        /\ \A h \in Holders : Keeps(h) /\ Undisturbed(h)
    <3>1. CASE UNCHANGED leases
      BY <1>1, <3>1, SameLeases DEF leases
    <3>2. ASSUME NEW c \in Conn, phase[c] = "unborn", phase' = [phase EXCEPT ![c] = "down"],
                 users' = users
          PROVE  /\ LeasesTyped' /\ Ages /\ users' = users
                 /\ \A h \in Holders : Keeps(h) /\ Undisturbed(h)
      BY <1>1, <3>2 DEF LeasesTyped, Ages, Keeps, Undisturbed
    <3> QED BY <1>4, <3>1, <3>2 DEF Connects
  <2>8. Owned(f)'
    BY <1>1, <1>2, <2>4, <2>5, <2>7 DEF Owned, Ages
  <2> QED BY <1>2, <2>1, <2>4, <2>6, <2>7, <2>8, OneEntryStep
<1> QED BY <1>3, <1>4

\* An entry under a step that discards those of S.
LEMMA DiscardOne ==
  ASSUME ForwardInv, NEW S \in SUBSET Listed, NEW f \in Fwd, Ages,
         fwd'[f] = IF f \in S THEN Discarded(fwd[f]) ELSE fwd[f],
         f \notin Bound(S) => Keeps(f) /\ Undisturbed(f),
         f \in Bound(S) => Leaves(f)
  PROVE  /\ EntryOK(fwd'[f]) /\ Owned(f)' /\ Follows(fwd'[f], fwd[f])
         /\ f \in S => ~fwd'[f].listed
         /\ saved' = saved => DialWanted(f)'
<1>1. EntryOK(fwd[f]) /\ Owned(f) /\ DialWanted(f)
  BY InvParts
<1>2. CASE f \in S
  <2>1. fwd[f].listed /\ fwd'[f] = Discarded(fwd[f])
    BY <1>2 DEF Listed
  <2>2. /\ EntryOK(fwd'[f]) /\ Follows(fwd'[f], fwd[f]) /\ ~fwd'[f].listed
    BY <1>1, <2>1, DiscardedOK
  <2>3. /\ fwd[f].bound = NoConn => Keeps(f)
        /\ fwd[f].bound # NoConn => Leaves(f)
    BY <1>2 DEF Bound
  <2>4. Owned(f)'
    BY <1>1, <2>1, <2>3, DiscardedOwned
  <2>5. DialWanted(f)'
    BY <2>2 DEF DialWanted, Live
  <2> QED BY <2>2, <2>4, <2>5
<1>3. CASE f \notin S
  <2>1. fwd'[f] = fwd[f] /\ Keeps(f) /\ Undisturbed(f)
    BY <1>3 DEF Bound
  <2>2. fwd[f].bound # NoConn => phase'[fwd[f].bound] = "up"
    BY <1>1, <2>1 DEF Owned, Undisturbed, EntryOK, Entry
  <2>3. Owned(f)'
    BY <1>1, <2>1, <2>2, SameOwned
  <2>4. saved' = saved => DialWanted(f)'
    BY <1>1, <2>1, SameWish
  <2>5. Follows(fwd'[f], fwd[f])
    BY <2>1 DEF Follows
  <2> QED BY <1>1, <1>3, <2>1, <2>3, <2>4, <2>5
<1> QED BY <1>2, <1>3

LEMMA DiscardStep ==
  ASSUME ForwardInv, NEW S \in SUBSET Listed, NEW T, T \cap Fwd = Bound(S),
         fwd' = WithDiscarded(S), Release(T)
  PROVE  /\ LeasesTyped' /\ Ages /\ fwd' = [f \in Fwd |-> fwd'[f]]
         /\ \A f \in Fwd : EntryOK(fwd'[f]) /\ Owned(f)' /\ Follows(fwd'[f], fwd[f])
         /\ \A f \in Fwd : saved' = saved => DialWanted(f)'
         /\ \A f \in S : ~fwd'[f].listed
         /\ \A f \in Fwd \ S : fwd'[f] = fwd[f]
         /\ \A s \in Terminal \ T : Keeps(s)
         /\ \A s \in Terminal \cap T : Leaves(s)
<1>1. /\ LeasesTyped' /\ Ages
      /\ \A h \in Holders \ T : Keeps(h) /\ Undisturbed(h)
      /\ \A h \in T : Leaves(h)
  BY InvParts, ReleaseFacts
<1>2. /\ \A f \in Fwd : fwd'[f] = IF f \in S THEN Discarded(fwd[f]) ELSE fwd[f]
      /\ fwd' = [f \in Fwd |-> fwd'[f]]
  BY DEF WithDiscarded
<1>3. ASSUME NEW f \in Fwd
      PROVE  /\ EntryOK(fwd'[f]) /\ Owned(f)' /\ Follows(fwd'[f], fwd[f])
             /\ saved' = saved => DialWanted(f)'
             /\ f \in S => ~fwd'[f].listed
  <2>1. /\ f \notin Bound(S) => Keeps(f) /\ Undisturbed(f)
        /\ f \in Bound(S) => Leaves(f)
    BY <1>1 DEF Holders
  <2>2. fwd'[f] = IF f \in S THEN Discarded(fwd[f]) ELSE fwd[f]
    BY <1>2
  <2> QED BY <1>1, <2>1, <2>2, DiscardOne
<1>4. S \subseteq Fwd
  BY DEF Listed
<1> QED BY <1>1, <1>2, <1>3, <1>4 DEF Holders

LEMMA StopStep ==
  ASSUME ForwardInv, NEW f \in Fwd, Stop(f)
  PROVE  ForwardInv'
<1>1. /\ {f} \in SUBSET Listed /\ Bound({f}) \cap Fwd = Bound({f})
      /\ Bound({f}) \cap Terminal = {}
      /\ fwd' = WithDiscarded({f}) /\ Release(Bound({f})) /\ UNCHANGED <<saved, term, refusedOn>>
  BY ForwardAssumption DEF Stop, Bound
<1>2. /\ LeasesTyped' /\ Ages /\ fwd' = [g \in Fwd |-> fwd'[g]]
      /\ \A g \in Fwd : EntryOK(fwd'[g]) /\ Owned(g)' /\ Follows(fwd'[g], fwd[g])
      /\ \A g \in Fwd : saved' = saved => DialWanted(g)'
      /\ \A s \in Terminal \ Bound({f}) : Keeps(s)
  BY <1>1, DiscardStep
<1>3. FwdTypeOK /\ \A s \in Terminal : Seated(s)
  BY InvParts
<1>4. \A s \in Terminal : Keeps(s)
  BY <1>1, <1>2
<1>5. \A s \in Terminal : Seated(s)'
  BY <1>1, <1>2, <1>3, <1>4, SameSeat
<1>6. OneConfigForward' /\ ConfigForwardsEnd'
  BY <1>1, <1>2, <1>4, ConfigsFollow DEF Keeps
<1>7. saved' \in [Tunnel -> Saved]
      /\ term' \in [Terminal -> [state : {"none", "opening", "closing", "open"},
                                  conn : Conn \union {NoConn}]]
  BY <1>1, <1>3 DEF FwdTypeOK
<1> QED BY <1>1, <1>2, <1>3, <1>5, <1>6, <1>7, NextInv

LEMMA SaveTunnelStep ==
  ASSUME ForwardInv, NEW t \in Tunnel, NEW tunnel \in Saved, SaveTunnel(t, tunnel)
  PROVE  ForwardInv'
<1> DEFINE S == {f \in Pending(t) : ~Wanted(fwd[f], tunnel)}
<1>1. /\ S \in SUBSET Listed /\ Bound(S) \cap Fwd = Bound(S) /\ Bound(S) \cap Terminal = {}
      /\ fwd' = WithDiscarded(S) /\ Release(Bound(S)) /\ UNCHANGED <<term, refusedOn>>
      /\ saved' = [saved EXCEPT ![t] = tunnel]
  BY ForwardAssumption DEF SaveTunnel, Bound, Pending, Listed
<1>2. /\ LeasesTyped' /\ Ages /\ fwd' = [g \in Fwd |-> fwd'[g]]
      /\ \A g \in Fwd : EntryOK(fwd'[g]) /\ Owned(g)' /\ Follows(fwd'[g], fwd[g])
      /\ \A g \in S : ~fwd'[g].listed
      /\ \A g \in Fwd \ S : fwd'[g] = fwd[g]
      /\ \A s \in Terminal \ Bound(S) : Keeps(s)
  <2> HIDE DEF S
  <2> QED BY <1>1, DiscardStep
<1>3. /\ FwdTypeOK /\ \A s \in Terminal : Seated(s)
      /\ \A g \in Fwd : EntryOK(fwd[g]) /\ DialWanted(g)
  BY InvParts
<1>4. \A s \in Terminal : Keeps(s)
  BY <1>1, <1>2
<1>5. \A s \in Terminal : Seated(s)'
  BY <1>1, <1>2, <1>3, <1>4, SameSeat
<1>6. OneConfigForward' /\ ConfigForwardsEnd'
  BY <1>1, <1>2, <1>4, ConfigsFollow DEF Keeps
<1>7. saved' \in [Tunnel -> Saved]
      /\ term' \in [Terminal -> [state : {"none", "opening", "closing", "open"},
                                  conn : Conn \union {NoConn}]]
  BY <1>1, <1>3 DEF FwdTypeOK
<1>8. ASSUME NEW g \in Fwd
      PROVE  DialWanted(g)'
  <2>1. CASE g \in S
    BY <1>2, <2>1 DEF DialWanted, Live
  <2>2. CASE g \notin S
    <3>1. fwd'[g] = fwd[g]
      BY <1>2, <2>2
    <3>2. CASE fwd[g].tunnel # t
      <4>1. saved'[fwd[g].tunnel] = saved[fwd[g].tunnel] \/ fwd[g].tunnel \notin Tunnel
        BY <1>1, <1>3, <3>2 DEF FwdTypeOK
      <4>2. fwd[g].run \in {"connect", "bind"} => fwd[g].tunnel \in Tunnel
        BY <1>3 DEF EntryOK, Entry
      <4> QED BY <1>3, <3>1, <4>1, <4>2 DEF DialWanted, Live
    <3>3. CASE fwd[g].tunnel = t
      <4>1. saved'[t] = tunnel
        BY <1>1, <1>3 DEF FwdTypeOK
      <4>2. SUFFICES ASSUME Live(fwd[g]), fwd[g].run \in {"connect", "bind"},
                            fwd[g].status # "active"
                     PROVE  tunnel.exists /\ IF fwd[g].autostart THEN tunnel.autoStart
                                                                 ELSE tunnel.autoReconnect
        BY <3>1, <3>3, <4>1 DEF DialWanted, Live
      <4>3. /\ fwd[g].status \in {"starting", "reconnecting"}
            /\ fwd[g].autostart <=> fwd[g].status = "starting"
        BY <1>3, <4>2 DEF EntryOK
      <4>4. Wanted(fwd[g], tunnel)
        BY <2>2, <3>3, <4>2, ForwardAssumption DEF Pending, Listed, Live
      <4> QED BY <4>3, <4>4 DEF Wanted
    <3> QED BY <3>2, <3>3
  <2> QED BY <2>1, <2>2
<1> QED BY <1>1, <1>2, <1>3, <1>5, <1>6, <1>7, <1>8, NextInv

LEMMA StartStep ==
  ASSUME ForwardInv, NEW f \in Fwd, NEW c \in Conn, NEW t \in Tunnel \union {NoTunnel},
         NEW session \in BOOLEAN, Start(f, c, t, session)
  PROVE  ForwardInv'
<1> DEFINE P == Pending(t)
           r == Started(c, t, session, FALSE)
<1>1. /\ P \in SUBSET Listed /\ f \in Unused /\ (session => t = NoTunnel)
      /\ PhaseWithout(Bound(P))[c] = "up"
      /\ users' = [UsersWithout(Bound(P)) EXCEPT ![c] = @ \union {f}]
      /\ phase' = PhaseWithout(Bound(P))
      /\ fwd' = [WithDiscarded(P) EXCEPT ![f] = r]
      /\ UNCHANGED <<saved, term, refusedOn>>
  BY DEF Start, Pending
<1>2. /\ FwdTypeOK /\ LeasesTyped /\ \A s \in Terminal : Seated(s)
      /\ \A g \in Fwd : EntryOK(fwd[g]) /\ Owned(g)
      /\ \A d \in Conn : phase[d] = "unborn" => users[d] = {}
  BY InvParts
<1> HIDE DEF P
<1>3. /\ fwd[f] = NoEntry /\ f \notin P
      /\ fwd[f].bound = NoConn /\ fwd[f].on = NoConn
  <2>1. fwd[f] = NoEntry
    BY <1>1, <1>2 DEF Unused, EntryOK
  <2>2. fwd[f].listed = FALSE /\ fwd[f].bound = NoConn /\ fwd[f].on = NoConn
    BY <2>1 DEF NoEntry
  <2> QED BY <1>1, <2>1, <2>2 DEF Listed
<1>4. \A d \in Conn : f \notin users[d]
  BY <1>2, <1>3, ForwardAssumption DEF Owned
<1>5. /\ EntryOK(r) /\ r.on = c /\ r.bound = NoConn /\ r.connId = c /\ r.run = "start"
      /\ ~r.config
  <2>1. FALSE \in BOOLEAN /\ (FALSE => session)
    OBVIOUS
  <2>2. /\ EntryOK(r) /\ r.on = c /\ r.bound = NoConn /\ r.connId = c /\ r.run = "start"
        /\ r.config => FALSE
    BY <1>1, <2>1, StartedOK, ZenonT(40)
  <2> QED BY <2>2
<1> HIDE DEF r
<1>6. /\ \A g \in Fwd \ {f} : fwd'[g] = IF g \in P THEN Discarded(fwd[g]) ELSE fwd[g]
      /\ fwd'[f] = r /\ fwd' = [g \in Fwd |-> fwd'[g]]
  BY <1>1 DEF WithDiscarded
<1>7. Bound(P) \subseteq Fwd /\ f \notin Bound(P)
  BY <1>1, <1>3 DEF Bound, Listed
<1>8. /\ \A d \in Conn : users'[d] = IF d = c THEN (users[d] \ Bound(P)) \union {f}
                                              ELSE users[d] \ Bound(P)
      /\ \A d \in Conn : phase'[d] = IF users[d] # {} /\ users[d] \subseteq Bound(P)
                                        THEN "down" ELSE phase[d]
      /\ phase'[c] = "up"
  BY <1>1 DEF UsersWithout, PhaseWithout
<1>9. LeasesTyped'
  <2>1. phase' \in [Conn -> {"unborn", "up", "down"}]
    BY <1>1, <1>2 DEF PhaseWithout, LeasesTyped
  <2>2. users' \in [Conn -> SUBSET Holders]
    <3>1. DOMAIN users' = Conn /\ users' = [d \in Conn |-> users'[d]]
      BY <1>1 DEF UsersWithout
    <3>2. \A d \in Conn : users'[d] \in SUBSET Holders
      BY <1>2, <1>8, ZenonT(40) DEF LeasesTyped, Holders
    <3> QED BY <3>1, <3>2
  <2> QED BY <2>1, <2>2 DEF LeasesTyped
<1>10. Ages
  BY <1>8 DEF Ages
<1>11. /\ \A h \in Holders \ {f} : h \notin Bound(P) => Keeps(h) /\ Undisturbed(h)
       /\ \A h \in Holders \ {f} : h \in Bound(P) => Leaves(h)
       /\ \A d \in Conn : f \in users'[d] <=> d = c
  BY <1>4, <1>7, <1>8 DEF Keeps, Undisturbed, Leaves
<1>12. ASSUME NEW g \in Fwd
       PROVE  EntryOK(fwd'[g]) /\ Owned(g)' /\ Follows(fwd'[g], fwd[g]) /\ DialWanted(g)'
  <2>1. CASE g = f
    <3>1. Owned(f)'
      BY <1>5, <1>6, <1>8, <1>11 DEF Owned
    <3>2. DialWanted(f)'
      BY <1>5, <1>6 DEF DialWanted
    <3>3. Follows(fwd'[f], fwd[f])
      BY <1>5, <1>6 DEF Follows
    <3> QED BY <1>5, <1>6, <2>1, <3>1, <3>2, <3>3
  <2>2. CASE g # f
    <3>1. /\ fwd'[g] = IF g \in P THEN Discarded(fwd[g]) ELSE fwd[g]
          /\ g \notin Bound(P) => Keeps(g) /\ Undisturbed(g)
          /\ g \in Bound(P) => Leaves(g)
      BY <1>6, <1>11, <2>2 DEF Holders
    <3> QED BY <1>1, <1>10, <3>1, DiscardOne
  <2> QED BY <2>1, <2>2
<1>13. \A s \in Terminal : Keeps(s)
  BY <1>7, <1>11, ForwardAssumption DEF Holders
<1>14. \A s \in Terminal : Seated(s)'
  BY <1>1, <1>2, <1>10, <1>13, SameSeat
<1>15. OneConfigForward' /\ ConfigForwardsEnd'
  BY <1>1, <1>10, <1>12, <1>13, ConfigsFollow DEF Keeps
<1>16. saved' \in [Tunnel -> Saved]
       /\ term' \in [Terminal -> [state : {"none", "opening", "closing", "open"},
                                   conn : Conn \union {NoConn}]]
  BY <1>1, <1>2 DEF FwdTypeOK
<1> QED BY <1>2, <1>6, <1>9, <1>12, <1>14, <1>15, <1>16, NextInv

\* The last terminal on a transport takes the ssh_config forwards with it.
LEMMA ReleaseSessionStep ==
  ASSUME ForwardInv, NEW s \in Terminal, ReleaseSession(s), UNCHANGED <<saved, refusedOn>>
  PROVE  ForwardInv'
<1> DEFINE c == term[s].conn
           last == users[c] \cap Terminal \subseteq {s}
           S == IF last THEN SessionForwards(c) ELSE {}
           T == {s} \union Bound(S)
<1>1. /\ S \in SUBSET Listed /\ fwd' = WithDiscarded(S) /\ Release(T)
      /\ term' = [term EXCEPT ![s] = [state |-> "none", conn |-> NoConn]]
  BY DEF ReleaseSession, SessionForwards
<1>2. /\ FwdTypeOK /\ LeasesTyped /\ \A q \in Terminal : Seated(q)
      /\ \A g \in Fwd : EntryOK(fwd[g]) /\ Owned(g)
  BY InvParts
<1>3. last => S = SessionForwards(c)
  OBVIOUS
<1> HIDE DEF S
<1>4. T \cap Fwd = Bound(S) /\ T \cap Terminal = {s}
  BY <1>1, ForwardAssumption DEF Bound, Listed
<1> HIDE DEF T
<1>5. /\ LeasesTyped' /\ Ages /\ fwd' = [g \in Fwd |-> fwd'[g]]
      /\ \A g \in Fwd : EntryOK(fwd'[g]) /\ Owned(g)' /\ Follows(fwd'[g], fwd[g])
      /\ \A g \in Fwd : saved' = saved => DialWanted(g)'
      /\ \A g \in S : ~fwd'[g].listed
      /\ \A q \in Terminal \ T : Keeps(q)
      /\ \A q \in Terminal \cap T : Leaves(q)
  BY <1>1, <1>4, DiscardStep
<1>6. \A q \in Terminal \ {s} : Keeps(q)
  BY <1>4, <1>5
<1>7. Leaves(s)
  BY <1>4, <1>5
<1>8. \A q \in Terminal : Seated(q)'
  <2>1. Seated(s)'
    <3>1. term'[s].state = "none" /\ term'[s].conn = NoConn
      BY <1>1, <1>2 DEF FwdTypeOK
    <3> QED BY <1>7, <3>1 DEF Seated, Leaves
  <2>2. \A q \in Terminal \ {s} : term'[q] = term[q]
    BY <1>1, <1>2 DEF FwdTypeOK
  <2> QED BY <1>2, <1>5, <1>6, <2>1, <2>2, SameSeat
<1>9. OneConfigForward'
  BY <1>5 DEF ForwardInv, OneConfigForward, Listed, Follows
<1>10. ASSUME NEW g \in Fwd, Orphaned(g)'
       PROVE  fwd'[g].connId \in refusedOn
  <2> DEFINE d == fwd[g].connId
  <2>1. /\ fwd[g].listed /\ fwd[g].config /\ fwd[g].session /\ fwd'[g].connId = d
        /\ phase'[d] = "up" /\ users'[d] \cap Terminal = {} /\ fwd'[g].listed
    BY <1>5, <1>10 DEF Orphaned, Follows
  <2>2. d \in Conn /\ phase[d] # "unborn"
    BY <1>2, <2>1 DEF EntryOK, Entry, Owned
  <2>3. phase[d] = "up"
    BY <1>5, <2>1, <2>2 DEF Ages
  <2>4. users[d] \cap Terminal \subseteq {s}
    BY <1>6, <2>1, <2>2 DEF Keeps
  <2>5. s \notin users[d]
    <3>1. SUFFICES ASSUME s \in users[d]
                   PROVE  FALSE
      OBVIOUS
    <3>2. d = c
      BY <1>2, <2>2, <3>1 DEF Seated
    <3>3. g \in SessionForwards(c)
      BY <2>1, <3>2 DEF SessionForwards, Listed
    <3>4. last
      BY <2>4, <3>2
    <3> QED BY <1>3, <1>5, <2>1, <3>3, <3>4
  <2>6. Orphaned(g)
    BY <2>1, <2>3, <2>4, <2>5 DEF Orphaned
  <2> QED BY <2>1, <2>6 DEF ForwardInv, ConfigForwardsEnd
<1>11. ConfigForwardsEnd'
  BY <1>10 DEF ConfigForwardsEnd
<1>12. saved' \in [Tunnel -> Saved]
       /\ term' \in [Terminal -> [state : {"none", "opening", "closing", "open"},
                                   conn : Conn \union {NoConn}]]
  BY <1>1, <1>2 DEF FwdTypeOK
<1> QED BY <1>2, <1>5, <1>8, <1>9, <1>11, <1>12, NextInv

LEMMA TabClosesStep ==
  ASSUME ForwardInv, NEW s \in Terminal, TabCloses(s)
  PROVE  ForwardInv'
<1>1. UNCHANGED <<saved, refusedOn>>
  BY DEF TabCloses
<1>2. CASE term[s].state = "open" /\ ReleaseSession(s)
  BY <1>1, <1>2, ReleaseSessionStep
<1>3. CASE /\ term[s].state = "opening"
           /\ term' = [term EXCEPT ![s].state = "closing"]
           /\ UNCHANGED <<leases, fwd>>
  <2>1. /\ FwdTypeOK /\ LeasesTyped
        /\ \A f \in Fwd : EntryOK(fwd[f]) /\ Owned(f) /\ DialWanted(f)
        /\ \A q \in Terminal : Seated(q)
    BY InvParts
  <2>2. UNCHANGED <<phase, users, fwd, saved, refusedOn>>
    BY <1>1, <1>3 DEF leases
  <2>3. /\ LeasesTyped' /\ fwd' = [f \in Fwd |-> fwd'[f]]
        /\ saved' \in [Tunnel -> Saved]
    BY <2>1, <2>2 DEF LeasesTyped, FwdTypeOK
  <2>4. term' \in [Terminal -> [state : {"none", "opening", "closing", "open"},
                                conn : Conn \union {NoConn}]]
    BY <1>3, <2>1 DEF FwdTypeOK
  <2>5. \A f \in Fwd : EntryOK(fwd'[f]) /\ Owned(f)' /\ DialWanted(f)'
    BY <2>1, <2>2 DEF Owned, DialWanted, Live
  <2>6. ASSUME NEW q \in Terminal
        PROVE  Seated(q)'
    <3>1. /\ term'[q].conn = term[q].conn
          /\ term'[q].state = IF q = s THEN "closing" ELSE term[q].state
      BY <1>3, <2>1 DEF FwdTypeOK
    <3> QED BY <1>3, <2>1, <2>2, <3>1 DEF Seated
  <2>7. OneConfigForward' /\ ConfigForwardsEnd'
    BY <2>2 DEF ForwardInv, OneConfigForward, ConfigForwardsEnd, Orphaned, Listed
  <2> QED BY <2>1, <2>3, <2>4, <2>5, <2>6, <2>7, NextInv
<1> QED BY <1>2, <1>3 DEF TabCloses

LEMMA ShellOpensStep ==
  ASSUME ForwardInv, NEW s \in Terminal, ShellOpens(s)
  PROVE  ForwardInv'
<1> DEFINE c == term[s].conn
<1>1. /\ FwdTypeOK /\ LeasesTyped
      /\ \A f \in Fwd : EntryOK(fwd[f]) /\ Owned(f) /\ DialWanted(f)
      /\ \A f \in Fwd : Follows(fwd[f], fwd[f])
      /\ \A q \in Terminal : Seated(q)
      /\ \A d \in Conn : phase[d] = "unborn" => users[d] = {}
  BY InvParts
<1>2. UNCHANGED <<saved, refusedOn>>
  BY DEF ShellOpens
<1>3. CASE term[s].state = "closing"
  BY <1>2, <1>3, ReleaseSessionStep DEF ShellOpens
<1>4. CASE term[s].state # "closing"
  <2>1. term[s].state = "opening" /\ phase[c] = "up"
        /\ term' = [term EXCEPT ![s].state = "open"]
    BY <1>4 DEF ShellOpens
  <2>2. c \in Conn /\ s \in users[c]
    BY <1>1, <2>1 DEF Seated, FwdTypeOK
  <2>3. term' \in [Terminal -> [state : {"none", "opening", "closing", "open"},
                                conn : Conn \union {NoConn}]]
    BY <1>1, <2>1 DEF FwdTypeOK
  <2>4. \A q \in Terminal : /\ term'[q].conn = term[q].conn
                            /\ term'[q].state = "none" <=> term[q].state = "none"
    BY <1>1, <2>1 DEF FwdTypeOK
  <2>5. saved' \in [Tunnel -> Saved]
    BY <1>1, <1>2 DEF FwdTypeOK
  <2>6. CASE UNCHANGED <<leases, fwd>>
    <3>1. UNCHANGED <<phase, users, fwd, saved, refusedOn>>
      BY <1>2, <2>6 DEF leases
    <3>2. LeasesTyped' /\ fwd' = [f \in Fwd |-> fwd'[f]]
      BY <1>1, <3>1 DEF LeasesTyped, FwdTypeOK
    <3>3. \A f \in Fwd : EntryOK(fwd'[f]) /\ Owned(f)' /\ DialWanted(f)'
      BY <1>1, <3>1 DEF Owned, DialWanted, Live
    <3>4. \A q \in Terminal : Seated(q)'
      BY <1>1, <2>4, <3>1 DEF Seated
    <3>5. OneConfigForward' /\ ConfigForwardsEnd'
      BY <3>1 DEF ForwardInv, OneConfigForward, ConfigForwardsEnd, Orphaned, Listed
    <3> QED BY <1>1, <2>3, <2>5, <3>2, <3>3, <3>4, <3>5, NextInv
  <2>7. ASSUME ConfigForward(c) = {},
               NEW x \in Unused, fwd' = [fwd EXCEPT ![x] = Started(c, NoTunnel, TRUE, TRUE)],
               Leases!Join(x, c)
        PROVE  ForwardInv'
    <3> DEFINE r == Started(c, NoTunnel, TRUE, TRUE)
    <3>1. /\ x \in Fwd /\ x \in Holders /\ fwd[x] = NoEntry
      BY <1>1, <2>7 DEF Unused, EntryOK, Holders
    <3>2. fwd[x].bound = NoConn /\ fwd[x].on = NoConn
      BY <3>1 DEF NoEntry
    <3>3. /\ EntryOK(r) /\ r.on = c /\ r.bound = NoConn /\ r.connId = c /\ r.run = "start"
      <4>1. TRUE \in BOOLEAN /\ NoTunnel \in Tunnel \union {NoTunnel}
        OBVIOUS
      <4> QED BY <2>2, <4>1, StartedOK, Zenon
    <3>4. fwd' = [fwd EXCEPT ![x] = r]
      BY <2>7
    <3> HIDE DEF r
    <3>5. /\ fwd' = [f \in Fwd |-> fwd'[f]] /\ fwd'[x] = r
          /\ \A f \in Fwd \ {x} : fwd'[f] = fwd[f]
      BY <1>1, <3>1, <3>4 DEF FwdTypeOK
    <3>6. /\ LeasesTyped' /\ Ages /\ phase'[c] = "up"
          /\ \A h \in Holders \ {x} : Keeps(h) /\ Undisturbed(h)
          /\ \A d \in Conn : x \in users'[d] <=> d = c
      BY <1>1, <2>2, <2>7, <3>1, LeaseFacts
    <3>7. ASSUME NEW f \in Fwd
          PROVE  EntryOK(fwd'[f]) /\ Owned(f)' /\ DialWanted(f)'
      <4>1. CASE f = x
        <5>1. Owned(x)'
          BY <2>2, <3>3, <3>5, <3>6 DEF Owned
        <5>2. DialWanted(x)'
          BY <3>3, <3>5 DEF DialWanted
        <5> QED BY <3>3, <3>5, <4>1, <5>1, <5>2
      <4>2. CASE f # x
        <5>1. fwd'[f] = fwd[f] /\ Keeps(f) /\ Undisturbed(f)
          BY <3>5, <3>6, <4>2 DEF Holders
        <5>2. fwd[f].bound # NoConn => phase'[fwd[f].bound] = "up"
          BY <1>1, <5>1 DEF Owned, Undisturbed, EntryOK, Entry
        <5>3. Owned(f)'
          BY <1>1, <3>6, <5>1, <5>2, SameOwned
        <5>4. DialWanted(f)'
          BY <1>1, <1>2, <5>1, SameWish
        <5> QED BY <1>1, <5>1, <5>3, <5>4
      <4> QED BY <4>1, <4>2
    <3>8. \A q \in Terminal : Keeps(q)
      BY <3>1, <3>6, ForwardAssumption DEF Holders
    <3>9. ASSUME NEW q \in Terminal
          PROVE  Seated(q)'
      <4>1. Keeps(q) /\ Seated(q) /\ term[q].conn \in Conn \union {NoConn}
        BY <1>1, <3>8 DEF FwdTypeOK
      <4> QED BY <2>4, <3>6, <4>1 DEF Seated, Ages, Keeps
    <3>10. \A f \in Fwd : fwd[f].listed /\ fwd[f].config /\ fwd[f].session => fwd[f].connId # c
      BY <2>7 DEF ConfigForward, Listed
    <3>11. OneConfigForward'
      <4>1. OneConfigForward
        BY DEF ForwardInv
      <4>2. SUFFICES ASSUME NEW f \in Fwd, NEW g \in Fwd, fwd'[f].listed, fwd'[g].listed,
                            fwd'[f].config, fwd'[f].session, fwd'[g].config, fwd'[g].session,
                            fwd'[f].connId = fwd'[g].connId
                     PROVE  f = g
        BY DEF OneConfigForward, Listed
      <4>3. CASE f = x \/ g = x
        BY <3>3, <3>5, <3>10, <4>2, <4>3
      <4>4. CASE f # x /\ g # x
        BY <3>5, <4>1, <4>2, <4>4 DEF OneConfigForward, Listed
      <4> QED BY <4>3, <4>4
    <3>12. ConfigForwardsEnd'
      <4>1. SUFFICES ASSUME NEW f \in Fwd, Orphaned(f)'
                     PROVE  fwd'[f].connId \in refusedOn
        BY <1>2 DEF ConfigForwardsEnd
      <4>2. CASE f = x
        <5>1. s \in users'[c]
          BY <2>2, <3>6, <3>8 DEF Keeps
        <5> QED BY <3>3, <3>5, <4>1, <4>2, <5>1 DEF Orphaned
      <4>3. CASE f # x
        <5>1. fwd'[f] = fwd[f]
          BY <3>5, <4>3
        <5>2. /\ fwd[f].listed /\ fwd[f].config /\ fwd[f].session
              /\ phase'[fwd[f].connId] = "up" /\ users'[fwd[f].connId] \cap Terminal = {}
          BY <4>1, <5>1 DEF Orphaned
        <5>3. fwd[f].connId \in Conn /\ phase[fwd[f].connId] # "unborn"
          BY <1>1, <5>2 DEF EntryOK, Entry, Owned
        <5>4. phase[fwd[f].connId] = "up" /\ users[fwd[f].connId] \cap Terminal = {}
          BY <3>6, <3>8, <5>2, <5>3 DEF Ages, Keeps
        <5>5. Orphaned(f)
          BY <5>2, <5>4 DEF Orphaned
        <5> QED BY <5>1, <5>5 DEF ForwardInv, ConfigForwardsEnd
      <4> QED BY <4>2, <4>3
    <3> QED BY <1>1, <2>3, <2>5, <3>5, <3>6, <3>7, <3>9, <3>11, <3>12, NextInv
  <2> QED BY <1>4, <2>6, <2>7 DEF ShellOpens
<1> QED BY <1>3, <1>4

\* A terminal that is refused its shell gives its lease back and nothing else.
LEMMA ShellFailsStep ==
  ASSUME ForwardInv, NEW s \in Terminal, ShellFails(s)
  PROVE  ForwardInv'
<1> DEFINE c == term[s].conn
<1>1. /\ FwdTypeOK /\ LeasesTyped
      /\ \A f \in Fwd : EntryOK(fwd[f]) /\ Owned(f) /\ DialWanted(f)
      /\ \A q \in Terminal : Seated(q)
  BY InvParts
<1>2. /\ Release({s}) /\ UNCHANGED <<fwd, saved>>
      /\ term' = [term EXCEPT ![s] = [state |-> "none", conn |-> NoConn]]
      /\ refusedOn' = refusedOn \union {c}
  BY DEF ShellFails
<1>3. /\ LeasesTyped' /\ Ages /\ Leaves(s)
      /\ \A h \in Holders \ {s} : Keeps(h) /\ Undisturbed(h)
  BY <1>1, <1>2, ReleaseFacts
<1>4. ASSUME NEW f \in Fwd
      PROVE  EntryOK(fwd'[f]) /\ Owned(f)' /\ DialWanted(f)'
  <2>1. fwd'[f] = fwd[f] /\ Keeps(f) /\ Undisturbed(f)
    BY <1>2, <1>3, ForwardAssumption DEF Holders
  <2>2. fwd[f].bound # NoConn => phase'[fwd[f].bound] = "up"
    BY <1>1, <2>1 DEF Owned, Undisturbed, EntryOK, Entry
  <2>3. Owned(f)'
    BY <1>1, <1>3, <2>1, <2>2, SameOwned
  <2>4. DialWanted(f)'
    BY <1>1, <1>2, <2>1, SameWish
  <2> QED BY <1>1, <2>1, <2>3, <2>4
<1>5. \A q \in Terminal : Seated(q)'
  <2>1. Seated(s)'
    <3>1. term'[s].state = "none" /\ term'[s].conn = NoConn
      BY <1>1, <1>2 DEF FwdTypeOK
    <3> QED BY <1>3, <3>1 DEF Seated, Leaves
  <2>2. \A q \in Terminal \ {s} : term'[q] = term[q] /\ Keeps(q)
    BY <1>1, <1>2, <1>3 DEF FwdTypeOK, Holders
  <2> QED BY <1>1, <1>3, <2>1, <2>2, SameSeat
<1>6. OneConfigForward'
  BY <1>2 DEF ForwardInv, OneConfigForward, Listed
<1>7. ConfigForwardsEnd'
  <2>1. SUFFICES ASSUME NEW f \in Fwd, Orphaned(f)'
                 PROVE  fwd[f].connId \in refusedOn \union {c}
    BY <1>2 DEF ConfigForwardsEnd
  <2> DEFINE d == fwd[f].connId
  <2>2. /\ fwd[f].listed /\ fwd[f].config /\ fwd[f].session
        /\ phase'[d] = "up" /\ users'[d] \cap Terminal = {}
    BY <1>2, <2>1 DEF Orphaned
  <2>3. d \in Conn /\ phase[d] # "unborn"
    BY <1>1, <2>2 DEF EntryOK, Entry, Owned
  <2>4. phase[d] = "up" /\ users[d] \cap Terminal \subseteq {s}
    BY <1>3, <2>2, <2>3 DEF Ages, Keeps, Holders
  <2>5. CASE s \in users[d]
    BY <1>1, <2>3, <2>5 DEF Seated
  <2>6. CASE s \notin users[d]
    <3>1. Orphaned(f)
      BY <2>2, <2>4, <2>6 DEF Orphaned
    <3> QED BY <3>1 DEF ForwardInv, ConfigForwardsEnd
  <2> QED BY <2>5, <2>6
<1>8. /\ saved' \in [Tunnel -> Saved] /\ fwd' = [f \in Fwd |-> fwd'[f]]
      /\ term' \in [Terminal -> [state : {"none", "opening", "closing", "open"},
                                  conn : Conn \union {NoConn}]]
  BY <1>1, <1>2 DEF FwdTypeOK
<1> QED BY <1>1, <1>3, <1>4, <1>5, <1>6, <1>7, <1>8, NextInv

LEMMA TerminalConnectsStep ==
  ASSUME ForwardInv, NEW s \in Terminal, NEW c \in Conn, TerminalConnects(s, c)
  PROVE  ForwardInv'
<1>1. /\ FwdTypeOK /\ LeasesTyped /\ s \in Holders
      /\ \A f \in Fwd : EntryOK(fwd[f]) /\ Owned(f) /\ DialWanted(f)
      /\ \A f \in Fwd : Follows(fwd[f], fwd[f])
      /\ \A q \in Terminal : Seated(q)
      /\ \A d \in Conn : phase[d] = "unborn" => users[d] = {}
  BY InvParts DEF Holders
<1>2. /\ UNCHANGED <<fwd, saved, refusedOn>>
      /\ term[s].state = "none" /\ term' = [term EXCEPT ![s] = [state |-> "opening", conn |-> c]]
      /\ Leases!Open(s, c) \/ Leases!Join(s, c)
  BY DEF TerminalConnects
<1>3. /\ LeasesTyped' /\ Ages /\ phase'[c] = "up"
      /\ \A h \in Holders \ {s} : Keeps(h) /\ Undisturbed(h)
      /\ \A d \in Conn : s \in users'[d] <=> d = c
  BY <1>1, <1>2, LeaseFacts
<1>4. ASSUME NEW f \in Fwd
      PROVE  /\ EntryOK(fwd'[f]) /\ Owned(f)' /\ DialWanted(f)' /\ Follows(fwd'[f], fwd[f])
  <2>1. fwd'[f] = fwd[f] /\ Keeps(f) /\ Undisturbed(f)
    BY <1>2, <1>3, ForwardAssumption DEF Holders
  <2>2. fwd[f].bound # NoConn => phase'[fwd[f].bound] = "up"
    BY <1>1, <2>1 DEF Owned, Undisturbed, EntryOK, Entry
  <2>3. Owned(f)'
    BY <1>1, <1>3, <2>1, <2>2, SameOwned
  <2>4. DialWanted(f)'
    BY <1>1, <1>2, <2>1, SameWish
  <2> QED BY <1>1, <2>1, <2>3, <2>4
<1>5. \A q \in Terminal : Seated(q)'
  <2>1. Seated(s)'
    <3>1. term'[s].state = "opening" /\ term'[s].conn = c /\ c # NoConn
      BY <1>1, <1>2, ForwardAssumption DEF FwdTypeOK
    <3> QED BY <1>3, <3>1 DEF Seated
  <2>2. \A q \in Terminal \ {s} : term'[q] = term[q] /\ Keeps(q)
    BY <1>1, <1>2, <1>3 DEF FwdTypeOK, Holders
  <2> QED BY <1>1, <1>3, <2>1, <2>2, SameSeat
<1>6. \A q \in Terminal : \A d \in Conn :
        q \in users[d] /\ phase'[d] = "up" => q \in users'[d]
  <2>1. \A d \in Conn : s \notin users[d]
    BY <1>2 DEF Leases!Open, Leases!Join, Leases!InUse
  <2> QED BY <1>3, <2>1 DEF Keeps, Holders
<1>7. OneConfigForward' /\ ConfigForwardsEnd'
  BY <1>2, <1>3, <1>4, <1>6, ConfigsFollow
<1>8. /\ saved' \in [Tunnel -> Saved] /\ fwd' = [f \in Fwd |-> fwd'[f]]
      /\ term' \in [Terminal -> [state : {"none", "opening", "closing", "open"},
                                  conn : Conn \union {NoConn}]]
  BY <1>1, <1>2 DEF FwdTypeOK
<1> QED BY <1>1, <1>3, <1>4, <1>5, <1>7, <1>8, NextInv

\* The listeners of a lost transport go, and their redials are scheduled.
LEMMA TransportClosesStep ==
  ASSUME ForwardInv, NEW c \in Conn, TransportCloses(c)
  PROVE  ForwardInv'
<1>1. /\ FwdTypeOK /\ LeasesTyped
      /\ \A f \in Fwd : EntryOK(fwd[f]) /\ Owned(f) /\ DialWanted(f)
      /\ \A q \in Terminal : Seated(q)
  BY InvParts
<1>2. /\ UNCHANGED <<saved, term, refusedOn>> /\ phase[c] = "up" /\ Leases!GoDown({c})
      /\ \A f \in Fwd : fwd'[f] = IF fwd[f].bound = c THEN Lost(fwd[f]) ELSE fwd[f]
      /\ fwd' = [f \in Fwd |-> fwd'[f]]
  BY DEF TransportCloses
<1>3. /\ LeasesTyped' /\ Ages /\ \A h \in Holders : Keeps(h)
      /\ \A d \in Conn \ {c} : phase'[d] = phase[d]
      /\ users'[c] = {}
  <2>1. {c} \in SUBSET {d \in Conn : phase[d] # "unborn"}
    BY <1>2
  <2> QED BY <1>1, <1>2, <2>1, GoDownFacts
<1>4. ASSUME NEW f \in Fwd
      PROVE  /\ EntryOK(fwd'[f]) /\ Owned(f)' /\ DialWanted(f)' /\ Follows(fwd'[f], fwd[f])
  <2>1. Keeps(f) /\ fwd[f].bound \in Conn \union {NoConn} /\ c # NoConn
    BY <1>1, <1>3, ForwardAssumption DEF Holders, EntryOK, Entry
  <2>2. CASE fwd[f].bound = c
    <3>1. fwd'[f] = Lost(fwd[f]) /\ fwd[f].listed
      BY <1>1, <1>2, <2>1, <2>2 DEF Owned
    <3>2. /\ EntryOK(fwd'[f]) /\ Follows(fwd'[f], fwd[f]) /\ fwd'[f].bound = NoConn
          /\ fwd'[f].on = NoConn /\ fwd'[f].run = "none" /\ fwd'[f].connId = fwd[f].connId
      BY <1>1, <2>1, <2>2, <3>1, LostOK
    <3>3. fwd[f].on = NoConn /\ fwd[f].connId \in Conn \union {NoConn}
      BY <1>1, <2>1, <2>2 DEF EntryOK, Entry
    <3>4. \A d \in Conn : f \notin users'[d]
      BY <1>1, <1>3, <2>1, <2>2, <3>3, ForwardAssumption DEF Keeps, Owned
    <3>5. Owned(f)'
      BY <1>1, <1>3, <3>2, <3>3, <3>4 DEF Owned, Ages
    <3>6. DialWanted(f)'
      BY <3>2 DEF DialWanted
    <3> QED BY <3>2, <3>5, <3>6
  <2>3. CASE fwd[f].bound # c
    <3>1. fwd'[f] = fwd[f]
      BY <1>2, <2>3
    <3>2. fwd[f].bound # NoConn => phase'[fwd[f].bound] = "up"
      BY <1>1, <1>3, <2>1, <2>3 DEF Owned
    <3>3. Owned(f)'
      BY <1>1, <1>3, <2>1, <3>1, <3>2, SameOwned
    <3>4. DialWanted(f)'
      BY <1>1, <1>2, <3>1, SameWish
    <3>5. Follows(fwd'[f], fwd[f])
      BY <3>1 DEF Follows
    <3> QED BY <1>1, <3>1, <3>3, <3>4, <3>5
  <2> QED BY <2>2, <2>3
<1>5. \A q \in Terminal : Keeps(q)
  BY <1>3 DEF Holders
<1>6. \A q \in Terminal : Seated(q)'
  BY <1>1, <1>2, <1>3, <1>5, SameSeat
<1>7. OneConfigForward' /\ ConfigForwardsEnd'
  BY <1>2, <1>3, <1>4, <1>5, ConfigsFollow DEF Keeps
<1>8. /\ saved' \in [Tunnel -> Saved]
      /\ term' \in [Terminal -> [state : {"none", "opening", "closing", "open"},
                                  conn : Conn \union {NoConn}]]
  BY <1>1, <1>2 DEF FwdTypeOK
<1> QED BY <1>1, <1>2, <1>3, <1>4, <1>6, <1>7, <1>8, NextInv

LEMMA ShutdownStep ==
  ASSUME ForwardInv, Shutdown
  PROVE  ForwardInv'
<1> DEFINE B == {c \in Conn : phase[c] # "unborn"}
<1>1. /\ FwdTypeOK /\ LeasesTyped
      /\ \A f \in Fwd : EntryOK(fwd[f]) /\ Owned(f) /\ DialWanted(f)
      /\ \A q \in Terminal : Seated(q)
  BY InvParts
<1>2. /\ UNCHANGED <<saved, term, refusedOn>> /\ Leases!GoDown(B)
      /\ \A f \in Fwd : fwd'[f] = IF f \in Listed THEN Discarded(fwd[f]) ELSE fwd[f]
      /\ fwd' = [f \in Fwd |-> fwd'[f]]
  BY DEF Shutdown, WithDiscarded
<1>3. /\ LeasesTyped' /\ Ages /\ \A h \in Holders : Keeps(h)
      /\ \A d \in B : users'[d] = {}
  <2>1. B \in SUBSET {d \in Conn : phase[d] # "unborn"}
    OBVIOUS
  <2> QED BY <1>1, <1>2, <2>1, GoDownFacts
<1>4. ASSUME NEW f \in Fwd
      PROVE  /\ EntryOK(fwd'[f]) /\ Owned(f)' /\ DialWanted(f)' /\ Follows(fwd'[f], fwd[f])
  <2>1. Keeps(f)
    BY <1>3 DEF Holders
  <2>2. CASE f \in Listed
    <3>1. fwd'[f] = Discarded(fwd[f]) /\ fwd[f].listed
      BY <1>2, <2>2 DEF Listed
    <3>2. EntryOK(fwd'[f]) /\ Follows(fwd'[f], fwd[f]) /\ ~fwd'[f].listed
      BY <1>1, <3>1, DiscardedOK
    <3>3. fwd[f].bound # NoConn => Leaves(f)
      <4>1. SUFFICES ASSUME fwd[f].bound # NoConn, NEW d \in Conn, f \in users'[d]
                     PROVE  FALSE
        BY DEF Leaves
      <4>2. f \in users[d] /\ phase[d] = "unborn"
        BY <1>3, <2>1, <4>1 DEF Keeps
      <4>3. fwd[f].bound = d \/ fwd[f].on = d
        BY <1>1, <4>2 DEF Owned
      <4> QED BY <1>1, <4>1, <4>2, <4>3, ForwardAssumption DEF Owned
    <3>4. Owned(f)'
      BY <1>1, <1>3, <2>1, <3>1, <3>3, DiscardedOwned
    <3>5. DialWanted(f)'
      BY <3>2 DEF DialWanted, Live
    <3> QED BY <3>2, <3>4, <3>5
  <2>3. CASE f \notin Listed
    <3>1. fwd'[f] = fwd[f]
      BY <1>2, <2>3
    <3>2. fwd[f].bound = NoConn
      BY <1>1, <2>3 DEF Owned, Listed
    <3>3. Owned(f)'
      BY <1>1, <1>3, <2>1, <3>1, <3>2, SameOwned
    <3>4. DialWanted(f)'
      BY <1>1, <1>2, <3>1, SameWish
    <3>5. Follows(fwd'[f], fwd[f])
      BY <3>1 DEF Follows
    <3> QED BY <1>1, <3>1, <3>3, <3>4, <3>5
  <2> QED BY <2>2, <2>3
<1>5. \A q \in Terminal : Keeps(q)
  BY <1>3 DEF Holders
<1>6. \A q \in Terminal : Seated(q)'
  BY <1>1, <1>2, <1>3, <1>5, SameSeat
<1>7. OneConfigForward' /\ ConfigForwardsEnd'
  BY <1>2, <1>3, <1>4, <1>5, ConfigsFollow DEF Keeps
<1>8. /\ saved' \in [Tunnel -> Saved]
      /\ term' \in [Terminal -> [state : {"none", "opening", "closing", "open"},
                                  conn : Conn \union {NoConn}]]
  BY <1>1, <1>2 DEF FwdTypeOK
<1> QED BY <1>1, <1>2, <1>3, <1>4, <1>6, <1>7, <1>8, NextInv

LEMMA AutostartStep ==
  ASSUME ForwardInv, Autostart
  PROVE  ForwardInv'
<1> DEFINE wanted == {t \in Tunnel : saved[t].exists /\ saved[t].autoStart
                                      /\ \A f \in Listed : fwd[f].tunnel # t}
           fresh(t) == [NoEntry EXCEPT !.listed = TRUE, !.status = "starting", !.tunnel = t]
<1>1. PICK id \in Injection(wanted, Unused) :
        fwd' = [f \in Fwd |-> IF f \in Range(id) THEN Dialing(fresh(AntiFunction(id)[f]), TRUE)
                             ELSE fwd[f]]
  BY DEF Autostart
<1>2. UNCHANGED <<leases, saved, term, refusedOn>>
  BY DEF Autostart
<1>3. /\ FwdTypeOK /\ LeasesTyped
      /\ \A f \in Fwd : EntryOK(fwd[f]) /\ Owned(f) /\ DialWanted(f)
      /\ \A f \in Fwd : Follows(fwd[f], fwd[f])
      /\ \A q \in Terminal : Seated(q)
  BY InvParts
<1> HIDE DEF wanted, fresh
<1>4. /\ id \in [wanted -> Unused] /\ Range(id) \subseteq Unused
      /\ \A f \in Range(id) : AntiFunction(id)[f] \in wanted
  <2>1. id \in [wanted -> Unused]
    BY <1>1 DEF Injection
  <2>2. Range(id) \subseteq Unused
    BY <2>1 DEF Range
  <2>3. ASSUME NEW f \in Range(id)
        PROVE  AntiFunction(id)[f] \in wanted
    <3>1. \E t \in DOMAIN id : f \in Range(id) => id[t] = f
      BY DEF Range
    <3>2. AntiFunction(id)[f] = CHOOSE t \in DOMAIN id : f \in Range(id) => id[t] = f
      BY DEF AntiFunction, Inverse
    <3> QED BY <2>1, <3>1, <3>2
  <2> QED BY <2>1, <2>2, <2>3
<1>5. /\ LeasesTyped' /\ Ages /\ UNCHANGED <<phase, users>>
      /\ \A h \in Holders : Keeps(h) /\ Undisturbed(h)
  BY <1>2, <1>3, SameLeases DEF leases
<1>6. ASSUME NEW f \in Fwd
      PROVE  /\ EntryOK(fwd'[f]) /\ Owned(f)' /\ DialWanted(f)' /\ Follows(fwd'[f], fwd[f])
  <2>1. CASE f \in Range(id)
    <3> DEFINE t == AntiFunction(id)[f]
               e == fresh(t)
               r == Dialing(e, TRUE)
    <3>1. t \in Tunnel /\ t # NoTunnel /\ fwd'[f] = r
      BY <1>1, <1>4, <2>1, ForwardAssumption DEF wanted
    <3> HIDE DEF t
    <3>2. /\ NoEntry \in Entry /\ NoEntry.run = "none" /\ NoEntry.on = NoConn
          /\ NoEntry.bound = NoConn /\ ~NoEntry.session /\ ~NoEntry.config
          /\ NoEntry.connId = NoConn
      BY DEF NoEntry, Entry
    <3>3. /\ e \in Entry /\ e.run = "none" /\ e.on = NoConn /\ e.bound = NoConn
          /\ e.tunnel # NoTunnel /\ ~e.session /\ ~e.config /\ e.status = "starting"
          /\ e.connId = NoConn
      BY <3>1, <3>2 DEF fresh, Entry
    <3> HIDE DEF e
    <3>4. /\ EntryOK(r) /\ Follows(r, e) /\ r.bound = NoConn /\ r.on = NoConn
          /\ r.connId = e.connId
          /\ r.run # "none" => saved[r.tunnel].exists
                               /\ IF r.autostart THEN saved[r.tunnel].autoStart
                                                 ELSE saved[r.tunnel].autoReconnect
      <4>1. /\ TRUE \in BOOLEAN /\ (e.session => e.tunnel = NoTunnel /\ e.connId # NoConn)
        BY <3>3
      <4> QED BY <1>3, <3>3, <4>1, DialingOK
    <3> HIDE DEF r
    <3>5. DialWanted(f)'
      BY <1>2, <3>1, <3>4 DEF DialWanted
    <3>6. Follows(fwd'[f], fwd[f])
      BY <3>1, <3>3, <3>4 DEF Follows
    <3>7. fwd[f].bound = NoConn /\ fwd[f].on = NoConn
      <4>1. fwd[f] = NoEntry
        BY <1>3, <1>4, <2>1 DEF Unused, EntryOK
      <4> QED BY <3>2, <4>1
    <3>8. Owned(f)'
      BY <1>3, <1>5, <3>1, <3>3, <3>4, <3>7 DEF Owned
    <3> QED BY <3>1, <3>4, <3>5, <3>6, <3>8
  <2>2. CASE f \notin Range(id)
    <3>1. fwd'[f] = fwd[f] /\ Keeps(f) /\ Undisturbed(f)
      BY <1>1, <1>5, <2>2 DEF Holders
    <3>2. Owned(f)'
      BY <1>3, <1>5, <3>1 DEF Owned
    <3>3. DialWanted(f)'
      BY <1>2, <1>3, <3>1, SameWish
    <3> QED BY <1>3, <3>1, <3>2, <3>3
  <2> QED BY <2>1, <2>2
<1>7. \A q \in Terminal : Keeps(q)
  BY <1>5 DEF Holders
<1>8. \A q \in Terminal : Seated(q)'
  BY <1>2, <1>3, <1>5, <1>7, SameSeat
<1>9. OneConfigForward' /\ ConfigForwardsEnd'
  BY <1>2, <1>5, <1>6, <1>7, ConfigsFollow DEF Keeps
<1>10. /\ saved' \in [Tunnel -> Saved] /\ fwd' = [f \in Fwd |-> fwd'[f]]
       /\ term' \in [Terminal -> [state : {"none", "opening", "closing", "open"},
                                   conn : Conn \union {NoConn}]]
  BY <1>1, <1>2, <1>3 DEF FwdTypeOK
<1> QED BY <1>3, <1>5, <1>6, <1>8, <1>9, <1>10, NextInv

-----------------------------------------------------------------------------
LEMMA InvStep ==
  ASSUME ForwardInv, [Next]_vars
  PROVE  ForwardInv'
<1>1. CASE Autostart
  BY <1>1, AutostartStep
<1>2. ASSUME NEW f \in Fwd, NEW c \in Conn, NEW t \in Tunnel \union {NoTunnel},
             NEW session \in BOOLEAN, Start(f, c, t, session)
      PROVE  ForwardInv'
  BY <1>2, StartStep
<1>3. ASSUME NEW f \in Fwd, \/ BindSucceeds(f) \/ BindFails(f) \/ Connects(f)
                            \/ ConnectFails(f) \/ TimerFires(f) \/ Stop(f)
      PROVE  ForwardInv'
  BY <1>3, BindSucceedsStep, BindFailsStep, ConnectsStep, ConnectFailsStep, TimerFiresStep,
     StopStep
<1>4. ASSUME NEW f \in Fwd, NEW t \in Tunnel, AssignTunnel(f, t)
      PROVE  ForwardInv'
  BY <1>4, AssignTunnelStep
<1>5. ASSUME NEW t \in Tunnel, NEW tunnel \in Saved, SaveTunnel(t, tunnel)
      PROVE  ForwardInv'
  BY <1>5, SaveTunnelStep
<1>6. ASSUME NEW c \in Conn, TransportCloses(c)
      PROVE  ForwardInv'
  BY <1>6, TransportClosesStep
<1>7. ASSUME NEW s \in Terminal, NEW c \in Conn, TerminalConnects(s, c)
      PROVE  ForwardInv'
  BY <1>7, TerminalConnectsStep
<1>8. ASSUME NEW s \in Terminal, TabCloses(s) \/ ShellOpens(s) \/ ShellFails(s)
      PROVE  ForwardInv'
  BY <1>8, TabClosesStep, ShellOpensStep, ShellFailsStep
<1>9. CASE Shutdown
  BY <1>9, ShutdownStep
<1>10. CASE UNCHANGED vars
  BY <1>10 DEF vars, leases, ForwardInv, FwdTypeOK, Owned, DialWanted, Live, Seated,
               OneConfigForward, ConfigForwardsEnd, Orphaned, Listed
<1> QED BY <1>1, <1>2, <1>3, <1>4, <1>5, <1>6, <1>7, <1>8, <1>9, <1>10 DEF Next

\* An entry that one thing at most drives has at most one driver, and one that is
\* listed and has not given up has one.
LEMMA OneDriverEach ==
  ASSUME NEW f \in Fwd, EntryOK(fwd[f])
  PROVE  /\ Cardinality(Drivers(f)) <= 1
         /\ fwd[f].listed /\ fwd[f].status # "error" => Drivers(f) # {}
<1>1. /\ "timer" \in Drivers(f) <=> fwd[f].timer
      /\ "run" \in Drivers(f) <=> fwd[f].run # "none"
      /\ "listener" \in Drivers(f) <=> fwd[f].bound # NoConn
      /\ Drivers(f) \subseteq {"timer", "run", "listener"}
  BY DEF Drivers
<1>2. \/ Drivers(f) = {}
      \/ \E d \in {"timer", "run", "listener"} : Drivers(f) = {d}
  BY <1>1 DEF EntryOK
<1>3. Cardinality(Drivers(f)) <= 1
  <2>1. CASE Drivers(f) = {}
    <3>1. Cardinality({}) = 0
      BY FS_EmptySet
    <3> QED BY <2>1, <3>1
  <2>2. ASSUME NEW d, Drivers(f) = {d}
        PROVE  Cardinality(Drivers(f)) <= 1
    <3>1. Cardinality({d}) = 1
      BY FS_Singleton
    <3> QED BY <2>2, <3>1
  <2> QED BY <1>2, <2>1, <2>2
<1>4. fwd[f].listed /\ fwd[f].status # "error" => Drivers(f) # {}
  BY <1>1 DEF EntryOK
<1> QED BY <1>3, <1>4

\* The inductive invariant: what holds of every entry, of the leases of forwards and
\* of terminals, and of the ssh_config forwards at once (forward-manager.ts).
THEOREM ForwardsStayOwned == Spec => []ForwardInv
BY InitStep, InvStep, PTL DEF Spec

\* The variables of the forwards, their tunnels and their terminals stay in their
\* types, however starts, dials, stops and losses interleave (forward-manager.ts).
THEOREM ForwardTypesHold == Spec => []FwdTypeOK
<1>1. ForwardInv => FwdTypeOK
  BY DEF ForwardInv
<1> QED BY <1>1, ForwardsStayOwned, PTL

\* Leases and listeners of forwards belong together on every path of a start and a
\* dial, for any number of forwards, terminals and transports: no lease is left
\* behind, and no listener outlives its forward, its transport or its lease (bind,
\* start, dial and stop, forward-manager.ts:226-260, 336-352).
THEOREM LeasesStayMatched == Spec => []LeasesMatchListeners
<1>1. ForwardInv => LeasesMatchListeners
  <2>1. ASSUME ForwardInv
        PROVE  LeaseHasUse /\ ListenersAreOwned
    <3>1. \A f \in Fwd : Owned(f)
      BY <2>1, InvParts
    <3> QED BY <3>1 DEF Owned, LeaseHasUse, ListenersAreOwned
  <2> QED BY <2>1 DEF LeasesMatchListeners
<1> QED BY <1>1, ForwardsStayOwned, PTL

\* A listed forward is up, under way or waiting, and only one of them, unless it gave
\* up; and a dial of the server goes on only while the saved tunnel asks for it
\* (connectionLost, dial, retryOrGiveUp, tunnelChanged,
\* forward-manager.ts:193-207, 262-376).
THEOREM ForwardsAreDrivenOnce == Spec => []OneWantedDriver
<1>1. ForwardInv => OneWantedDriver
  <2>1. ASSUME ForwardInv
        PROVE  OneDriver /\ DialsAreWanted
    <3>1. \A f \in Fwd : EntryOK(fwd[f]) /\ DialWanted(f)
      BY <2>1, InvParts
    <3>2. OneDriver
      BY <3>1, OneDriverEach DEF OneDriver
    <3>3. DialsAreWanted
      BY <3>1 DEF DialsAreWanted, DialWanted
    <3> QED BY <3>2, <3>3
  <2> QED BY <2>1 DEF OneWantedDriver
<1> QED BY <1>1, ForwardsStayOwned, PTL

\* The forward of an ssh_config rule starts once per transport and ends with its last
\* terminal, unless one was refused its shell there, for any number of terminals
\* (startConfig, forward-manager.ts:117-143, releaseSession,
\* terminal-socket.ts:791-802).
THEOREM ConfigForwardsStayTied == Spec => []ConfigForwardsFollow
<1>1. ForwardInv => ConfigForwardsFollow
  BY DEF ForwardInv, ConfigForwardsFollow
<1> QED BY <1>1, ForwardsStayOwned, PTL
=============================================================================
