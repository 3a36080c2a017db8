---------------------------- MODULE DesktopSession ----------------------------
(***************************************************************************)
(* One RDP or VNC tab: its control socket and serial task queue, the lease *)
(* on its SSH gateway, its single-use tickets, the stream sockets they     *)
(* open and the password remembered once the login worked (DesktopSession  *)
(* and DesktopTickets in server/src/remote-desktop/desktop-socket.ts,      *)
(* serveRdpCleanPath in rdp-proxy.ts).                                     *)
(*                                                                         *)
(* The tab's messages are those of RemoteDesktopViewImpl.tsx: it opens one *)
(* stream per ready ticket, asks for a retry after a rejected login and    *)
(* closes the tab after any other failure.                                 *)
(***************************************************************************)
EXTENDS Integers, Sequences, FiniteSets

CONSTANT MaxTickets   \* tickets issued to the tab

ASSUME DesktopAssumption == MaxTickets \in Nat \ {0}

Ticket == 1 .. MaxTickets

VARIABLES
  desktop,   \* the profile's kind and whether it names a gateway; closed
  gateway,   \* the lease held, and the leases taken and given back
  tasks,     \* the queue: operations, the first of which runs
  at,        \* what the running task awaits
  logon,     \* attempts typed, the one to remember, the one remembered, VNC's rejection
  ticket,    \* ticket[k]: "none", "issued", "expired" or "used"
  stream,    \* stream[k]: the socket opened with ticket k and its upstream
  view       \* the tab: its current ticket, what it sent for it, the attempt it holds

desktopVars == <<desktop, gateway, tasks, at, logon, ticket, stream, view>>

NoStream == [at |-> "none", opening |-> FALSE, upstream |-> "none", route |-> "none",
             socket |-> "none", dials |-> 0, opened |-> 0]

DesktopInit ==
  /\ desktop \in [kind : {"rdp", "vnc"}, needsGateway : BOOLEAN, closed : {FALSE}]
  /\ gateway = [held |-> FALSE, taken |-> 0, released |-> 0]
  /\ tasks = <<"connect">> /\ at = "queued"
  /\ logon = [attempts |-> 0, candidate |-> 0, remembered |-> 0, vncRejected |-> FALSE,
              proved |-> {}]
  /\ ticket = [k \in Ticket |-> "none"]
  /\ stream = [k \in Ticket |-> NoStream]
  /\ view = [ticket |-> 0, sent |-> {}, attempt |-> 0]

Rdp == desktop.kind = "rdp"

-----------------------------------------------------------------------------
(* Tasks: the queue runs them one after another, each to its awaits. *)

RunningTask(op, where) == tasks # <<>> /\ Head(tasks) = op /\ at = where
TaskEnds == tasks' = Tail(tasks) /\ at' = "queued"
TaskAwaits(what) == at' = what /\ UNCHANGED tasks

\* fail(), and prompts that end when the session closes.
TaskFails == TaskEnds /\ UNCHANGED <<desktop, gateway, logon, ticket, stream, view>>

\* issueTicket(): the tab drops its streams and opens one with the new ticket.
IssueTicket(attempt) ==
  LET k == Cardinality({i \in Ticket : ticket[i] # "none"}) + 1 IN
  /\ k \in Ticket
  /\ ticket' = [ticket EXCEPT ![k] = "issued"]
  /\ view' = [ticket |-> k, sent |-> {}, attempt |-> attempt]

\* connect() and retry() once the gateway is there.
GoOn ==
  IF desktop.closed THEN TaskEnds /\ UNCHANGED <<ticket, view>>
  ELSE IF Rdp THEN TaskAwaits("logon") /\ UNCHANGED <<ticket, view>>
  ELSE TaskEnds /\ IssueTicket(0)

ConnectStarts ==
  /\ RunningTask("connect", "queued")
  /\ IF desktop.needsGateway THEN TaskAwaits("gateway") /\ UNCHANGED <<ticket, view>> ELSE GoOn
  /\ UNCHANGED <<desktop, gateway, logon, stream>>

\* dialGateway(): a session that closed meanwhile gives the lease back.
GatewayDialed ==
  /\ RunningTask("connect", "gateway")
  /\ IF desktop.closed
       THEN TaskEnds /\ gateway' = [gateway EXCEPT !.taken = @ + 1, !.released = @ + 1]
       ELSE /\ TaskAwaits("post-auth")
            /\ gateway' = [gateway EXCEPT !.held = TRUE, !.taken = @ + 1]
  /\ UNCHANGED <<desktop, logon, ticket, stream, view>>

GatewayReady ==
  /\ RunningTask("connect", "post-auth")
  /\ GoOn
  /\ UNCHANGED <<desktop, gateway, logon, stream>>

GatewayFails ==
  /\ RunningTask("connect", "gateway") \/ RunningTask("connect", "post-auth")
  /\ TaskFails

\* askLogin(): a new attempt, to be remembered or not.
Typed(remember) ==
  [logon EXCEPT !.attempts = @ + 1, !.candidate = IF remember THEN logon.attempts + 1 ELSE 0]

\* loadRdpCredentials(): the saved password, unless one was just rejected, or a prompt.
LogonGiven ==
  /\ \E op \in {"connect", "retry"} : RunningTask(op, "logon")
  /\ \/ /\ Head(tasks) = "connect" /\ UNCHANGED logon
        /\ IF desktop.closed THEN UNCHANGED <<ticket, view>>
           ELSE IssueTicket(0)
     \/ /\ ~desktop.closed
        /\ \E remember \in BOOLEAN : logon' = Typed(remember)
        /\ IssueTicket(logon.attempts + 1)
  /\ TaskEnds
  /\ UNCHANGED <<desktop, gateway, stream>>

\* Cancelled, or rejected because the session closed.
LogonFails == (\E op \in {"connect", "retry"} : RunningTask(op, "logon")) /\ TaskFails

Retried == [logon EXCEPT !.candidate = 0]

RetryStarts ==
  /\ RunningTask("retry", "queued")
  /\ logon' = IF desktop.closed THEN logon
              ELSE IF Rdp THEN Retried ELSE [Retried EXCEPT !.vncRejected = TRUE]
  /\ GoOn
  /\ UNCHANGED <<desktop, gateway, stream>>

\* provideVncCredentials()
CredentialsStart ==
  /\ RunningTask("credentials", "queued")
  /\ IF desktop.closed THEN TaskEnds ELSE TaskAwaits("vnc logon")
  /\ UNCHANGED <<desktop, gateway, logon, ticket, stream, view>>

CredentialsGiven ==
  /\ RunningTask("credentials", "vnc logon")
  /\ \/ /\ ~logon.vncRejected
        /\ view' = [view EXCEPT !.attempt = 0] /\ UNCHANGED logon
     \/ /\ ~desktop.closed
        /\ \E remember \in BOOLEAN : logon' = [Typed(remember) EXCEPT !.vncRejected = FALSE]
        /\ view' = [view EXCEPT !.attempt = logon.attempts + 1]
  /\ TaskEnds
  /\ UNCHANGED <<desktop, gateway, ticket, stream>>

CredentialsFail == RunningTask("credentials", "vnc logon") /\ TaskFails

\* loginSucceeded(): the candidate is taken; saving it may fail.
LoginSucceeded ==
  /\ RunningTask("connected", "queued")
  /\ IF desktop.closed THEN UNCHANGED logon
     ELSE \E saved \in {logon.remembered, logon.candidate} :
            logon' = [logon EXCEPT !.candidate = 0, !.remembered = saved]
  /\ TaskEnds
  /\ UNCHANGED <<desktop, gateway, ticket, stream, view>>

\* acceptServerKey(): known, or the tab's answer.
ServerKeyJudged == RunningTask("server-key", "queued") /\ TaskFails

-----------------------------------------------------------------------------
(* Streams *)

\* openStream(): never directly where the profile names a gateway.
Route ==
  IF gateway.held THEN "gateway"
  ELSE IF desktop.needsGateway \/ desktop.closed THEN "none" ELSE "direct"

Opening(s) ==
  IF Route = "none" THEN [s EXCEPT !.at = "gone", !.socket = "closed"]
  ELSE [s EXCEPT !.at = "opening", !.opening = TRUE, !.route = Route, !.dials = @ + 1]

\* Variant: a redeemed ticket stays in the map.
RedeemableAgain(k) == ticket[k] \in {"issued", "used"} /\ ~desktop.closed

Redeemable(k) == ticket[k] = "issued" /\ ~desktop.closed

\* A stream socket presents a ticket, once or again, now or late.
Redeem(k) ==
  /\ stream[k].opened < 2 /\ ticket[k] # "none"
  /\ ticket' = [ticket EXCEPT ![k] = "used"]
  /\ stream' = IF ~Redeemable(k) THEN stream
               ELSE [stream EXCEPT ![k] =
                       Opening([NoStream EXCEPT !.socket = "open",
                                                !.opened = stream[k].opened + 1])]
  /\ UNCHANGED <<desktop, gateway, tasks, at, logon, view>>

TicketExpires(k) ==
  /\ ticket[k] = "issued" /\ ticket' = [ticket EXCEPT ![k] = "expired"]
  /\ UNCHANGED <<desktop, gateway, tasks, at, logon, stream, view>>

\* closeAll() and the VNC relay's abort().
Dropped(s) ==
  [s EXCEPT !.at = IF @ = "none" THEN @ ELSE "gone", !.socket = IF @ = "open" THEN "closed" ELSE @,
            !.upstream = IF @ = "alive" THEN "destroyed" ELSE @]

\* Variant: serveVnc() goes on with whatever openStream() gave it.
WantedAnyway(k) == stream[k].at = "opening"

\* Is the stream that just opened still wanted?
Wanted(k) == stream[k].at = "opening" /\ stream[k].socket = "open" /\ ~desktop.closed

StreamOpens(k) ==
  /\ stream[k].opening
  /\ stream' = [stream EXCEPT ![k] =
       IF Wanted(k) THEN [@ EXCEPT !.opening = FALSE, !.upstream = "alive",
                                   !.at = IF Rdp THEN "tls" ELSE "relay"]
       ELSE [@ EXCEPT !.opening = FALSE, !.upstream = "destroyed", !.at = "gone"]]
  /\ UNCHANGED <<desktop, gateway, tasks, at, logon, ticket, view>>

StreamFails(k) ==
  /\ stream[k].opening
  /\ stream' = [stream EXCEPT ![k] = [Dropped(@) EXCEPT !.opening = FALSE]]
  /\ UNCHANGED <<desktop, gateway, tasks, at, logon, ticket, view>>

\* settle(): the stream may still open after its timeout.
StreamTimesOut(k) ==
  /\ Rdp /\ stream[k].opening /\ stream[k].at = "opening"
  /\ stream' = [stream EXCEPT ![k] = Dropped(@)]
  /\ UNCHANGED <<desktop, gateway, tasks, at, logon, ticket, view>>

\* upgradeToTls(); a certificate that cannot sign takes a second connection.
TlsDone(k) ==
  /\ stream[k].at = "tls"
  /\ stream' = [stream EXCEPT ![k].at = "certificate"]
  /\ UNCHANGED <<desktop, gateway, tasks, at, logon, ticket, view>>

TlsAgain(k) ==
  /\ stream[k].at = "tls" /\ stream[k].dials = 1
  /\ stream' = [stream EXCEPT ![k] = Opening([@ EXCEPT !.upstream = "destroyed"])]
  /\ UNCHANGED <<desktop, gateway, tasks, at, logon, ticket, view>>

\* acceptCertificate(): pinned, or the tab's answer.
CertificateJudged(k) ==
  /\ stream[k].at = "certificate"
  /\ \E accept \in BOOLEAN :
       stream' = [stream EXCEPT ![k] = IF accept THEN [@ EXCEPT !.at = "relay"] ELSE Dropped(@)]
  /\ UNCHANGED <<desktop, gateway, tasks, at, logon, ticket, view>>

\* The socket of the stream closes, or the desktop goes; one that is still
\* opening notices when it has opened.
StreamEnds(k) ==
  /\ stream[k].socket = "open"
  /\ stream' = [stream EXCEPT ![k] = IF stream[k].at = "opening" THEN [@ EXCEPT !.socket = "closed"]
                                     ELSE Dropped(@)]
  /\ UNCHANGED <<desktop, gateway, tasks, at, logon, ticket, view>>

-----------------------------------------------------------------------------
(* The tab *)

Send(op) == tasks' = Append(tasks, op) /\ view' = [view EXCEPT !.sent = @ \union {op}]
Views(k) ==
  ~desktop.closed /\ view.ticket = k /\ view.sent \intersect {"connected", "retry"} = {}
Sends == UNCHANGED <<desktop, gateway, at, ticket, stream>>

AsksAboutKey(k) ==
  /\ Views(k) /\ ~Rdp /\ stream[k].at = "relay" /\ view.sent = {}
  /\ Send("server-key") /\ Sends /\ UNCHANGED logon

AsksForCredentials(k) ==
  /\ Views(k) /\ ~Rdp /\ stream[k].at = "relay" /\ "credentials" \notin view.sent
  /\ tasks = <<>> /\ Send("credentials") /\ Sends /\ UNCHANGED logon

\* The desktop accepts the attempt the tab holds, or asked for none.
LogsIn(k) ==
  /\ Views(k) /\ stream[k].at = "relay" /\ (Rdp \/ tasks = <<>>)
  /\ Send("connected") /\ Sends
  /\ logon' = [logon EXCEPT !.proved = @ \union {view.attempt}]

IsRejected(k) ==
  /\ Views(k) /\ k < MaxTickets
  /\ stream[k].at = "relay" /\ (Rdp \/ "credentials" \in view.sent)
  /\ Send("retry") /\ Sends /\ UNCHANGED logon

\* close(): the control socket of the tab is closed.
TabCloses ==
  /\ ~desktop.closed
  /\ desktop' = [desktop EXCEPT !.closed = TRUE]
  /\ gateway' = IF ~gateway.held THEN gateway
                ELSE [gateway EXCEPT !.held = FALSE, !.released = @ + 1]
  /\ stream' = [k \in Ticket |-> IF stream[k].at = "opening" /\ ~Rdp THEN stream[k]
                                 ELSE Dropped(stream[k])]
  /\ logon' = [logon EXCEPT !.candidate = 0]
  /\ UNCHANGED <<tasks, at, ticket, view>>

DesktopNext ==
  \/ ConnectStarts \/ GatewayDialed \/ GatewayReady \/ GatewayFails \/ LogonGiven \/ LogonFails
  \/ RetryStarts \/ CredentialsStart \/ CredentialsGiven \/ CredentialsFail
  \/ LoginSucceeded \/ ServerKeyJudged \/ TabCloses
  \/ \E k \in Ticket :
       \/ Redeem(k) \/ TicketExpires(k) \/ StreamOpens(k) \/ StreamFails(k) \/ StreamTimesOut(k)
       \/ TlsDone(k) \/ TlsAgain(k) \/ CertificateJudged(k) \/ StreamEnds(k)
       \/ AsksAboutKey(k) \/ AsksForCredentials(k) \/ LogsIn(k) \/ IsRejected(k)

DesktopSpec == DesktopInit /\ [][DesktopNext]_desktopVars

-----------------------------------------------------------------------------
DesktopTypeOK ==
  /\ at \in {"queued", "gateway", "post-auth", "logon", "vnc logon"}
  /\ \A k \in Ticket :
       /\ ticket[k] \in {"none", "issued", "expired", "used"}
       /\ stream[k].upstream \in {"none", "alive", "destroyed"} /\ stream[k].dials \in 0 .. 2

\* However dials, TLS retries and prompts overlap the closing of the tab: no
\* stream outlives its session, one of a profile with a gateway goes through
\* the gateway it holds, the gateway is given back exactly once, and a ticket
\* opens one stream (close, dialGateway, openStream and serveVnc,
\* desktop-socket.ts:189-199, 245-280, 465-478, 541-553; redeem, 60-65).
StreamsEndWithTheTab ==
  /\ \A k \in Ticket :
       /\ stream[k].upstream = "alive" =>
            /\ ~desktop.closed
            /\ stream[k].route = (IF desktop.needsGateway THEN "gateway" ELSE "direct")
       /\ stream[k].opened <= 1
  /\ gateway.taken = gateway.released + (IF gateway.held THEN 1 ELSE 0)
  /\ desktop.closed => ~gateway.held

\* A remembered password is one the desktop accepted (askLogin, retry and
\* loginSucceeded, desktop-socket.ts:222-232, 332-382, 412-443).
RememberedLogonWorked == logon.remembered \in logon.proved \union {0}

\* What a desktop tab leaves behind: no stream, no lease, and no password that was refused.
DesktopLeavesNothing == StreamsEndWithTheTab /\ RememberedLogonWorked
=============================================================================
