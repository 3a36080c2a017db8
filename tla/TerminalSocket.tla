---------------------------- MODULE TerminalSocket ----------------------------
(***************************************************************************)
(* One terminal session, the browser windows it moves between, and the     *)
(* prompts of its login: TransferableTerminalSocket, registerTerminalSocket*)
(* and ControlChannel in server/src/ws/terminal-socket.ts.                 *)
(*                                                                         *)
(* A window is one WebSocket.  The server may still read a first frame     *)
(* from a window it has begun to close.  Output is cut into chunks of one  *)
(* size, numbered as the session produces them.                            *)
(***************************************************************************)
EXTENDS Integers, FiniteSets, Sequences, SequencesExt

CONSTANTS Window, NoWindow,
          BufferSize,   \* BACKPRESSURE_HIGH, in chunks
          MaxOutput,    \* bound: the chunks a session produces
          MaxPrompts    \* bound: the prompts a login asks

ASSUME TerminalAssumption ==
  /\ NoWindow \notin Window
  /\ BufferSize \in Nat \ {0} /\ MaxOutput \in Nat /\ MaxPrompts \in Nat

Kind == {"auth-prompt", "host-key"}

VARIABLES
  sock,      \* sock[w]: the window's WebSocket
  face,      \* the TransferableTerminalSocket
  bound,     \* the windows whose events it listens to
  session,   \* handleSession: "none", "login", "up" or "over"
  asked,     \* the prompts asked so far, and what came back
  waiters,   \* ControlChannel.waiters, as indexes of `asked`
  kept,      \* kept[k]: the prompt whose frame is replayed to a new window
  dialog,    \* dialog[w][k]: the prompt the window shows
  made, sent, lost, \* chunks produced, sent, given up (for the properties)
  preparing  \* the windows that asked to be handed off (for the properties)

prompts == <<asked, waiters, kept, dialog>>
output == <<made, sent, lost>>
vars == <<sock, face, bound, session, prompts, output, preparing>>

NoDialog == [k \in Kind |-> 0]

Init ==
  /\ sock = [w \in Window |-> "none"]
  /\ face = [state |-> "none", current |-> NoWindow, detached |-> FALSE, timer |-> FALSE,
             buffering |-> FALSE, buffer |-> <<>>, known |-> FALSE]
  /\ bound = {}
  /\ session = "none"
  /\ asked = <<>>
  /\ waiters = <<>>
  /\ kept = NoDialog
  /\ dialog = [w \in Window |-> NoDialog]
  /\ made = 0
  /\ sent = <<>>
  /\ lost = [full |-> {}, late |-> {}]
  /\ preparing = {}

Live == face.state = "live"
Current == face.current
Open(w) == w \in Window /\ sock[w] = "open"

(***************************************************************************)
(* ControlChannel.                                                         *)
(***************************************************************************)
\* push(): whatever frame comes first is the reply to the oldest prompt; op
\* is its kind and i the prompt the user answered, 0 for none.
Reply(i, op) ==
  IF i = Head(waiters) THEN "answered"
  ELSE IF op = asked[Head(waiters)].kind THEN "mistaken" ELSE "cancelled"

Push(i, op) ==
  IF waiters = <<>> THEN UNCHANGED <<asked, waiters>>
  ELSE /\ asked' = [asked EXCEPT ![Head(waiters)].reply = Reply(i, op)]
       /\ waiters' = Tail(waiters)

CloseControl ==
  /\ asked' = [i \in DOMAIN asked |->
                 IF i \in Range(waiters) THEN [asked[i] EXCEPT !.reply = "closed"] ELSE asked[i]]
  /\ waiters' = <<>>

(***************************************************************************)
(* The facade.                                                             *)
(***************************************************************************)
\* finish(): the close handlers end the control channel and the session.  A
\* login goes on until its dial is answered.
Finish ==
  /\ face' = [face EXCEPT !.state = "closed", !.detached = FALSE, !.timer = FALSE,
                          !.buffer = <<>>]
  /\ bound' = bound \ {Current}
  /\ CloseControl
  /\ session' = IF session = "up" THEN "over" ELSE session
  /\ UNCHANGED <<kept, dialog, output, preparing>>

\* What bufferTransferData() keeps: the newest chunks.  Variant: the oldest.
TailOldest(buffer, n) ==
  IF Len(buffer) < BufferSize THEN Append(buffer, n) ELSE buffer

Tailed(buffer, n) ==
  Append(IF Len(buffer) < BufferSize THEN buffer ELSE Tail(buffer), n)

\* flushTransferBuffer(): dropped when the window cannot take it.
Flush(open) ==
  /\ sent' = IF open THEN sent \o face.buffer ELSE sent
  /\ lost' = IF open THEN lost ELSE [lost EXCEPT !.late = @ \union Range(face.buffer)]
  /\ UNCHANGED made

\* handleClose(), for a window the facade listens to.
HandleClose(ending) ==
  IF face.detached \/ ~Live THEN UNCHANGED <<face, bound, session, prompts, output, preparing>>
  ELSE IF ending THEN Finish
  ELSE /\ face' = [face EXCEPT !.detached = TRUE, !.timer = TRUE]
       /\ UNCHANGED <<bound, session, prompts, output, preparing>>

(***************************************************************************)
(* The windows.                                                            *)
(***************************************************************************)
Opens(w) ==
  /\ sock[w] = "none"
  /\ sock' = [sock EXCEPT ![w] = "new"]
  /\ UNCHANGED <<face, bound, session, prompts, output, preparing>>

\* No first frame in time: the server closes, and may yet read one.
TimesOut(w) ==
  /\ sock[w] = "new"
  /\ sock' = [sock EXCEPT ![w] = "expired"]
  /\ UNCHANGED <<face, bound, session, prompts, output, preparing>>

Began(w) == IF sock[w] = "new" THEN "open" ELSE "closing"

Connect(w) ==
  /\ sock[w] \in {"new", "expired"} /\ face.state = "none"
  /\ sock' = [sock EXCEPT ![w] = Began(w)]
  /\ face' = [face EXCEPT !.state = "live", !.current = w, !.known = sock[w] = "new"]
  /\ bound' = {w}
  /\ session' = "login"
  /\ UNCHANGED <<prompts, output, preparing>>

\* Variant: the facade goes on listening to the window before.
BoundBoth(w) == bound \union {w}

BoundTo(w) == (bound \ {Current}) \union {w}

\* Variant: the transfer stays frozen.
AttachedFrozen(w) ==
  [face EXCEPT !.current = w, !.detached = FALSE, !.timer = FALSE, !.buffer = <<>>]

Attached(w) ==
  [face EXCEPT !.current = w, !.detached = FALSE, !.timer = FALSE, !.buffering = FALSE,
               !.buffer = <<>>]

\* attach(): the window takes over, is shown what is kept and buffered, and
\* its size is passed on as a resize.
Attach(w) ==
  /\ sock[w] \in {"new", "expired"} /\ face.known
  /\ IF Live
       THEN /\ sock' = [sock EXCEPT ![w] = Began(w),
                                    ![Current] = IF @ = "open" THEN "closing" ELSE @]
            /\ face' = Attached(w)
            /\ bound' = BoundTo(w)
            /\ Flush(sock[w] = "new")
            /\ dialog' = [dialog EXCEPT ![w] = IF sock[w] = "new" THEN kept ELSE @]
            /\ Push(0, "resize")
            /\ preparing' = preparing \ {Current}
            /\ UNCHANGED <<session, kept>>
       ELSE /\ sock' = [sock EXCEPT ![w] = "closing"]
            /\ UNCHANGED <<face, bound, session, prompts, output, preparing>>

\* The user ends the session, or the window goes away by itself.
Leaves(w) ==
  /\ sock[w] \in {"new", "open"}
  /\ \E how \in {"ending", "closing"} : sock' = [sock EXCEPT ![w] = how]
  /\ dialog' = [dialog EXCEPT ![w] = NoDialog]
  /\ UNCHANGED <<face, bound, session, asked, waiters, kept, output, preparing>>

Closes(w) ==
  /\ sock[w] \in {"expired", "ending", "closing"}
  /\ sock' = [sock EXCEPT ![w] = "closed"]
  /\ IF w \in bound THEN HandleClose(sock[w] = "ending")
     ELSE UNCHANGED <<face, bound, session, prompts, output, preparing>>

GraceExpires ==
  /\ face.timer
  /\ Finish
  /\ UNCHANGED sock

Heard(w) == Open(w) /\ w \in bound

PrepareTransfer(w) ==
  /\ Heard(w)
  /\ face' = [face EXCEPT !.buffering = TRUE]
  /\ preparing' = preparing \union {w}
  /\ UNCHANGED <<sock, bound, session, prompts, output>>

CancelTransfer(w) ==
  /\ Heard(w)
  /\ face' = [face EXCEPT !.buffering = FALSE, !.buffer = <<>>]
  /\ Flush(Open(Current))
  /\ preparing' = preparing \ {w}
  /\ UNCHANGED <<sock, bound, session, prompts>>

Resize(w) ==
  /\ Heard(w)
  /\ Push(0, "resize")
  /\ UNCHANGED <<sock, face, bound, session, kept, dialog, output, preparing>>

\* A BREAK is dropped until the session is up, not so with a prompt after.
Break(w) ==
  /\ Heard(w) /\ session = "up"
  /\ Push(0, "send-break")
  /\ UNCHANGED <<sock, face, bound, session, kept, dialog, output, preparing>>

\* The user answers the dialog of a kind; it shows the last prompt of it.
Answer(w, k) ==
  /\ Heard(w) /\ dialog[w][k] # 0
  /\ dialog' = [dialog EXCEPT ![w][k] = 0]
  /\ kept' = [kept EXCEPT ![k] = 0]
  /\ Push(dialog[w][k], k)
  /\ UNCHANGED <<sock, face, bound, session, output, preparing>>

(***************************************************************************)
(* The session.  Its login asks one prompt at a time; the vault asks on    *)
(* its own once a hop has taken a password that is to be remembered        *)
(* (commitRememberedPassword), and asks again for a wrong one.             *)
(***************************************************************************)
By(asker) == {i \in DOMAIN asked : asked[i].by = asker}
Waits(asker) == \E i \in By(asker) : asked[i].reply = "none"
Refused(asker) == \E i \in By(asker) : asked[i].reply \in {"cancelled", "closed"}

Asked(asker, k) ==
  [by |-> asker, kind |-> k, reply |-> IF Live THEN "none" ELSE "closed"]

Asks(asker, k) ==
  LET i == Len(asked) + 1 IN
  /\ i <= MaxPrompts /\ ~Waits(asker) /\ ~Refused(asker)
  /\ asked' = Append(asked, Asked(asker, k))
  /\ waiters' = IF Live THEN Append(waiters, i) ELSE waiters
  /\ kept' = IF Live THEN [kept EXCEPT ![k] = i] ELSE kept
  /\ dialog' = IF Live /\ Open(Current) THEN [dialog EXCEPT ![Current][k] = i] ELSE dialog
  /\ UNCHANGED <<sock, face, bound, session, output, preparing>>

LoginAsks(k) == session = "login" /\ Asks("login", k)

VaultAsks ==
  /\ session \in {"login", "up"}
  /\ \E i \in By("login") : asked[i].kind = "auth-prompt" /\ asked[i].reply = "answered"
  /\ By("vault") = {} => ~Waits("login")
  /\ Asks("vault", "auth-prompt")

\* Variant: the session goes up although its tab is gone.
EstablishedAnyway == "up"

Established == IF Live THEN "up" ELSE "over"

\* The shell is there: `ready` drops the prompts to replay.
LoginSucceeds ==
  /\ session = "login" /\ ~Waits("login") /\ ~Refused("login")
  /\ session' = Established
  /\ kept' = IF Live THEN NoDialog ELSE kept
  /\ UNCHANGED <<sock, face, bound, asked, waiters, dialog, output, preparing>>

\* close(): the facade ends first, then its window.
End ==
  IF Live
    THEN /\ face' = [face EXCEPT !.state = "closed", !.detached = FALSE, !.timer = FALSE,
                                 !.buffer = <<>>]
         /\ bound' = bound \ {Current}
         /\ CloseControl
         /\ sock' = [sock EXCEPT ![Current] = IF @ = "open" THEN "closing" ELSE @]
    ELSE UNCHANGED <<face, bound, asked, waiters, sock>>

LoginFails ==
  /\ session = "login" /\ ~Waits("login")
  /\ End /\ session' = "over"
  /\ UNCHANGED <<kept, dialog, output, preparing>>

TransportEnds ==
  /\ session = "up"
  /\ End /\ session' = "over"
  /\ UNCHANGED <<kept, dialog, output, preparing>>

Produces ==
  LET n == made + 1
      direct == Open(Current) /\ ~face.buffering /\ ~face.detached
  IN  /\ session = "up" /\ Live /\ n <= MaxOutput
      /\ made' = n
      /\ sent' = IF direct THEN Append(sent, n) ELSE sent
      /\ lost' = IF ~direct /\ Len(face.buffer) = BufferSize
                   THEN [lost EXCEPT !.full = @ \union {Head(face.buffer)}] ELSE lost
      /\ face' = IF direct THEN face ELSE [face EXCEPT !.buffer = Tailed(@, n)]
      /\ UNCHANGED <<sock, bound, session, prompts, preparing>>

Login == LoginSucceeds \/ LoginFails

Next ==
  \/ \E w \in Window :
       \/ Opens(w) \/ TimesOut(w) \/ Connect(w) \/ Attach(w) \/ Leaves(w) \/ Closes(w)
       \/ PrepareTransfer(w) \/ CancelTransfer(w) \/ Resize(w) \/ Break(w)
       \/ \E k \in Kind : Answer(w, k)
  \/ GraceExpires
  \/ \E k \in Kind : LoginAsks(k)
  \/ VaultAsks \/ Login \/ TransportEnds \/ Produces

\* A closing handshake ends or times out, the grace timer fires, and a dial
\* that waits for no prompt is answered (its ready deadline bounds it).
Fairness ==
  /\ \A w \in Window : WF_vars(Closes(w))
  /\ WF_vars(GraceExpires)
  /\ WF_vars(Login)

Spec == Init /\ [][Next]_vars /\ Fairness

-----------------------------------------------------------------------------
Replies == {"none", "answered", "mistaken", "cancelled", "closed"}

\* The variables stay in their types, and the waiters are the prompts that
\* have no reply yet, oldest first.
TerminalTypeOK ==
  /\ sock \in [Window -> {"none", "new", "expired", "open", "ending", "closing", "closed"}]
  /\ Current \in Window \union {NoWindow} /\ bound \subseteq {Current}
  /\ session \in {"none", "login", "up", "over"}
  /\ \A i \in DOMAIN asked : asked[i].kind \in Kind /\ asked[i].reply \in Replies
  /\ Range(waiters) = {i \in DOMAIN asked : asked[i].reply = "none"}
  /\ \A i, j \in DOMAIN waiters : i < j => waiters[i] < waiters[j]
  /\ kept \in [Kind -> 0 .. Len(asked)]
  /\ Len(face.buffer) <= BufferSize

\* The windows are sent the output in order, each chunk once, over any number
\* of handoffs, losses and cancelled transfers; while the session lives, a
\* chunk that was not sent is buffered, and what is buffered is the newest
\* output.  A chunk is given up when the buffer is full, and then BufferSize
\* newer ones follow, or when a window attaches that had timed out before
\* (send, flushTransferBuffer and bufferTransferData,
\* terminal-socket.ts:136-147, 214-238).
OutputIsKept ==
  /\ \A i \in 1 .. Len(sent) - 1 : sent[i] < sent[i + 1]
  /\ Live =>
       /\ 1 .. made = Range(sent) \union Range(face.buffer) \union lost.full \union lost.late
       /\ face.buffer # <<>> => Last(face.buffer) = made
       /\ \A n \in lost.full : n + BufferSize <= made

\* A window that shows the session is sent its output at once, unless that
\* very window has asked to be handed off: no freeze outlives the handoff it
\* was for (attach and handleMessage, terminal-socket.ts:95-117, 165-176).
OnlyAHandoffFreezes ==
  Live /\ Open(Current) /\ (face.buffering \/ face.buffer # <<>>) => Current \in preparing

\* The grace timer of a live session runs exactly while its window is gone:
\* a session in use is never ended by a timer or the late close of a window
\* it has left, and one without a window has a timer
\* (handleClose and attach, terminal-socket.ts:96-105, 186-202).
GraceRuns == Live => (face.timer <=> sock[Current] = "closed")

\* The window a session has is served, and only the one it lost is waited for
\* (attach, handleMessage and handleClose, terminal-socket.ts:95-117, 165-202).
WindowIsServed == OnlyAHandoffFreezes /\ GraceRuns

\* A session whose window is gone, and does not come back, ends with its
\* login and its transport, also when the login was waiting for an answer or
\* succeeds only later (terminal-socket.ts:353-358, 391-395, 803-806).
AbandonedSessionsEnd ==
  (face.state # "none" /\ sock[Current] = "closed") ~> (session = "over" \/ Open(Current))

-----------------------------------------------------------------------------
\* Claimed: an auth-response answers "the last `auth-prompt`", a
\* host-key-response "the last `host-key` challenge" (ws-protocol.ts), and no
\* BREAK is taken for an answer (terminal-socket.ts:339-340).  push() gives
\* the oldest prompt whatever frame comes next.
AnswersReachTheirPrompt ==
  \A i \in DOMAIN asked : asked[i].reply \notin {"mistaken", "cancelled"}
=============================================================================
