------------------------------ MODULE AutoTyping ------------------------------
(***************************************************************************)
(* What the backend types into one terminal session by itself: the login   *)
(* sequence (server/src/login-sequence/runner.ts, session.ts,              *)
(* output-matcher.ts) and the anti-idle text (ws/anti-idle.ts), as         *)
(* ws/terminal-socket.ts starts them, next to the user's keys and pastes.  *)
(* One Tick is the second after which a held anti-idle timer looks again.  *)
(* Output is a sequence of characters, its escape sequences removed.       *)
(***************************************************************************)
EXTENDS Integers, Sequences, FiniteSets, Sums

CONSTANTS LoginSequences, \* the login sequences a host may have
          NoSteps,        \* a host without one
          Char,           \* characters of the output
          Window,         \* LOGIN_OUTPUT_WINDOW
          Interval,       \* the anti-idle interval, in ticks
          MaxReceived     \* characters the session prints

MasterPasswordAttempts == 3

Wait(pattern, regex, valid) ==
  [kind |-> "wait", pattern |-> pattern, regex |-> regex, valid |-> valid]
Other(kind) == [kind |-> kind]

\* What waits for a text waits for some text (metadata-schema.ts:45).
LoginStep ==
  [kind : {"wait"}, pattern : Seq(Char) \ {<<>>}, regex : BOOLEAN, valid : BOOLEAN]
    \union [kind : {"send", "secret"}]

ASSUME TypingAssumption ==
  /\ LoginSequences \subseteq Seq(LoginStep) /\ NoSteps \notin LoginSequences
  /\ Window \in Nat /\ Interval \in Nat \ {0} /\ MaxReceived \in Nat

VARIABLES
  steps,      \* the login sequence
  afterFirst, \* the anti-idle timer starts at the first input (all but plain SSH)
  runner,     \* the runner: where it is, its abort signal, its queued check
  output,     \* the LoginOutputBuffer, and how much was received
  idle,       \* the AntiIdleTimer
  pasting,    \* a paced paste runs
  open,       \* the socket of the session
  quiet,      \* ticks since the transport was given anything (for the properties)
  typed       \* the last thing it was given, and when (for the properties)

typingVars == <<steps, afterFirst, runner, output, idle, pasting, open, quiet, typed>>

NoOutput == [text |-> <<>>, searched |-> 0, received |-> 0]

TypingInit ==
  /\ steps \in LoginSequences \union {NoSteps}
  /\ afterFirst \in BOOLEAN
  /\ runner = [at |-> "attached", step |-> 1, aborted |-> "no", queued |-> FALSE, attempt |-> 0]
  /\ output = NoOutput
  /\ idle = [at |-> "absent", timer |-> 0, age |-> 0, held |-> FALSE]
  /\ pasting = FALSE
  /\ open = TRUE
  /\ quiet = Interval
  /\ typed = [any |-> FALSE, early |-> FALSE, late |-> FALSE]

SequenceOver == {"done", "failed", "cancelled", "closed"}
SequenceActive == runner.at \notin SequenceOver
LoginRunning == runner.at \notin SequenceOver \union {"attached"}
Deriving == {"deriving", "deriving wrong"}   \* the vault checks a master password
Busy == pasting \/ LoginRunning
Aborted == runner.aborted # "no"

\* No event is handled while the session is attached and the sequence started, nor
\* between two steps that follow each other without waiting.
Turn == runner.at \notin {"attached", "next"}

StepIs(kind) == steps[runner.step].kind = kind
RunnerIs(where) == runner' = [runner EXCEPT !.at = where] /\ UNCHANGED output
NextStep ==
  /\ runner' = [runner EXCEPT !.at = "next", !.step = @ + 1, !.attempt = 0]
  /\ UNCHANGED output

\* finish(): the output is not looked at any more, and is forgotten here.
Finishes(state) ==
  /\ runner' = [runner EXCEPT !.at = state, !.step = 1, !.attempt = 0]
  /\ output' = NoOutput

RunnerStopped == Finishes(IF runner.aborted = "cancelled" THEN "cancelled" ELSE "closed")

-----------------------------------------------------------------------------
(* The transport and the anti-idle timer *)

WaitBegun(i) == [i EXCEPT !.at = "running", !.age = 0, !.timer = Interval]

\* AntiIdleTimer.input()
Input(i) == IF i.at = "armed" THEN WaitBegun(i) ELSE [i EXCEPT !.age = 0]

\* When anti-idle text is in its place (for the properties).
MayTypeIdly == quiet = Interval /\ ~Busy /\ (afterFirst => typed.any)

Types(who) ==
  /\ quiet' = 0
  /\ typed' = [any   |-> TRUE,
               early |-> typed.early \/ (who = "idle" /\ ~MayTypeIdly),
               late  |-> typed.late \/ (who = "send" /\ Aborted)]

TypesNothing == UNCHANGED <<typed, quiet>>

\* startAntiIdle(): after the sequence has taken its first step.
Begun ==
  IF ~open THEN idle ELSE IF afterFirst THEN [idle EXCEPT !.at = "armed"] ELSE WaitBegun(idle)

\* A write of the sequence: what its first step types finds no timer to tell.
Told == IF idle.at = "absent" THEN Begun ELSE Input(idle)
NotTold == IF idle.at = "absent" THEN Begun ELSE idle

-----------------------------------------------------------------------------
(* The login sequence *)

\* LoginOutputBuffer.append()
Appended(c) ==
  LET all == Append(output.text, c)
      dropped == IF Len(all) > Window THEN Len(all) - Window ELSE 0 IN
  [text |-> SubSeq(all, dropped + 1, Len(all)),
   searched |-> IF output.searched > dropped THEN output.searched - dropped ELSE 0,
   received |-> output.received + 1]

Occurs(pattern, text, i) ==
  i + Len(pattern) - 1 <= Len(text) /\ SubSeq(text, i, i + Len(pattern) - 1) = pattern

\* Variant: the search resumes where it ended, not a pattern's length before.
SearchFromEnd(step) == IF step.regex THEN 1 ELSE output.searched + 1

\* LoginOutputBuffer.find(): a literal is looked for from where the last search ended.
SearchFrom(step) ==
  LET from == output.searched - Len(step.pattern) + 1 IN
  IF step.regex \/ from < 0 THEN 1 ELSE from + 1

MatchesFrom(step, first) == {i \in first .. Len(output.text) : Occurs(step.pattern, output.text, i)}

Searched(step) ==
  IF step.regex THEN output ELSE [output EXCEPT !.searched = Len(output.text)]

Consumed(step, i) ==
  [output EXCEPT !.text = SubSeq(@, i + Len(step.pattern), Len(@)), !.searched = 0]

\* The check of a wait step: on a match the next step follows at once.
Checks ==
  LET step == steps[runner.step]
      found == MatchesFrom(step, SearchFrom(step)) IN
  IF found # {}
  THEN /\ output' = Consumed(step, CHOOSE i \in found : \A j \in found : i <= j)
       /\ runner' = [runner EXCEPT !.at = "next", !.step = @ + 1, !.queued = FALSE]
  ELSE /\ output' = Searched(step)
       /\ runner' = [runner EXCEPT !.at = "waiting", !.queued = FALSE]

\* start(), as soon as the transport is attached.
StartLogin ==
  /\ runner.at = "attached" /\ idle.at = "absent"
  /\ IF steps = NoSteps
     THEN idle' = Begun /\ Finishes("done")
     ELSE idle' = idle /\ RunnerIs("next")
  /\ TypesNothing
  /\ UNCHANGED <<steps, afterFirst, pasting, open>>

StepStops ==
  /\ runner.at = "next" /\ (Aborted \/ runner.step > Len(steps))
  /\ IF Aborted THEN RunnerStopped ELSE Finishes("done")
  /\ idle' = NotTold /\ TypesNothing
  /\ UNCHANGED <<steps, afterFirst, pasting, open>>

\* The session is open here: its end aborts the sequence.
NextIs(kind) == runner.at = "next" /\ ~Aborted /\ runner.step <= Len(steps) /\ StepIs(kind)

StepWaits ==
  /\ NextIs("wait")
  /\ IF steps[runner.step].valid THEN Checks ELSE Finishes("failed")
  /\ idle' = NotTold /\ TypesNothing
  /\ UNCHANGED <<steps, afterFirst, pasting, open>>

StepSends ==
  /\ NextIs("send")
  /\ NextStep /\ Types("send") /\ idle' = Told
  /\ UNCHANGED <<steps, afterFirst, pasting, open>>

\* typeSecret() with the vault unlocked, with the vault locked, and for a secret
\* that is gone.
StepTypesSecret ==
  /\ NextIs("secret")
  /\ \/ NextStep /\ Types("secret") /\ idle' = Told
     \/ RunnerIs("asking") /\ TypesNothing /\ idle' = NotTold
     \/ Finishes("failed") /\ TypesNothing /\ idle' = NotTold
  /\ UNCHANGED <<steps, afterFirst, pasting, open>>

\* The output of a session whose sequence is over is not looked at.
Receives(c) ==
  /\ runner.at # "next" /\ SequenceActive /\ output.received < MaxReceived
  /\ output' = Appended(c)
  /\ runner' = [runner EXCEPT !.queued = @ \/ runner.at = "waiting"]
  /\ UNCHANGED <<steps, afterFirst, idle, pasting, open, quiet, typed>>

\* The queued check wakes the step that waits by then, if one does.
QueuedCheck ==
  /\ Turn /\ runner.queued
  /\ IF runner.at = "waiting" THEN Checks
     ELSE runner' = [runner EXCEPT !.queued = FALSE] /\ UNCHANGED output
  /\ UNCHANGED <<steps, afterFirst, idle, pasting, open, quiet, typed>>

WaitTimesOut ==
  /\ runner.at = "waiting"
  /\ Finishes("failed")
  /\ UNCHANGED <<steps, afterFirst, idle, pasting, open, quiet, typed>>

MasterPasswordGiven ==
  /\ runner.at = "asking" /\ open
  /\ \/ \E password \in {"deriving", "deriving wrong"} :
          runner' = [runner EXCEPT !.at = password, !.attempt = @ + 1] /\ UNCHANGED output
     \/ Finishes("failed")   \* skipped, or the secret is gone by now
  /\ UNCHANGED <<steps, afterFirst, idle, pasting, open, quiet, typed>>

\* The vault answers whether or not the sequence has been stopped meanwhile: the
\* secret is typed, and the sequence stops behind it.
SecretDecrypted ==
  /\ runner.at = "deriving"
  /\ IF open
     THEN /\ Types("secret") /\ idle' = Input(idle)
          /\ IF Aborted THEN RunnerStopped ELSE NextStep
     ELSE TypesNothing /\ idle' = idle /\ RunnerStopped
  /\ UNCHANGED <<steps, afterFirst, pasting, open>>

\* A wrong master password, or a secret that cannot be decrypted.
SecretRefused ==
  /\ runner.at \in Deriving
  /\ IF Aborted THEN RunnerStopped
     ELSE IF runner.at = "deriving" \/ runner.attempt >= MasterPasswordAttempts
     THEN Finishes("failed") ELSE RunnerIs("asking")
  /\ UNCHANGED <<steps, afterFirst, idle, pasting, open, quiet, typed>>

\* The abort signal ends a wait and a prompt at once; its first reason counts.
Aborts(reason) ==
  LET why == IF Aborted THEN runner.aborted ELSE reason IN
  /\ runner' = IF ~SequenceActive THEN runner
               ELSE IF runner.at \in Deriving THEN [runner EXCEPT !.aborted = why]
               ELSE [runner EXCEPT !.aborted = why, !.at = why, !.step = 1, !.attempt = 0]
  /\ output' = IF runner.at \in Deriving THEN output ELSE NoOutput

CancelLogin ==
  /\ Turn /\ open /\ steps # NoSteps
  /\ Aborts("cancelled")
  /\ UNCHANGED <<steps, afterFirst, idle, pasting, open, quiet, typed>>

-----------------------------------------------------------------------------
(* The session *)

UserTypes ==
  /\ Turn /\ open
  /\ Types("user") /\ idle' = Input(idle)
  /\ UNCHANGED <<steps, afterFirst, runner, output, pasting, open>>

PasteStarts ==
  /\ Turn /\ open /\ ~pasting
  /\ pasting' = TRUE
  /\ Types("paste") /\ idle' = Input(idle)
  /\ UNCHANGED <<steps, afterFirst, runner, output, open>>

PasteWrites ==
  /\ Turn /\ open /\ pasting
  /\ Types("paste") /\ idle' = Input(idle)
  /\ UNCHANGED <<steps, afterFirst, runner, output, pasting, open>>

PasteEnds ==
  /\ Turn /\ pasting
  /\ pasting' = FALSE
  /\ UNCHANGED <<steps, afterFirst, runner, output, idle, open, quiet, typed>>

SocketCloses ==
  /\ Turn /\ open
  /\ open' = FALSE
  /\ idle' = [at |-> "closed", timer |-> 0, age |-> 0, held |-> FALSE]
  /\ Aborts("closed")
  /\ UNCHANGED <<steps, afterFirst, pasting, quiet, typed>>

\* Time passes while the session is open; a timer that is due may fire late.
Capped(n) == IF n < Interval THEN n + 1 ELSE Interval

Tick ==
  /\ Turn /\ open
  /\ quiet' = Capped(quiet)
  /\ idle' = IF idle.at # "running" THEN idle
             ELSE [idle EXCEPT !.age = Capped(@), !.timer = IF @ > 0 THEN @ - 1 ELSE 0]
  /\ UNCHANGED <<steps, afterFirst, runner, output, pasting, open, typed>>

\* AntiIdleTimer.check(): the first look after a hold starts a full wait.
IdleFor == IF idle.held THEN 0 ELSE idle.age

IdleHeld ==
  /\ Busy
  /\ idle' = [idle EXCEPT !.held = TRUE, !.timer = 1]
  /\ TypesNothing

IdleWaits ==
  /\ ~Busy /\ IdleFor < Interval
  /\ idle' = [idle EXCEPT !.held = FALSE, !.age = IdleFor, !.timer = Interval - IdleFor]
  /\ TypesNothing

IdleTypes ==
  /\ ~Busy /\ IdleFor >= Interval
  /\ idle' = [idle EXCEPT !.held = FALSE, !.age = 0, !.timer = Interval]
  /\ Types("idle")

IdleCheck ==
  /\ Turn /\ idle.at = "running" /\ idle.timer = 0
  /\ IdleHeld \/ IdleWaits \/ IdleTypes
  /\ UNCHANGED <<steps, afterFirst, runner, output, pasting, open>>

TypingNext ==
  \/ StartLogin \/ StepStops \/ StepWaits \/ StepSends \/ StepTypesSecret
  \/ \E c \in Char : Receives(c)
  \/ QueuedCheck \/ WaitTimesOut \/ MasterPasswordGiven \/ SecretDecrypted \/ SecretRefused
  \/ CancelLogin
  \/ UserTypes \/ PasteStarts \/ PasteWrites \/ PasteEnds \/ SocketCloses
  \/ Tick \/ IdleCheck

TypingSpec == TypingInit /\ [][TypingNext]_typingVars

-----------------------------------------------------------------------------
(* Properties *)

\* The types, and that the search never resumes past the end of the window.
TypingTypeOK ==
  /\ runner.at \in SequenceOver \union Deriving \union {"attached", "next", "waiting", "asking"}
  /\ runner.attempt \in 0 .. MasterPasswordAttempts
  /\ runner.aborted \in {"no", "cancelled", "closed"} /\ runner.queued \in BOOLEAN
  /\ output.text \in Seq(Char) /\ Len(output.text) <= Window
  /\ output.searched \in 0 .. Len(output.text)
  /\ idle.at \in {"absent", "armed", "running", "closed"} /\ idle.held \in BOOLEAN
  /\ idle.timer \in 0 .. Interval /\ idle.age \in 0 .. Interval
  /\ quiet \in 0 .. Interval /\ pasting \in BOOLEAN /\ open \in BOOLEAN

\* A wait that has no check queued has looked at all of the window: what it waits
\* for is nowhere in it, though a literal is only looked for where it may be new.
NothingIsMissed ==
  runner.at = "waiting" /\ ~runner.queued => MatchesFrom(steps[runner.step], 1) = {}

\* Two waits for the same text wait for it twice: what one has matched, and what
\* came before, is no longer there for the next.
MatchedIn(n) == IF steps[n].kind = "wait" THEN Len(steps[n].pattern) ELSE 0
MatchedLength == SumOf([n \in 1 .. runner.step - 1 |-> MatchedIn(n)])

EachMatchIsNew ==
  SequenceActive /\ steps # NoSteps => MatchedLength + Len(output.text) <= output.received

\* Anti-idle text follows a full interval in which nothing was typed by anyone, never
\* into a paste or a login sequence, and never at a login prompt nobody has answered.
IdleTextWaits == ~typed.early

\* A sequence that was cancelled, or whose session closed, sends no more text and asks
\* for nothing; only a secret that is being decrypted is still waited for.
StoppedMeansStopped ==
  /\ ~typed.late
  /\ Aborted /\ Turn => runner.at \in SequenceOver \union Deriving
  /\ ~open => Aborted \/ ~SequenceActive

\* What is typed automatically is typed at its time.
TypingIsSound == NothingIsMissed /\ EachMatchIsNew /\ IdleTextWaits /\ StoppedMeansStopped
=============================================================================
