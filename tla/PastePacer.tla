------------------------------ MODULE PastePacer ------------------------------
(***************************************************************************)
(* The queue that types pastes into one terminal session at their pace:    *)
(* server/src/ws/paste-pacer.ts.  run() is one coroutine; each action is a *)
(* turn of it, from one await to the next, or a call from the session.  A  *)
(* step of a paste (pastePacingSteps) is one write: its text is reduced to *)
(* whether it ends a line and whether a delay follows it, its length to 1. *)
(***************************************************************************)
EXTENDS Integers, FiniteSets, Sequences, Functions, Sums

CONSTANTS Paste,   \* the pastes the user sends, each once
          NoPaste,
          Text     \* Text[p]: how p is typed, and its steps

Step == [lineEnd : BOOLEAN, delay : BOOLEAN]

\* A bracketed paste never waits for the prompt.
ASSUME TextAssumption ==
  NoPaste \notin Paste /\
  \A p \in Paste :
    /\ Text[p].bracketed \in BOOLEAN /\ Text[p].prompt \in BOOLEAN
    /\ Text[p].compiles \in BOOLEAN
    /\ Text[p].bracketed => ~Text[p].prompt
    /\ Text[p].steps \in Seq(Step) \ {<<>>}

VARIABLES
  pacer,    \* the PastePacer: queue, controller, closed and the counters
  run,      \* the locals of run(), and the await it is at
  out,      \* what the transport was given, in order
  report,   \* the last progress report
  pasted,   \* the pastes sent so far, in order (for the properties)
  dropped,  \* those cancelled, stopped or failed (for the properties)
  broken    \* the transport has failed a write (for the properties)

pacerVars == <<pacer, run, out, report, pasted, dropped, broken>>

Length(p) == Len(Text[p].steps)
Lines(p) ==
  Cardinality({i \in 1 .. Length(p) : Text[p].steps[i].lineEnd})
    + (IF Text[p].steps[Length(p)].lineEnd THEN 0 ELSE 1)

Total(queue) == SumOf([i \in 1 .. Len(queue) |-> Length(queue[i])])
TotalLines(queue) == SumOf([i \in 1 .. Len(queue) |-> Lines(queue[i])])

Idle == [at |-> "idle", paste |-> NoPaste, step |-> 0, bracketOpen |-> FALSE,
         answering |-> FALSE]

PacerInit ==
  /\ pacer = [queue |-> <<>>, controller |-> "none", closed |-> FALSE, sent |-> 0,
              total |-> 0, linesDone |-> 0, lines |-> 0, reported |-> FALSE]
  /\ run = Idle
  /\ out = <<>>
  /\ report = [state |-> "none"]
  /\ pasted = <<>>
  /\ dropped = {}
  /\ broken = FALSE

Aborted == pacer.controller = "aborted"
CurrentStep == Text[run.paste].steps[run.step]
AwaitsAnswer == Text[run.paste].prompt /\ CurrentStep.lineEnd

\* What a cancel, a stop or a close takes with it.
Unfinished == Range(pacer.queue) \union (IF run.at = "idle" THEN {} ELSE {run.paste})

Said(c, state) ==
  [state |-> state, sent |-> c.sent, total |-> c.total, lines |-> c.lines,
   line |-> IF state # "stopped" /\ c.linesDone < c.lines THEN c.linesDone + 1
            ELSE c.linesDone]

(***************************************************************************)
(* The write of step i of p: the first one of a bracketed paste opens the  *)
(* bracket, the last one closes it.  Below, c is the pacer as the turn has *)
(* changed it so far, and r the locals of the run.                         *)
(***************************************************************************)
Mark(kind, p, i) == [kind |-> kind, paste |-> p, step |-> i]

WriteStep(c, r, p, i) ==
  /\ pacer' = c
  /\ run' = [r EXCEPT !.at = "write", !.paste = p, !.step = i,
                      !.bracketOpen = Text[p].bracketed /\ i < Length(p)]
  /\ out' = out
       \o (IF Text[p].bracketed /\ ~r.bracketOpen THEN <<Mark("start", p, 0)>> ELSE <<>>)
       \o <<Mark("step", p, i)>>
       \o (IF Text[p].bracketed /\ i = Length(p) THEN <<Mark("end", p, 0)>> ELSE <<>>)

\* Variant: a run ends without the recount of what is queued by then.
RecountedZero(c) ==
  [c EXCEPT !.controller = "none", !.sent = 0, !.linesDone = 0, !.reported = FALSE,
            !.total = 0, !.lines = 0]

Recounted(c) ==
  [c EXCEPT !.controller = "none", !.sent = 0, !.linesDone = 0, !.reported = FALSE,
            !.total = Total(c.queue), !.lines = TotalLines(c.queue)]

\* The loop takes the next paste.  A pattern that does not compile stops the
\* run, and everything queued with it, before anything is written.
NextPaste(c, said) ==
  LET p == Head(c.queue) IN
  IF Text[p].compiles
    THEN /\ WriteStep([c EXCEPT !.queue = Tail(@), !.controller = "live"], Idle, p, 1)
         /\ report' = said
         /\ UNCHANGED dropped
    ELSE /\ pacer' = Recounted([c EXCEPT !.queue = <<>>])
         /\ run' = Idle
         /\ report' = Said(c, "stopped")
         /\ dropped' = dropped \union Range(c.queue)
         /\ UNCHANGED out

\* The end of a run.  A paste sent after a cancel but before the run wound
\* down starts the next one.
RunEnds(c) ==
  /\ pacer' = Recounted(c)
  /\ run' = Idle
  /\ UNCHANGED <<out, dropped>>

Report(c, state) ==
  IF c.closed \/ (state # "stopped" /\ ~c.reported) THEN report ELSE Said(c, state)

\* Variant: what came while the run wound down waits for the next paste.
WrapAlways(c, state) == RunEnds(c) /\ report' = Report(c, state)

Wrap(c, state) ==
  IF c.closed \/ c.queue = <<>>
    THEN RunEnds(c) /\ report' = Report(c, state)
    ELSE NextPaste(Recounted(c), Report(c, state))

\* A cancelled run closes the bracket it left open, so the shell leaves
\* paste mode; not when the session is gone.
CloseBracket(c, r) ==
  /\ pacer' = c
  /\ run' = [r EXCEPT !.at = "end", !.bracketOpen = FALSE]
  /\ out' = Append(out, Mark("end", r.paste, 0))
  /\ UNCHANGED <<report, dropped>>

\* Variant: the bracket stays open.
FinishOpen(c, r) == Wrap(c, "cancelled")

FinishRun(c, r) ==
  IF r.bracketOpen /\ ~c.closed THEN CloseBracket(c, r) ELSE Wrap(c, "cancelled")

\* The loop of run(), from the end of one step to the next await.
Advance(c, r) ==
  IF c.controller = "aborted" THEN FinishRun(c, r)
  ELSE IF r.step < Length(r.paste)
    THEN WriteStep(c, r, r.paste, r.step + 1) /\ UNCHANGED <<report, dropped>>
  ELSE IF c.queue # <<>> THEN NextPaste(c, report)
  ELSE Wrap(c, "done")

(***************************************************************************)
(* The turns of run().                                                     *)
(***************************************************************************)
\* Variant: every step counts as a line.
CountedLines(c) == [c EXCEPT !.sent = @ + 1, !.linesDone = @ + 1]

Counted(c) ==
  [c EXCEPT !.sent = @ + 1, !.linesDone = IF CurrentStep.lineEnd THEN @ + 1 ELSE @]

\* The transport took the write, or the run was aborted meanwhile.  Progress
\* is reported at most every 200 ms.
WriteDone ==
  LET c == Counted(pacer) IN
  /\ run.at = "write"
  /\ IF ~Aborted /\ (AwaitsAnswer \/ CurrentStep.delay)
       THEN /\ run' = [run EXCEPT !.at = "wait", !.answering = @ \/ AwaitsAnswer]
            /\ pacer' = [c EXCEPT !.reported = TRUE]
            /\ \/ report' = Said(c, "running")
               \/ pacer.reported /\ UNCHANGED report
            /\ UNCHANGED <<out, dropped>>
       ELSE Advance(c, run)
  /\ UNCHANGED <<pasted, broken>>

\* The transport failed underneath: the run ends, what is queued is tried.
WriteFails ==
  /\ run.at = "write" /\ ~Aborted
  /\ Wrap(pacer, "cancelled")
  /\ broken' = TRUE
  /\ UNCHANGED pasted

\* The delay is over, the prompt came or did not come in time, or an abort.
WaitDone ==
  /\ run.at = "wait"
  /\ Advance(pacer, run)
  /\ UNCHANGED <<pasted, broken>>

\* The device answered a line of this paste with an error, also while a
\* later delay of it runs, or a pattern could not be matched.
Rejected ==
  /\ run.at = "wait" /\ run.answering /\ ~Aborted
  /\ pacer' = Recounted([pacer EXCEPT !.queue = <<>>])
  /\ run' = Idle
  /\ report' = Said(pacer, "stopped")
  /\ dropped' = dropped \union Unfinished
  /\ UNCHANGED <<out, pasted, broken>>

BracketClosed ==
  /\ run.at = "end"
  /\ Wrap(pacer, "cancelled")
  /\ UNCHANGED <<pasted, broken>>

(***************************************************************************)
(* The calls of the session.                                               *)
(***************************************************************************)
Queued(c, p) == [c EXCEPT !.queue = Append(@, p)]

Enqueue(p) ==
  LET c == Queued(pacer, p)
      counted == [c EXCEPT !.total = @ + Length(p), !.lines = @ + Lines(p)]
  IN  /\ p \notin Range(pasted) /\ ~pacer.closed
      /\ pasted' = Append(pasted, p)
      /\ CASE pacer.controller = "none" -> NextPaste(counted, report)
           [] pacer.controller = "live" ->
                pacer' = counted /\ UNCHANGED <<run, out, report, dropped>>
           [] Aborted -> pacer' = c /\ UNCHANGED <<run, out, report, dropped>>
      /\ UNCHANGED broken

\* Variant: a cancel leaves the queue alone.
AbortedRun(c) == [c EXCEPT !.controller = IF @ = "live" THEN "aborted" ELSE @]

Cancelled(c) == [c EXCEPT !.queue = <<>>, !.controller = IF @ = "live" THEN "aborted" ELSE @]

Cancel ==
  /\ pacer' = Cancelled(pacer)
  /\ dropped' = dropped \union Unfinished
  /\ UNCHANGED <<run, out, report, pasted, broken>>

Close ==
  /\ pacer' = [Cancelled(pacer) EXCEPT !.closed = TRUE]
  /\ dropped' = dropped \union Unfinished
  /\ UNCHANGED <<run, out, report, pasted, broken>>

Turn == WriteDone \/ WriteFails \/ WaitDone \/ Rejected \/ BracketClosed

PacerNext ==
  \/ \E p \in Paste : Enqueue(p)
  \/ Cancel
  \/ Close
  \/ Turn

\* A write is taken or fails, and a wait has its timer.
PacerSpec == PacerInit /\ [][PacerNext]_pacerVars /\ WF_pacerVars(Turn)

-----------------------------------------------------------------------------
\* The variables stay in their types: a run has a controller, is at a step of
\* its paste, and counts no line that is not there.
PacerTypeOK ==
  /\ pacer.queue \in Seq(Paste) /\ pacer.closed \in BOOLEAN
  /\ pacer.controller \in {"none", "live", "aborted"}
  /\ (pacer.controller = "none") = (run.at = "idle")
  /\ run.at # "idle" => run.paste \in Paste /\ run.step \in 1 .. Length(run.paste)
  /\ pacer.linesDone \in 0 .. pacer.lines

\* While a run is not being cancelled, what it has sent and what is left of
\* the paste and of the queue add up to the total it reports, whatever was
\* cancelled, stopped or queued before, also while the last run wound down
\* (enqueue and run, paste-pacer.ts:91-95, 222-228).
ProgressAddsUp ==
  pacer.controller # "aborted" =>
    pacer.total = pacer.sent + Total(pacer.queue)
      + CASE run.at = "write" -> Length(run.paste) - run.step + 1
          [] run.at = "wait"  -> Length(run.paste) - run.step
          [] run.at = "idle"  -> 0

\* The last marker before position i opens a bracket.
OpenBefore(i) ==
  \E j \in 1 .. i - 1 :
    out[j].kind = "start" /\ \A k \in j + 1 .. i - 1 : out[k].kind # "end"

\* Over a working transport, text is inside a bracket exactly when its paste
\* is bracketed, every bracket holds one paste, and none is open between two
\* runs, unless the session is gone: a cancelled paste never leaves the shell
\* in paste mode for the next (run, paste-pacer.ts:160-167, 200-206).
BracketsMatch ==
  ~broken =>
    /\ \A i \in DOMAIN out :
         out[i].kind = "step" => (OpenBefore(i) <=> Text[out[i].paste].bracketed)
    /\ \A i \in DOMAIN out :
         out[i].kind = "start" => ~OpenBefore(i)
    /\ run.at = "idle" /\ ~pacer.closed => ~OpenBefore(Len(out) + 1)

SentBefore(p, q) == \E i, j \in DOMAIN pasted : i < j /\ pasted[i] = p /\ pasted[j] = q

\* What is typed at j comes right after what is typed at i.
TypedNext(i, j) ==
  /\ i < j /\ out[i].kind = "step" /\ out[j].kind = "step"
  /\ \A k \in i + 1 .. j - 1 : out[k].kind # "step"

\* Pastes are typed one after the other in the order they were sent, each
\* from its first step without a gap, across cancels and the runs they end
\* (class comment, paste-pacer.ts:42-49).
TypedInOrder ==
  \A i, j \in DOMAIN out :
    TypedNext(i, j) =>
      \/ out[j].paste = out[i].paste /\ out[j].step = out[i].step + 1
      \/ out[j].step = 1 /\ SentBefore(out[i].paste, out[j].paste)

\* What reaches the shell are whole steps of the pastes, in the order and the
\* brackets they were sent in (run, paste-pacer.ts:160-206).
TypedAsSent == BracketsMatch /\ TypedInOrder

\* What was sent before a cancel, a stop at a rejected line or the end of the
\* session is never typed on after it; what is sent later is another matter
\* (cancel and stop, paste-pacer.ts:99-109, 130-134).
DroppedStaysDropped ==
  [][\A i \in Len(out) + 1 .. Len(out') :
       out'[i].kind = "step" => out'[i].paste \notin dropped]_pacerVars

\* Once the session is gone nothing more is written or reported, although the
\* run has still to wind down (close, paste-pacer.ts:105-109, 200, 209-221).
ClosedIsSilent == [][pacer.closed => UNCHANGED <<out, report>>]_pacerVars

\* What was dropped, by a cancel, a stop or the end of the session, leaves no
\* trace although the run has still to wind down (paste-pacer.ts:99-134, 209-221).
DroppedIsSilent == DroppedStaysDropped /\ ClosedIsSilent

\* A queued paste is typed to its end, unless it is dropped or the transport
\* fails: none is forgotten when the run before it is cancelled.
QueuedIsTyped ==
  \A p \in Paste :
    p \in Range(pacer.queue) ~>
      (broken \/ p \in dropped \/ Mark("step", p, Length(p)) \in Range(out))
=============================================================================
