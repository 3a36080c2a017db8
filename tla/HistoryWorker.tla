---------------------------- MODULE HistoryWorker ----------------------------
(***************************************************************************)
(* The session history worker (server/src/session-logging/                 *)
(* history-worker.js).  It handles one message at a time, in durable steps *)
(* (file operations and SQLite statements), because the process may die    *)
(* between any two of them; `step` is where in its handler it is.          *)
(*                                                                         *)
(* An event is its sequence number and weighs one unit of maxPartBytes.    *)
(* Torn frames, which decodeSegment cuts off, hold no event and are not    *)
(* modelled; neither are the counters and flags shown in the list (the     *)
(* set-state message), pins and names.                                     *)
(***************************************************************************)
EXTENDS Integers, Sequences, FiniteSets, Functions

CONSTANTS
  NSessions,   \* sessions that can ever be begun
  PartSize,    \* policy.maxPartBytes, in events
  MaxParts     \* policy.maxParts

ASSUME WorkerAssumption ==
  NSessions \in Nat /\ PartSize \in Nat \ {0} /\ MaxParts \in Nat \ {0}

VARIABLES
  inbox,     \* messages posted to the worker, oldest first
  replies,   \* answers posted back and not yet handled
  disk,      \* disk[s]: rows and files of session s, see NewRecord
  writer,    \* writers: the open part of s and the events written to it
  handling,  \* the message being handled, or Idle
  step       \* the next durable step, see Doing

workerVars == <<inbox, replies, disk, writer, handling, step>>

Session == 1 .. NSessions
Message(op, s) == [op |-> op, s |-> s, es |-> <<>>, to |-> ""]
Idle == Message("idle", 0)
NoWriter == [part |-> 0, count |-> 0]

\* A session without a row; chunks are rows <<event, part>>, parts the rows
\* of session_parts, partial and segment the .partial and .zst files by part.
NewRecord == [status |-> "none", part |-> 0, chunks |-> {}, parts |-> {},
              partial |-> <<>>, segment |-> <<>>]

Active == {s \in Session : disk[s].status = "active"}
EndedSessions == {s \in Session : disk[s].status \in {"completed", "failed", "disconnected"}}
Writing == {s \in Session : writer[s] # NoWriter}

\* A variant that trims the newest parts.
Highest(S, x) == x \in S /\ \A y \in S : x >= y

Lowest(S, x) == x \in S /\ \A y \in S : x <= y

\* A step of session s on part p, with the events of the batch still to be
\* written and the rows of those that were (`retained`).
Doing(phase) == [at |-> phase, s |-> 0, p |-> 0, es |-> <<>>, rows |-> {}]
DoingPart(phase, s, p) == [Doing(phase) EXCEPT !.s = s, !.p = p]

WorkerInit ==
  /\ inbox = <<>> /\ replies = <<>>
  /\ disk = [s \in Session |-> NewRecord]
  /\ writer = [s \in Session |-> NoWriter]
  /\ handling = Idle /\ step = Doing("idle")

-----------------------------------------------------------------------------
(* What comes next *)

\* A variant that looks at the size before the frame.
FullLate(w) == w.count > 0 /\ w.count > PartSize

Full(w) == w.count > 0 /\ w.count + 1 > PartSize

\* appendEvents(): a frame, after a rotation when it would not fit; when all
\* are written, their rows.
NextFrame(x, w) ==
  [x EXCEPT !.at = IF x.es = <<>> THEN "commit" ELSE IF Full(w) THEN "seal" ELSE "write"]

\* trimSessionParts(): one slot is reserved for the part just opened.
Trimming(x, parts) == [x EXCEPT !.at = IF Cardinality(parts) >= MaxParts THEN "trim" ELSE "write"]

\* finalizeWriter() returns.
Sealed(x) ==
  CASE handling.op = "append" -> [x EXCEPT !.at = "rotate", !.p = @ + 1]
    [] handling.op = "finish" -> [x EXCEPT !.at = "finish"]
    [] handling.op = "close" -> Doing("close")
    [] handling = Idle -> Doing("recover")

\* dispatch()
First(m) ==
  CASE m.op = "begin" -> Doing("retain")
    [] m.op = "append" ->
         IF m.s \notin Active THEN Doing("done")
         ELSE LET x == [DoingPart("open", m.s, disk[m.s].part) EXCEPT !.es = m.es]
              IN IF m.s \in Writing THEN NextFrame(x, writer[m.s]) ELSE x
    [] m.op = "finish" -> DoingPart(IF m.s \in Writing THEN "seal" ELSE "finish", m.s, 0)
    [] m.op = "delete" ->
         IF m.s \in EndedSessions THEN DoingPart("trash", m.s, 0) ELSE Doing("done")
    [] m.op = "close" -> Doing("close")

-----------------------------------------------------------------------------
(* The durable steps *)

With(f, p, v) == [q \in DOMAIN f \union {p} |-> IF q = p THEN v ELSE f[q]]
Without(f, p) == [q \in DOMAIN f \ {p} |-> f[q]]

On(s, record) == disk' = [disk EXCEPT ![s] = record]
Moves == UNCHANGED <<inbox, replies, handling>>

\* openWriter(): a partial file that exists is appended to.
OpenPart ==
  /\ step.at \in {"open", "rotate"}
  /\ LET s == step.s
         w == [part |-> step.p, count |-> 0]
     IN /\ On(s, IF step.p \in DOMAIN disk[s].partial THEN disk[s]
                 ELSE [disk[s] EXCEPT !.partial = With(@, step.p, {})])
        /\ writer' = [writer EXCEPT ![s] = w]
        /\ step' = CASE handling.op = "begin" -> Doing("done")
                     [] step.at = "rotate" -> Trimming(step, disk[s].parts)
                     [] OTHER -> NextFrame(step, w)
  /\ Moves

Write ==
  /\ step.at = "write"
  /\ LET s == step.s
         e == Head(step.es)
         p == writer[s].part
         w == [writer[s] EXCEPT !.count = @ + 1]
     IN /\ On(s, [disk[s] EXCEPT !.partial = With(@, p, @[p] \union {e})])
        /\ writer' = [writer EXCEPT ![s] = w]
        /\ step' = NextFrame([step EXCEPT !.es = Tail(@), !.rows = @ \union {<<e, p>>}], w)
  /\ Moves

\* finalizeWriter() is for this session; a shutdown takes all, one by one.
Finalizing(s) == (step.at = "seal" /\ s = step.s) \/ (step.at = "close" /\ Lowest(Writing, s))

\* finalizePartial() up to the rename; the writer is forgotten first.
Compress(s) ==
  /\ Finalizing(s) /\ writer[s].count > 0
  /\ LET p == writer[s].part
     IN /\ On(s, [disk[s] EXCEPT !.segment = With(@, p, disk[s].partial[p])])
        /\ step' = [step EXCEPT !.at = "unlink", !.s = s, !.p = p]
  /\ writer' = [writer EXCEPT ![s] = NoWriter]
  /\ Moves

\* An empty part is dropped.
Discard(s) ==
  /\ Finalizing(s) /\ writer[s].count = 0
  /\ On(s, [disk[s] EXCEPT !.partial = Without(@, writer[s].part)])
  /\ writer' = [writer EXCEPT ![s] = NoWriter]
  /\ step' = Sealed(step)
  /\ Moves

Unlink ==
  /\ step.at = "unlink"
  /\ On(step.s, [disk[step.s] EXCEPT !.partial = Without(@, step.p)])
  /\ step' = [step EXCEPT !.at = "enter"]
  /\ Moves /\ UNCHANGED writer

Enter ==
  /\ step.at = "enter"
  /\ On(step.s, [disk[step.s] EXCEPT !.parts = @ \union {step.p}])
  /\ step' = Sealed(step)
  /\ Moves /\ UNCHANGED writer

RemovePart(p) ==
  /\ step.at = "trim" /\ Lowest(disk[step.s].parts, p)
  /\ On(step.s, [disk[step.s] EXCEPT !.segment = Without(@, p)])
  /\ step' = [step EXCEPT !.at = "forget", !.p = p]
  /\ Moves /\ UNCHANGED writer

\* The transaction of trimSessionParts().
Forget ==
  /\ step.at = "forget"
  /\ LET parts == disk[step.s].parts \ {step.p}
     IN /\ On(step.s, [disk[step.s] EXCEPT !.chunks = {r \in @ : r[2] # step.p}, !.parts = parts])
        /\ step' = Trimming(step, parts)
  /\ Moves /\ UNCHANGED writer

\* The transaction of appendEvents().
CommitRows ==
  /\ step.at = "commit"
  /\ On(step.s, [disk[step.s] EXCEPT !.chunks = @ \union step.rows, !.part = writer[step.s].part])
  /\ step' = Doing("retain")
  /\ Moves /\ UNCHANGED writer

Insert ==
  /\ step.at = "retain" /\ handling.op = "begin"
  /\ On(handling.s, [disk[handling.s] EXCEPT !.status = "active", !.part = 1])
  /\ step' = DoingPart("open", handling.s, 1)
  /\ Moves /\ UNCHANGED writer

FinishRecord ==
  /\ step.at = "finish"
  /\ On(step.s, IF step.s \in Active THEN [disk[step.s] EXCEPT !.status = handling.to]
                ELSE disk[step.s])
  /\ step' = Doing("retain")
  /\ Moves /\ UNCHANGED writer

\* deleteSession(): the directory goes to the trash before the row goes.  The
\* disk may ask for finished sessions (enforceRetention()): the maintenance
\* timer, or a handler that calls it.
Trash(s) ==
  /\ \/ step.at = "trash" /\ s = step.s
     \/ step.at \in {"idle", "retain"} /\ s \in EndedSessions
  /\ On(s, [disk[s] EXCEPT !.partial = <<>>, !.segment = <<>>])
  /\ step' = DoingPart("delete", s, 0)
  /\ Moves /\ UNCHANGED writer

\* The row takes its chunks and parts along (ON DELETE CASCADE).
Delete ==
  /\ step.at = "delete"
  /\ On(step.s, IF step.s \in Active THEN disk[step.s]
                ELSE [NewRecord EXCEPT !.status = "deleted", !.partial = disk[step.s].partial,
                                       !.segment = disk[step.s].segment])
  /\ step' = Doing(IF handling = Idle THEN "idle" ELSE "retain")
  /\ Moves /\ UNCHANGED writer

Disconnected(sessions) ==
  disk' = [s \in Session |-> IF s \in sessions
                             THEN [disk[s] EXCEPT !.status = "disconnected"] ELSE disk[s]]

\* The end of closeWorker().
Disconnect ==
  /\ step.at = "close" /\ Writing = {}
  /\ Disconnected(Active)
  /\ step' = Doing("done")
  /\ Moves /\ UNCHANGED writer

\* recoverInterruptedSessions(): each partial file of an active session is
\* dropped or compressed, then its record is closed.
Recovering(s) == step.at = "recover" /\ Lowest(Active, s)

RecoverPart(s, p) ==
  /\ Recovering(s) /\ p \in DOMAIN disk[s].partial
  /\ IF disk[s].partial[p] = {}
     THEN On(s, [disk[s] EXCEPT !.partial = Without(@, p)]) /\ UNCHANGED step
     ELSE /\ On(s, [disk[s] EXCEPT !.segment = With(@, p, disk[s].partial[p])])
          /\ step' = DoingPart("unlink", s, p)
  /\ Moves /\ UNCHANGED writer

Recovered(s) ==
  /\ Recovering(s) /\ DOMAIN disk[s].partial = {}
  /\ Disconnected({s})
  /\ step' = Doing(IF Active = {s} THEN "idle" ELSE "recover")
  /\ Moves /\ UNCHANGED writer

-----------------------------------------------------------------------------
(* The message loop *)

ReplyTo(m, ok) == [op |-> m.op, s |-> m.s, n |-> Len(m.es), ok |-> ok]

\* The port's message handler takes the next message.
Take ==
  /\ handling = Idle /\ step.at = "idle" /\ inbox # <<>>
  /\ handling' = Head(inbox) /\ inbox' = Tail(inbox)
  /\ step' = First(Head(inbox))
  /\ UNCHANGED <<replies, disk, writer>>

\* quotaSuspended refuses a batch before it changes anything.
Refuse ==
  /\ handling = Idle /\ step.at = "idle" /\ inbox # <<>>
  /\ Head(inbox).op = "append"
  /\ inbox' = Tail(inbox)
  /\ replies' = Append(replies, ReplyTo(Head(inbox), FALSE))
  /\ UNCHANGED <<disk, writer, handling, step>>

\* The answer, where the main thread acts on it: quotaSuspended refuses a
\* session before its row, a batch that exhausts the quota after its rows.
PostReply ==
  /\ handling # Idle /\ step.at \in {"done", "retain"}
  /\ \/ /\ handling.op = "append"
        /\ \E ok \in BOOLEAN : replies' = Append(replies, ReplyTo(handling, ok))
     \/ handling.op = "close" /\ replies' = Append(replies, ReplyTo(handling, TRUE))
     \/ /\ handling.op = "begin" /\ step.at = "retain"
        /\ replies' = Append(replies, ReplyTo(handling, FALSE))
     \/ handling.op = "begin" /\ step.at = "done" /\ UNCHANGED replies
     \/ handling.op \in {"finish", "delete"} /\ UNCHANGED replies
  /\ handling' = Idle
  /\ step' = Doing(IF handling.op = "close" THEN "closed" ELSE "idle")
  /\ UNCHANGED <<inbox, disk, writer>>

WorkerNext ==
  \/ OpenPart \/ Write \/ Unlink \/ Enter \/ Forget \/ CommitRows \/ Insert \/ FinishRecord
  \/ Delete \/ Disconnect \/ Take \/ Refuse \/ PostReply
  \/ \E s \in Session :
       \/ Compress(s) \/ Discard(s) \/ Trash(s) \/ Recovered(s)
       \/ \E p \in DOMAIN disk[s].partial : RecoverPart(s, p)
  \/ \E p \in UNION {disk[s].parts : s \in Session} : RemovePart(p)

\* A variant that recovers only what a crash left open.
WorkerStartFiles ==
  /\ inbox' = <<>> /\ replies' = <<>>
  /\ writer' = [s \in Session |-> NoWriter]
  /\ handling' = Idle
  /\ step' = Doing(IF \A s \in Active : disk[s].partial = <<>> THEN "idle" ELSE "recover")
  /\ UNCHANGED disk

\* The worker starts over what the last run left: recovery first, messages after.
WorkerStart ==
  /\ inbox' = <<>> /\ replies' = <<>>
  /\ writer' = [s \in Session |-> NoWriter]
  /\ handling' = Idle
  /\ step' = Doing(IF Active = {} THEN "idle" ELSE "recover")
  /\ UNCHANGED disk
=============================================================================
