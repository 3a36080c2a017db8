---------------------------- MODULE SessionHistory ----------------------------
(***************************************************************************)
(* The recorder of one terminal and the store it writes to on the main     *)
(* thread (server/src/session-logging/session-recorder.ts and              *)
(* history-store.ts), with the worker behind them and the application      *)
(* dying and starting again.                                               *)
(*                                                                         *)
(* A handler of the main thread changes several things in a row, any of    *)
(* which may suspend the recording; it is written as an operator from one  *)
(* main state to the next.  Input capture, titles and the normalizers are  *)
(* left out: what they persist is one more event of a batch.               *)
(***************************************************************************)
EXTENDS HistoryWorker, Sums

CONSTANTS
  MaxEvents,   \* output is offered to a session until it has this many events
  MaxBatch,    \* events the flush timer lets a batch grow to
  QueueLimit,  \* MAX_PENDING_WRITE_BYTES, in events
  MaxStarts    \* runs of the application

ASSUME HistoryAssumption ==
  MaxEvents \in Nat /\ MaxBatch \in Nat /\ QueueLimit \in Nat /\ MaxStarts \in Nat \ {0}

VARIABLES
  main,    \* recorder and store of the running application
  begun,   \* session ids handed out so far
  starts   \* times the application was started

historyVars == <<workerVars, main, begun, starts>>

\* posts and rejects hold what the current handler sends and refuses.
NewMain == [store |-> "starting", waiting |-> 0, enabled |-> FALSE, paused |-> FALSE,
            file |-> FALSE, ended |-> FALSE, s |-> 0, seq |-> 0, pending |-> <<>>,
            posts |-> <<>>, rejects |-> <<>>]

HistoryInit == WorkerInit /\ main = NewMain /\ begun = 0 /\ starts = 1

-----------------------------------------------------------------------------
(* The store *)

\* request(): a closed store rejects everything but the close itself.
StoreRequest(a, m) ==
  IF a.store = "open" \/ m.op = "close" THEN [a EXCEPT !.posts = Append(@, m)]
  ELSE [a EXCEPT !.rejects = Append(@, ReplyTo(m, FALSE))]

\* A variant that gives the bytes of a refused batch back never.
GiveBackAccepted(a, r) == IF r.op = "append" /\ r.ok THEN a.waiting - r.n ELSE a.waiting

GiveBack(a, r) == IF r.op = "append" THEN a.waiting - r.n ELSE a.waiting

Accepts(a, es) == a.store = "open" /\ a.waiting + Len(es) <= QueueLimit

\* append(), when it accepts.
Enqueue(a, es) ==
  StoreRequest([a EXCEPT !.waiting = @ + Len(es)],
          [Message("append", a.s) EXCEPT !.es = es])

-----------------------------------------------------------------------------
(* The recorder *)

Finished(a, to) == StoreRequest(a, [Message("finish", a.s) EXCEPT !.to = to])

Suspend(a) ==
  IF a.enabled /\ ~a.ended
  THEN Finished([a EXCEPT !.enabled = FALSE, !.paused = @ /\ a.file, !.pending = <<>>],
                "failed")
  ELSE a

Persist(a, es) == IF Accepts(a, es) THEN Enqueue(a, es) ELSE Suspend(a)

\* flush(): the pending batch, if there is one.
FlushBatch(a) ==
  IF a.pending = <<>> THEN a ELSE Persist([a EXCEPT !.pending = <<>>], a.pending)

\* historySystem(): a marker follows everything received before it.
Mark(a) ==
  LET b == FlushBatch(a)
  IN IF b.enabled /\ ~b.paused /\ ~b.ended
     THEN Persist([b EXCEPT !.seq = @ + 1], <<b.seq + 1>>) ELSE b

\* The second Mark is that of the pause the new record joins.
StartLogging(a, s) ==
  LET b == Mark(StoreRequest([a EXCEPT !.enabled = TRUE, !.paused = FALSE, !.s = s, !.seq = 0,
                                  !.pending = <<>>], Message("begin", s)))
  IN IF a.paused THEN [Mark(b) EXCEPT !.paused = TRUE] ELSE b

FinishLogging(a, to) ==
  IF ~a.enabled THEN a
  ELSE LET b == Mark([a EXCEPT !.paused = FALSE])
       IN Finished([b EXCEPT !.enabled = FALSE, !.paused = a.paused /\ a.file], to)

StopFile(a) == [a EXCEPT !.file = FALSE, !.paused = @ /\ a.enabled]

-----------------------------------------------------------------------------
(* The main thread *)

AppRunning == main.store \in {"open", "closing"}

\* What a handler did: its messages are posted, its rejections settle later.
Did(a) ==
  /\ main' = [a EXCEPT !.posts = <<>>, !.rejects = <<>>]
  /\ inbox' = inbox \o a.posts
  /\ UNCHANGED <<disk, writer, handling, step, starts>>

Handles(a) == AppRunning /\ Did(a) /\ replies' = replies \o a.rejects

\* open() resolves with the answer to `ready`, after the recovery.
Ready ==
  /\ main.store = "starting" /\ step.at = "idle"
  /\ Did([main EXCEPT !.store = "open"])
  /\ UNCHANGED <<begun, replies>>

Enable ==
  /\ ~main.enabled /\ ~main.ended /\ begun < NSessions
  /\ Handles(StartLogging(main, begun + 1))
  /\ begun' = begun + 1

Disable ==
  /\ main.enabled /\ ~main.ended
  /\ Handles(FinishLogging(main, "completed"))
  /\ UNCHANGED begun

\* setState({paused}); a suspension on the way does not stop it.
Pause ==
  /\ main.enabled \/ main.file
  /\ ~main.ended /\ ~main.paused /\ main.seq < MaxEvents
  /\ Handles([Mark(main) EXCEPT !.paused = TRUE])
  /\ UNCHANGED begun

ResumeRecording ==
  /\ main.enabled \/ main.file
  /\ ~main.ended /\ main.paused /\ main.seq < MaxEvents
  /\ Handles(Mark([main EXCEPT !.paused = FALSE]))
  /\ UNCHANGED begun

StartFile ==
  /\ ~main.file /\ ~main.ended
  /\ Handles([main EXCEPT !.file = TRUE])
  /\ UNCHANGED begun

\* setState({logToFile: false}), or a write of the file fails.
EndFile ==
  /\ main.file /\ ~main.ended
  /\ Handles(StopFile(main))
  /\ UNCHANGED begun

\* output(): one more event of the pending batch, or a large one that goes at once.
Output ==
  /\ main.enabled /\ ~main.paused /\ ~main.ended
  /\ main.seq < MaxEvents /\ Len(main.pending) < MaxBatch
  /\ LET a == [main EXCEPT !.seq = @ + 1, !.pending = Append(@, main.seq + 1)]
     IN \E large \in BOOLEAN : Handles(IF large THEN FlushBatch(a) ELSE a)
  /\ UNCHANGED begun

FlushTimer ==
  /\ main.pending # <<>>
  /\ Handles(FlushBatch(main))
  /\ UNCHANGED begun

\* end(): the terminal is gone.
EndRecording ==
  /\ ~main.ended
  /\ \E to \in {"completed", "disconnected"} :
       Handles([StopFile(FinishLogging(main, to)) EXCEPT !.ended = TRUE])
  /\ UNCHANGED begun

\* A window deletes a record.
DeleteRecord(s) ==
  /\ main.store = "open" /\ s \in EndedSessions
  /\ ~\E i \in DOMAIN inbox : inbox[i].op = "delete"
  /\ Handles(StoreRequest(main, Message("delete", s)))
  /\ UNCHANGED begun

\* close(): its answer terminates the worker.
Close ==
  /\ main.store = "open"
  /\ Handles(StoreRequest([main EXCEPT !.store = "closing"], Message("close", 0)))
  /\ UNCHANGED begun

\* handleReply(): notifyFailure() first, then append() gives its bytes back.
HandleReply ==
  /\ AppRunning /\ replies # <<>>
  /\ LET r == Head(replies)
         heard == ~r.ok /\ r.op \in {"begin", "append", "finish"}
                  /\ main.enabled /\ r.s = main.s
         a == IF heard THEN Suspend(main) ELSE main
     IN /\ Did([a EXCEPT !.waiting = GiveBack(a, r),
                         !.store = IF r.op = "close" THEN "closed" ELSE @])
        /\ replies' = Tail(replies) \o a.rejects
  /\ UNCHANGED begun

-----------------------------------------------------------------------------
\* The application is started again, after it quit or died at any point.
Restart ==
  /\ starts < MaxStarts
  /\ main' = NewMain /\ starts' = starts + 1
  /\ WorkerStart
  /\ UNCHANGED begun

Works == WorkerNext /\ main.store # "closed" /\ UNCHANGED <<main, begun, starts>>

HistoryNext ==
  \/ Works \/ Ready \/ Enable \/ Disable \/ Pause \/ ResumeRecording \/ StartFile \/ EndFile
  \/ Output \/ FlushTimer \/ EndRecording \/ (\E s \in Session : DeleteRecord(s))
  \/ Close \/ HandleReply \/ Restart

HistorySpec == HistoryInit /\ [][HistoryNext]_historyVars

-----------------------------------------------------------------------------
(* Properties *)

Statuses == {"none", "active", "completed", "failed", "disconnected", "deleted"}
Event == 1 .. MaxEvents + 3
Part == 1 .. MaxEvents + 3

\* Every variable keeps its shape; a part has one file of each kind.
HistoryTypeOK ==
  /\ \A s \in Session :
       /\ disk[s].status \in Statuses /\ disk[s].part \in Part \union {0}
       /\ disk[s].chunks \subseteq Event \X Part /\ disk[s].parts \subseteq Part
       /\ \A files \in {disk[s].partial, disk[s].segment} :
            DOMAIN files \subseteq Part /\ \A p \in DOMAIN files : files[p] \subseteq Event
       /\ writer[s].part \in Part \union {0} /\ writer[s].count \in 0 .. PartSize
  /\ main.store \in {"starting", "open", "closing", "closed"}
  /\ main.enabled => main.s \in 1 .. begun

Events(s) == {row[1] : row \in disk[s].chunks}

Weight(m) == IF m.op = "append" THEN Len(m.es) ELSE 0
ReplyWeight(r) == IF r.op = "append" THEN r.n ELSE 0

\* The bytes that count against the queue limit are those of the batches the
\* worker has not answered, neither lost with an error nor given back twice
\* (append() and handleReply() of history-store.ts), and never exceed it.
WriteBudget ==
  AppRunning =>
    /\ main.waiting = SumOf([i \in DOMAIN inbox |-> Weight(inbox[i])]) + Weight(handling)
                       + SumOf([i \in DOMAIN replies |-> ReplyWeight(replies[i])])
    /\ main.waiting <= QueueLimit

\* Files of part p of session s that a replay could still be made of.
Stored(s, p) ==
  UNION {files[p] : files \in {f \in {disk[s].partial, disk[s].segment} : p \in DOMAIN f}}

\* The files go before the rows: of one part of an active session, or of a
\* deleted session as a whole.
Forgetting(s, p) == p \in disk[s].parts /\ Stored(s, p) = {}
Deleting(s) == s \in EndedSessions /\ DOMAIN disk[s].partial = {} /\ DOMAIN disk[s].segment = {}

\* Whatever step of the worker the application dies in, an event of the
\* transcript is also in the raw file of its part: frames are written before
\* their transaction, and a partial file goes only when its segment is there
\* (appendEvents and finalizePartial of history-worker.js).
TranscriptOnDisk ==
  \A s \in Session : \A row \in disk[s].chunks :
    row[1] \in Stored(s, row[2]) \/ Forgetting(s, row[2]) \/ Deleting(s)

\* A record whose recorder is gone does not stay active: the finish or the
\* close that ends it is on its way to the worker, whichever way the recording
\* stopped, and what the last run left active was ended before the store opened
\* (Suspend and FinishLogging, closeWorker and recoverInterruptedSessions of
\* history-worker.js).
HasRecorder(s) == AppRunning /\ main.enabled /\ main.s = s
EndOf(s, m) == m.op = "close" \/ (m.op = "finish" /\ m.s = s)
EndIsOnItsWay ==
  \A s \in Active : AppRunning /\ ~HasRecorder(s) =>
    \E m \in Range(inbox) \union {handling} : EndOf(s, m)

\* The books of the history agree at any point of a batch, a rotation, a deletion
\* or a crash: the bytes that wait, the raw frames of the transcript, and the end
\* of every record (history-store.ts, history-worker.js).
HistoryIsSound == WriteBudget /\ TranscriptOnDisk /\ EndIsOnItsWay

\* The history is an archive (SessionArchive): written while active, immutable
\* once ended, across crashes at any step.
Archive == INSTANCE SessionArchive WITH
  status <- [s \in Session |-> IF s \in EndedSessions THEN "ended" ELSE disk[s].status],
  transcript <- [s \in Session |-> Events(s)]
ArchiveSpec == Archive!ArchiveSpec

\* rawEvents(): what the export and the replay of a session are made of.
RawEvents(s) ==
  UNION {disk[s].segment[p] : p \in disk[s].parts \intersect DOMAIN disk[s].segment}
  \union (IF writer[s] # NoWriter THEN disk[s].partial[writer[s].part] ELSE {})

\* "Remote output is recorded byte for byte ... which is what makes exact replay
\* possible" (docs/guide/session-history.md:24): between two messages, what the
\* transcript of a record holds its replay holds too.
TranscriptIsReplayable ==
  step.at = "idle" => \A s \in Session : Events(s) \subseteq RawEvents(s)
=============================================================================
