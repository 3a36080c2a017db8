------------------------- MODULE SessionHistoryProofs -------------------------
(***************************************************************************)
(* Proofs about the session history: the recorder, the store and the       *)
(* worker, for any number of sessions, parts, events and starts of the     *)
(* application, wherever it dies.                                          *)
(***************************************************************************)
EXTENDS SessionHistory, SequenceLemmas, FiniteSetTheorems

Ops == {"begin", "append", "finish", "delete", "close"}
Ends == {"completed", "failed", "disconnected"}
Phases == {"idle", "retain", "done", "open", "rotate", "write", "seal", "unlink", "enter", "trim",
           "forget", "commit", "finish", "trash", "delete", "close", "closed", "recover"}
Row == Nat \X Nat

Msg == {m \in [op : Ops, s : Nat, es : Seq(Nat), to : Ends \union {""}] :
          (m.op # "close" => m.s \in Session) /\ (m.op = "finish" => m.to \in Ends)}
Answer == [op : Ops, s : Nat, n : Nat, ok : BOOLEAN]
Files == UNION {[D -> SUBSET Nat] : D \in SUBSET Nat}
Record == [status : Statuses, part : Nat, chunks : SUBSET Row, parts : SUBSET Nat,
           partial : Files, segment : Files]
WriterState == [part : Nat, count : Nat]
StepState == [at : Phases, s : Nat, p : Nat, es : Seq(Nat), rows : SUBSET Row]
MainState == [store : {"starting", "open", "closing", "closed"}, waiting : Int,
              enabled : BOOLEAN, paused : BOOLEAN, file : BOOLEAN, ended : BOOLEAN, s : Nat,
              seq : Nat, pending : Seq(Nat), posts : Seq(Msg), rejects : Seq(Answer)]

WorkerTypes ==
  /\ inbox \in Seq(Msg) /\ replies \in Seq(Answer) /\ handling \in Msg \union {Idle}
  /\ disk \in [Session -> Record] /\ \A s \in Session : IsFiniteSet(disk[s].parts)
  /\ writer \in [Session -> WriterState]
  /\ step \in StepState

MainTypes(a) ==
  /\ a \in MainState
  /\ a.enabled => a.s \in Session
  /\ a.pending # <<>> => a.enabled
  /\ a.ended => ~a.enabled

HistoryTypes ==
  /\ WorkerTypes
  /\ MainTypes(main) /\ main.posts = <<>> /\ main.rejects = <<>>
  /\ begun \in 0 .. NSessions /\ starts \in Nat

\* Where a handler may be.
StepFollows ==
  /\ step.at \in {"idle", "closed", "recover"} => handling = Idle
  /\ step.at \in {"open", "rotate", "write", "seal", "unlink", "enter", "trim", "forget", "commit"}
       => step.s \in Active
  /\ step.at \in {"open", "rotate", "write", "seal", "trim", "forget", "commit", "finish"}
       => step.s = handling.s
  /\ step.at = "open" => handling.op = "begin" /\ step.p = 1
  /\ step.at \in {"rotate", "write", "trim", "forget", "commit"} => handling.op = "append"
  /\ step.at = "rotate" => step.p # 0
  /\ step.at = "seal" => handling.op \in {"append", "finish"}
  /\ step.at \in {"unlink", "enter"} => handling.op \in {"append", "finish", "close", "idle"}
  /\ step.at \in {"unlink", "enter"} /\ handling.op \in {"append", "finish"}
       => step.s = handling.s
  /\ step.at \in {"rotate", "write", "seal", "unlink", "enter", "trim", "forget"}
     /\ handling.op = "append" => step.es # <<>>
  /\ step.at = "commit" => step.es = <<>>
  /\ step.at = "finish" => handling.op = "finish"
  /\ step.at = "trash" => handling.op = "delete" /\ step.s \in EndedSessions
  /\ step.at = "delete" => handling.op # "close" /\ step.s \in EndedSessions
  /\ step.at = "retain" => handling.op \in {"begin", "append", "finish", "delete"}
  /\ step.at \in {"retain", "delete"} /\ handling.op = "finish" => handling.s \notin Active
  /\ step.at = "done" => handling.op \in {"begin", "append", "delete", "close"}
  /\ step.at = "close" => handling.op = "close"
  /\ step.at = "closed" \/ (step.at = "done" /\ handling.op = "close") => Active = {}

\* An active session has a writer, but while it gets its first or next one and
\* while it ends.
WriterFollows ==
  /\ \A s \in Writing : s \in Active /\ writer[s].part \in DOMAIN disk[s].partial
  /\ AppRunning => \A s \in Active :
       s \in Writing \/ handling.op = "close"
       \/ (step.s = s /\ step.at \in {"open", "unlink", "enter", "rotate", "finish"})
  /\ step.at \in {"write", "seal", "trim", "forget", "commit"} => step.s \in Writing
  /\ step.at \in {"open", "unlink", "enter", "rotate", "finish"} => step.s \notin Writing

\* Before the store opens there is only the recovery.
Starting ==
  /\ main.store = "starting" =>
       /\ inbox = <<>> /\ replies = <<>> /\ handling = Idle /\ main = NewMain
       /\ Writing = {}
       /\ step.at \in {"recover", "unlink", "enter", "idle", "delete"}
       /\ step.at \in {"idle", "delete"} => Active = {}
  /\ main.store # "starting" =>
       step.at # "recover" /\ (step.at \in {"unlink", "enter"} => handling # Idle)

\* The record of a session that was not begun yet.
Fresh(s) == disk[s] = NewRecord

\* A session is begun once: of the messages of queue q, for n sessions.
Begins(q, n) ==
  /\ \A s \in Session : s > n => Fresh(s)
  /\ \A i \in DOMAIN q : q[i].op \in {"begin", "append"} => q[i].s <= n
  /\ \A i \in DOMAIN q : q[i].op = "begin" => Fresh(q[i].s)
  /\ \A i, j \in DOMAIN q : q[i].op = "begin" /\ q[j].op = "begin" /\ q[i].s = q[j].s => i = j
  /\ handling.op = "begin" => handling.s <= n
  /\ handling.op = "begin" /\ step.at \in {"retain", "delete"} =>
       /\ Fresh(handling.s)
       /\ \A i \in DOMAIN q : q[i].op = "begin" => q[i].s # handling.s

Control == StepFollows /\ WriterFollows /\ Starting

\* What the files of a session hold.
LEMMA FileFacts ==
  ASSUME NEW f \in Files, NEW p \in Nat, NEW v \in SUBSET Nat
  PROVE  /\ DOMAIN f \subseteq Nat /\ \A q \in DOMAIN f : f[q] \subseteq Nat
         /\ With(f, p, v) \in Files /\ DOMAIN With(f, p, v) = DOMAIN f \union {p}
         /\ \A q \in DOMAIN f \union {p} : With(f, p, v)[q] = IF q = p THEN v ELSE f[q]
         /\ Without(f, p) \in Files /\ DOMAIN Without(f, p) = DOMAIN f \ {p}
         /\ \A q \in DOMAIN f \ {p} : Without(f, p)[q] = f[q]
<1>1. PICK D \in SUBSET Nat : f \in [D -> SUBSET Nat]
  BY DEF Files
<1>2. With(f, p, v) \in [D \union {p} -> SUBSET Nat]
  BY <1>1 DEF With
<1>3. Without(f, p) \in [D \ {p} -> SUBSET Nat]
  BY <1>1 DEF Without
<1>4. D \union {p} \in SUBSET Nat /\ D \ {p} \in SUBSET Nat
  OBVIOUS
<1>5. With(f, p, v) \in Files /\ Without(f, p) \in Files
  BY <1>2, <1>3, <1>4 DEF Files
<1> QED BY <1>1, <1>5 DEF With, Without

LEMMA RecordEdits ==
  ASSUME NEW d \in Record, NEW f \in Files
  PROVE  /\ [d EXCEPT !.partial = f] \in Record /\ [d EXCEPT !.segment = f] \in Record
         /\ [d EXCEPT !.partial = f].partial = f /\ [d EXCEPT !.partial = f].segment = d.segment
         /\ [d EXCEPT !.segment = f].segment = f /\ [d EXCEPT !.segment = f].partial = d.partial
         /\ \A e \in {[d EXCEPT !.partial = f], [d EXCEPT !.segment = f]} :
              e.status = d.status /\ e.part = d.part /\ e.chunks = d.chunks /\ e.parts = d.parts
BY DEF Record

LEMMA NoFiles ==
  /\ <<>> \in Files /\ DOMAIN <<>> = {}
<1>1. <<>> \in [{} -> SUBSET Nat]
  OBVIOUS
<1> QED BY <1>1 DEF Files

LEMMA RestIsTyped ==
  ASSUME NEW phase \in Phases
  PROVE  /\ Doing(phase) \in StepState
         /\ Doing(phase).at = phase /\ Doing(phase).s = 0
         /\ Doing(phase).rows = {} /\ Doing(phase).es = <<>>
         /\ \A s, p \in Nat : /\ DoingPart(phase, s, p) \in StepState
                              /\ DoingPart(phase, s, p).at = phase
                              /\ DoingPart(phase, s, p).s = s /\ DoingPart(phase, s, p).p = p
                              /\ DoingPart(phase, s, p).rows = {}
                              /\ DoingPart(phase, s, p).es = <<>>
<1>1. <<>> \in Seq(Nat) /\ {} \in SUBSET Row
  OBVIOUS
<1> QED BY <1>1 DEF Doing, DoingPart, StepState

LEMMA HandlingIs ==
  ASSUME WorkerTypes
  PROVE  /\ handling = Idle <=> handling.op = "idle"
         /\ handling.op \in Ops \union {"idle"}
         /\ handling.op \in {"begin", "append", "finish", "delete"} => handling.s \in Session
         /\ handling.op = "finish" => handling.to \in Ends
         /\ handling.s \in Nat /\ handling.es \in Seq(Nat)
<1>1. Idle.op = "idle" /\ Idle.s = 0 /\ Idle.es = <<>>
  BY DEF Idle, Message
<1>2. "idle" \notin Ops
  BY DEF Ops
<1>3. <<>> \in Seq(Nat)
  OBVIOUS
<1>4. ASSUME NEW m \in Msg
      PROVE  /\ m.op \in Ops /\ (m.op # "close" => m.s \in Session)
             /\ m.op = "finish" => m.to \in Ends
             /\ m.s \in Nat /\ m.es \in Seq(Nat)
  BY DEF Msg
<1>5. handling \in Msg \/ handling = Idle
  BY DEF WorkerTypes
<1>6. CASE handling = Idle
  <2>1. handling.op = "idle" /\ handling.s = 0 /\ handling.es = <<>>
    BY <1>1, <1>6
  <2> QED BY <1>3, <1>6, <2>1
<1>7. CASE handling \in Msg
  <2>1. handling.op \in Ops /\ handling.op # "idle"
    BY <1>2, <1>4, <1>7
  <2> QED BY <1>1, <1>4, <1>7, <2>1
<1> QED BY <1>5, <1>6, <1>7

LEMMA DiskIs ==
  ASSUME WorkerTypes, NEW s \in Session
  PROVE  /\ disk[s] \in Record /\ writer[s] \in WriterState
         /\ disk[s].status \in Statuses /\ disk[s].part \in Nat
         /\ disk[s].chunks \in SUBSET Row
         /\ disk[s].parts \in SUBSET Nat /\ IsFiniteSet(disk[s].parts)
         /\ disk[s].partial \in Files /\ disk[s].segment \in Files
         /\ writer[s].part \in Nat /\ writer[s].count \in Nat
         /\ s \in Writing <=> writer[s] # NoWriter
         /\ s \in Active <=> disk[s].status = "active"
         /\ s \in EndedSessions <=> disk[s].status \in Ends
BY DEF WorkerTypes, Record, WriterState, Writing, Active, EndedSessions, Ends

LEMMA StepIs ==
  ASSUME WorkerTypes
  PROVE  /\ step.at \in Phases /\ step.s \in Nat /\ step.p \in Nat /\ step.es \in Seq(Nat)
         /\ step.rows \in SUBSET Row
         /\ \A s \in Active \union Writing \union EndedSessions : s \in Session
BY DEF WorkerTypes, StepState, Active, Writing, EndedSessions

\* A step of a handler works on the files and rows of one session.
OnlyIn(s) ==
  /\ s \in Session
  /\ inbox' = inbox /\ replies' = replies /\ handling' = handling
  /\ \A t \in Session : t # s => disk'[t] = disk[t] /\ writer'[t] = writer[t]

Rows(s) == disk'[s].status = disk[s].status /\ disk'[s].part = disk[s].part
           /\ disk'[s].chunks = disk[s].chunks /\ disk'[s].parts = disk[s].parts

LEMMA OnTyped ==
  ASSUME WorkerTypes, NEW s \in Session, NEW d \in Record, IsFiniteSet(d.parts), On(s, d)
  PROVE  /\ disk' \in [Session -> Record] /\ \A t \in Session : IsFiniteSet(disk'[t].parts)
         /\ disk'[s] = d /\ \A t \in Session : t # s => disk'[t] = disk[t]
BY DEF WorkerTypes, On

LEMMA WriterTyped ==
  ASSUME WorkerTypes, NEW s \in Session, NEW w \in WriterState,
         writer' = [writer EXCEPT ![s] = w]
  PROVE  /\ writer' \in [Session -> WriterState]
         /\ writer'[s] = w /\ \A t \in Session : t # s => writer'[t] = writer[t]
BY DEF WorkerTypes

LEMMA NoWriterTyped == NoWriter \in WriterState
BY DEF NoWriter, WriterState

LEMMA TrimmingIs ==
  ASSUME NEW x \in StepState, NEW parts
  PROVE  LET r == Trimming(x, parts)
         IN  /\ r \in StepState
             /\ r.at = IF Cardinality(parts) >= MaxParts THEN "trim" ELSE "write"
             /\ r.s = x.s /\ r.p = x.p /\ r.es = x.es /\ r.rows = x.rows
BY DEF Trimming, StepState, Phases

LEMMA NextFrameIs ==
  ASSUME NEW x \in StepState, NEW w
  PROVE  LET r == NextFrame(x, w)
         IN  /\ r \in StepState
             /\ r.at = IF x.es = <<>> THEN "commit" ELSE IF Full(w) THEN "seal" ELSE "write"
             /\ r.s = x.s /\ r.p = x.p /\ r.es = x.es /\ r.rows = x.rows
BY DEF NextFrame, StepState, Phases

\* What openWriter() does.
LEMMA OpenDoes ==
  ASSUME WorkerTypes, Control, OpenPart
  PROVE  LET s == step.s
         IN  /\ WorkerTypes' /\ OnlyIn(s) /\ Rows(s)
             /\ disk'[s].segment = disk[s].segment
             /\ disk'[s].partial = IF step.p \in DOMAIN disk[s].partial THEN disk[s].partial
                                   ELSE With(disk[s].partial, step.p, {})
             /\ writer'[s].part = step.p /\ writer'[s].count = 0
             /\ step.at = "open" => handling.op = "begin" /\ step' = Doing("done")
             /\ step.at = "rotate" => handling.op = "append"
                                      /\ step' = Trimming(step, disk[s].parts)
<1> DEFINE s == step.s
           d == disk'[s]
           w == [part |-> step.p, count |-> 0]
           e == IF step.p \in DOMAIN disk[s].partial THEN disk[s]
                ELSE [disk[s] EXCEPT !.partial = With(@, step.p, {})]
<1>1. s \in Session /\ step.at \in {"open", "rotate"}
  BY StepIs DEF OpenPart, Control, StepFollows
<1>2. step.p \in Nat /\ {} \in SUBSET Nat
  BY StepIs
<1>3. e \in Record /\ IsFiniteSet(e.parts)
  <2>1. disk[s] \in Record /\ disk[s].partial \in Files /\ IsFiniteSet(disk[s].parts)
    BY <1>1, DiskIs
  <2>2. With(disk[s].partial, step.p, {}) \in Files
    BY <1>2, <2>1, FileFacts
  <2> QED BY <2>1, <2>2, RecordEdits
<1>4. w \in WriterState
  BY <1>2 DEF WriterState
<1>5. On(s, e) /\ writer' = [writer EXCEPT ![s] = w] /\ Moves
  BY DEF OpenPart
<1>6. /\ disk' \in [Session -> Record] /\ \A t \in Session : IsFiniteSet(disk'[t].parts)
      /\ disk'[s] = e /\ \A t \in Session : t # s => disk'[t] = disk[t]
  BY <1>1, <1>3, <1>5, OnTyped
<1>7. /\ writer' \in [Session -> WriterState]
      /\ writer'[s] = w /\ \A t \in Session : t # s => writer'[t] = writer[t]
  BY <1>1, <1>4, <1>5, WriterTyped
<1>8. /\ step.at = "open" => handling.op = "begin" /\ step' = Doing("done")
      /\ step.at = "rotate" => handling.op = "append" /\ step' = Trimming(step, disk[s].parts)
  BY <1>1 DEF OpenPart, Control, StepFollows
<1>9. step' \in StepState
  BY <1>1, <1>8, TrimmingIs, RestIsTyped DEF WorkerTypes, Phases
<1>10. WorkerTypes' /\ OnlyIn(s)
  BY <1>1, <1>5, <1>6, <1>7, <1>9 DEF WorkerTypes, OnlyIn, Moves
<1> QED BY <1>1, <1>6, <1>7, <1>8, <1>10, DiskIs DEF Rows, Record

\* What the loop of appendEvents() does.
LEMMA WriteDoes ==
  ASSUME WorkerTypes, Control, Write
  PROVE  LET s == step.s
             p == writer[s].part
             e == Head(step.es)
         IN  /\ WorkerTypes' /\ OnlyIn(s) /\ Rows(s)
             /\ p \in DOMAIN disk[s].partial /\ e \in Nat
             /\ disk'[s].segment = disk[s].segment
             /\ disk'[s].partial = With(disk[s].partial, p, disk[s].partial[p] \union {e})
             /\ writer'[s].part = p /\ writer'[s].count = writer[s].count + 1
             /\ step'.at = IF step'.es = <<>> THEN "commit"
                           ELSE IF Full(writer'[s]) THEN "seal" ELSE "write"
             /\ step'.s = s /\ step'.p = step.p /\ step'.es = Tail(step.es)
             /\ step'.rows = step.rows \union {<<e, p>>}
<1> DEFINE s == step.s
           p == writer[s].part
           e == Head(step.es)
           w == [writer[s] EXCEPT !.count = @ + 1]
           d == [disk[s] EXCEPT !.partial = With(@, p, @[p] \union {e})]
           x == [step EXCEPT !.es = Tail(@), !.rows = @ \union {<<e, p>>}]
<1>1. /\ s \in Session /\ step.at = "write" /\ step.es # <<>>
      /\ s \in Writing /\ p \in DOMAIN disk[s].partial
  BY StepIs DEF Write, Control, StepFollows, WriterFollows
<1>2. e \in Nat /\ Tail(step.es) \in Seq(Nat) /\ p \in Nat
  BY <1>1, StepIs, DiskIs, HeadTailProperties
<1>3. disk[s].partial[p] \union {e} \in SUBSET Nat
  BY <1>1, <1>2, DiskIs, FileFacts
<1>4. d \in Record /\ IsFiniteSet(d.parts)
  <2>1. disk[s] \in Record /\ disk[s].partial \in Files /\ IsFiniteSet(disk[s].parts)
    BY <1>1, DiskIs
  <2>2. With(disk[s].partial, p, disk[s].partial[p] \union {e}) \in Files
    BY <1>2, <1>3, <2>1, FileFacts
  <2> QED BY <2>1, <2>2, RecordEdits
<1>5. w \in WriterState /\ w.part = p /\ w.count = writer[s].count + 1
  BY <1>1, DiskIs DEF WriterState
<1>6. x \in StepState /\ x.s = s /\ x.p = step.p /\ x.es = Tail(step.es)
      /\ x.rows = step.rows \union {<<e, p>>}
  <2>1. <<e, p>> \in Row
    BY <1>2 DEF Row
  <2>2. step.rows \union {<<e, p>>} \in SUBSET Row
    BY <2>1, StepIs
  <2> QED BY <1>2, <2>2 DEF WorkerTypes, StepState
<1>7. On(s, d) /\ writer' = [writer EXCEPT ![s] = w] /\ step' = NextFrame(x, w) /\ Moves
  BY DEF Write
<1>8. /\ disk' \in [Session -> Record] /\ \A t \in Session : IsFiniteSet(disk'[t].parts)
      /\ disk'[s] = d /\ \A t \in Session : t # s => disk'[t] = disk[t]
  <2> HIDE DEF d
  <2> QED BY <1>1, <1>4, <1>7, OnTyped
<1>9. /\ writer' \in [Session -> WriterState]
      /\ writer'[s] = w /\ \A t \in Session : t # s => writer'[t] = writer[t]
  <2> HIDE DEF w
  <2> QED BY <1>1, <1>5, <1>7, WriterTyped
<1>10. /\ step' \in StepState
       /\ step'.at = IF x.es = <<>> THEN "commit" ELSE IF Full(w) THEN "seal" ELSE "write"
       /\ step'.s = x.s /\ step'.p = x.p /\ step'.es = x.es /\ step'.rows = x.rows
  <2> HIDE DEF x, w
  <2> QED BY <1>6, <1>7, NextFrameIs
<1>11. WorkerTypes' /\ OnlyIn(s)
  BY <1>1, <1>7, <1>8, <1>9, <1>10 DEF WorkerTypes, OnlyIn, Moves
<1>12. /\ disk'[s].segment = disk[s].segment /\ Rows(s)
       /\ disk'[s].partial = With(disk[s].partial, p, disk[s].partial[p] \union {e})
  BY <1>1, <1>8, DiskIs DEF Rows, Record
<1>13. step'.at = IF step'.es = <<>> THEN "commit" ELSE IF Full(writer'[s]) THEN "seal" ELSE "write"
  BY <1>9, <1>10
<1> HIDE DEF w, x, d
<1> QED BY <1>1, <1>2, <1>5, <1>6, <1>9, <1>10, <1>11, <1>12, <1>13

LEMMA RowEdits ==
  ASSUME NEW d \in Record, NEW st \in Statuses, NEW n \in Nat, NEW rows \in SUBSET Row,
         NEW parts \in SUBSET Nat
  PROVE  /\ [d EXCEPT !.status = st] \in Record /\ [d EXCEPT !.parts = parts] \in Record
         /\ [d EXCEPT !.status = st, !.part = n] \in Record
         /\ [d EXCEPT !.chunks = rows, !.part = n] \in Record
         /\ [d EXCEPT !.chunks = rows, !.parts = parts] \in Record
BY DEF Record

LEMMA SealedIs ==
  ASSUME WorkerTypes, handling.op \in {"append", "finish", "close", "idle"}
  PROVE  LET r == Sealed(step)
         IN  /\ r \in StepState
             /\ handling.op = "append" => r.at = "rotate" /\ r.s = step.s /\ r.p = step.p + 1
                                          /\ r.es = step.es /\ r.rows = step.rows
             /\ handling.op = "finish" => r.at = "finish" /\ r.s = step.s
             /\ handling.op = "close" => r.at = "close"
             /\ handling.op = "idle" => r.at = "recover"
<1> DEFINE r == Sealed(step)
<1>1. step \in StepState /\ (handling = Idle <=> handling.op = "idle")
  BY HandlingIs DEF WorkerTypes
<1>2. CASE handling.op = "append"
  <2>1. r = [step EXCEPT !.at = "rotate", !.p = @ + 1]
    BY <1>1, <1>2, StepIs DEF Sealed, StepState
  <2>2. step.p + 1 \in Nat /\ "rotate" \in Phases
    BY StepIs DEF Phases
  <2> QED BY <1>1, <1>2, <2>1, <2>2 DEF StepState
<1>3. CASE handling.op = "finish"
  BY <1>1, <1>3 DEF Sealed, StepState, Phases
<1>4. CASE handling.op = "close"
  <2>1. r = Doing("close")
    BY <1>1, <1>4 DEF Sealed
  <2> QED BY <1>4, <2>1, RestIsTyped DEF Phases
<1>5. CASE handling.op = "idle"
  <2>1. r = Doing("recover")
    BY <1>1, <1>5 DEF Sealed
  <2> QED BY <1>5, <2>1, RestIsTyped DEF Phases
<1> QED BY <1>2, <1>3, <1>4, <1>5

\* The files, and the rows, of a session that a step leaves alone.
KeepsFiles(s) == disk'[s].partial = disk[s].partial /\ disk'[s].segment = disk[s].segment

\* finalizePartial() up to the rename.
LEMMA CompressDoes ==
  ASSUME WorkerTypes, Control, NEW s \in Session, Compress(s)
  PROVE  LET p == writer[s].part
         IN  /\ WorkerTypes' /\ OnlyIn(s) /\ Rows(s)
             /\ s \in Writing /\ p \in DOMAIN disk[s].partial /\ writer[s].count > 0
             /\ disk'[s].partial = disk[s].partial
             /\ disk'[s].segment = With(disk[s].segment, p, disk[s].partial[p])
             /\ writer'[s] = NoWriter
             /\ step'.at = "unlink" /\ step'.s = s /\ step'.p = p
             /\ step'.es = step.es /\ step'.rows = step.rows
             /\ \/ step.at = "seal" /\ step.s = s /\ handling.s = s
                   /\ handling.op \in {"append", "finish"}
                \/ step.at = "close" /\ handling.op = "close"
<1> DEFINE p == writer[s].part
           f == With(disk[s].segment, p, disk[s].partial[p])
           d == [disk[s] EXCEPT !.segment = f]
<1>1. /\ s \in Writing /\ p \in DOMAIN disk[s].partial /\ writer[s].count > 0
      /\ \/ step.at = "seal" /\ step.s = s /\ handling.s = s
            /\ handling.op \in {"append", "finish"}
         \/ step.at = "close" /\ handling.op = "close"
  BY DEF Compress, Finalizing, Lowest, Control, StepFollows, WriterFollows
<1>2. /\ disk[s] \in Record /\ disk[s].partial \in Files /\ disk[s].segment \in Files
      /\ IsFiniteSet(disk[s].parts) /\ p \in Nat
  BY DiskIs
<1>3. f \in Files
  <2>1. disk[s].partial[p] \in SUBSET Nat
    BY <1>1, <1>2, FileFacts
  <2>2. \A g \in Files, v \in SUBSET Nat : With(g, p, v) \in Files
    BY <1>2, FileFacts
  <2> QED BY <1>2, <2>1, <2>2
<1>4. On(s, d) /\ writer' = [writer EXCEPT ![s] = NoWriter] /\ Moves
      /\ step' = [step EXCEPT !.at = "unlink", !.s = s, !.p = p]
  BY DEF Compress
<1> HIDE DEF f
<1>5. /\ d \in Record /\ IsFiniteSet(d.parts) /\ d.segment = f /\ d.partial = disk[s].partial
      /\ d.status = disk[s].status /\ d.part = disk[s].part
      /\ d.chunks = disk[s].chunks /\ d.parts = disk[s].parts
  BY <1>2, <1>3, RecordEdits
<1> HIDE DEF d
<1>6. /\ disk' \in [Session -> Record] /\ \A t \in Session : IsFiniteSet(disk'[t].parts)
      /\ disk'[s] = d /\ \A t \in Session : t # s => disk'[t] = disk[t]
  BY <1>4, <1>5, OnTyped
<1>7. /\ writer' \in [Session -> WriterState]
      /\ writer'[s] = NoWriter /\ \A t \in Session : t # s => writer'[t] = writer[t]
  BY <1>4, NoWriterTyped, WriterTyped
<1>8. /\ step' \in StepState /\ step'.at = "unlink" /\ step'.s = s /\ step'.p = p
      /\ step'.es = step.es /\ step'.rows = step.rows
  <2>1. s \in Nat
    BY DEF Session
  <2> QED BY <1>2, <1>4, <2>1 DEF WorkerTypes, StepState, Phases
<1>9. WorkerTypes' /\ OnlyIn(s)
  BY <1>4, <1>6, <1>7, <1>8 DEF WorkerTypes, OnlyIn, Moves
<1> QED BY <1>1, <1>5, <1>6, <1>7, <1>8, <1>9 DEF Rows, f

LEMMA DiscardDoes ==
  ASSUME WorkerTypes, Control, NEW s \in Session, Discard(s)
  PROVE  LET p == writer[s].part
         IN  /\ WorkerTypes' /\ OnlyIn(s) /\ Rows(s)
             /\ s \in Writing /\ p \in DOMAIN disk[s].partial /\ writer[s].count = 0
             /\ disk'[s].partial = Without(disk[s].partial, p)
             /\ disk'[s].segment = disk[s].segment
             /\ writer'[s] = NoWriter
             /\ step' = Sealed(step)
             /\ \/ step.at = "seal" /\ step.s = s /\ handling.s = s
                   /\ handling.op \in {"append", "finish"}
                \/ step.at = "close" /\ handling.op = "close"
<1> DEFINE p == writer[s].part
           f == Without(disk[s].partial, p)
           d == [disk[s] EXCEPT !.partial = f]
<1>1. /\ s \in Writing /\ p \in DOMAIN disk[s].partial /\ writer[s].count = 0
      /\ \/ step.at = "seal" /\ step.s = s /\ handling.s = s
            /\ handling.op \in {"append", "finish"}
         \/ step.at = "close" /\ handling.op = "close"
  BY DEF Discard, Finalizing, Lowest, Control, StepFollows, WriterFollows
<1>2. /\ disk[s] \in Record /\ disk[s].partial \in Files
      /\ IsFiniteSet(disk[s].parts) /\ p \in Nat
  BY DiskIs
<1>3. f \in Files
  <2>1. {} \in SUBSET Nat
    OBVIOUS
  <2> QED BY <1>2, <2>1, FileFacts
<1>4. On(s, d) /\ writer' = [writer EXCEPT ![s] = NoWriter] /\ Moves /\ step' = Sealed(step)
  BY DEF Discard
<1> HIDE DEF f
<1>5. /\ d \in Record /\ IsFiniteSet(d.parts) /\ d.partial = f /\ d.segment = disk[s].segment
      /\ d.status = disk[s].status /\ d.part = disk[s].part
      /\ d.chunks = disk[s].chunks /\ d.parts = disk[s].parts
  BY <1>2, <1>3, RecordEdits
<1> HIDE DEF d
<1>6. /\ disk' \in [Session -> Record] /\ \A t \in Session : IsFiniteSet(disk'[t].parts)
      /\ disk'[s] = d /\ \A t \in Session : t # s => disk'[t] = disk[t]
  BY <1>4, <1>5, OnTyped
<1>7. /\ writer' \in [Session -> WriterState]
      /\ writer'[s] = NoWriter /\ \A t \in Session : t # s => writer'[t] = writer[t]
  BY <1>4, NoWriterTyped, WriterTyped
<1>8. step' \in StepState
  BY <1>1, <1>4, SealedIs
<1>9. WorkerTypes' /\ OnlyIn(s)
  BY <1>4, <1>6, <1>7, <1>8 DEF WorkerTypes, OnlyIn, Moves
<1> QED BY <1>1, <1>4, <1>5, <1>6, <1>7, <1>9 DEF Rows, f

\* The partial file goes when its segment is there.
LEMMA UnlinkDoes ==
  ASSUME WorkerTypes, Control, Unlink
  PROVE  LET s == step.s
         IN  /\ WorkerTypes' /\ OnlyIn(s) /\ Rows(s) /\ writer' = writer
             /\ disk'[s].partial = Without(disk[s].partial, step.p)
             /\ disk'[s].segment = disk[s].segment
             /\ step.at = "unlink"
             /\ step'.at = "enter" /\ step'.s = s /\ step'.p = step.p
             /\ step'.es = step.es /\ step'.rows = step.rows
<1> DEFINE s == step.s
           f == Without(disk[s].partial, step.p)
           d == [disk[s] EXCEPT !.partial = f]
<1>1. s \in Session /\ step.at = "unlink" /\ step.p \in Nat
  BY StepIs DEF Unlink, Control, StepFollows
<1>2. disk[s] \in Record /\ disk[s].partial \in Files /\ IsFiniteSet(disk[s].parts)
  BY <1>1, DiskIs
<1>3. f \in Files
  <2>1. {} \in SUBSET Nat
    OBVIOUS
  <2> QED BY <1>1, <1>2, <2>1, FileFacts
<1>4. On(s, d) /\ writer' = writer /\ Moves /\ step' = [step EXCEPT !.at = "enter"]
  BY DEF Unlink
<1> HIDE DEF f
<1>5. /\ d \in Record /\ IsFiniteSet(d.parts) /\ d.partial = f /\ d.segment = disk[s].segment
      /\ d.status = disk[s].status /\ d.part = disk[s].part
      /\ d.chunks = disk[s].chunks /\ d.parts = disk[s].parts
  BY <1>2, <1>3, RecordEdits
<1> HIDE DEF d
<1>6. /\ disk' \in [Session -> Record] /\ \A t \in Session : IsFiniteSet(disk'[t].parts)
      /\ disk'[s] = d /\ \A t \in Session : t # s => disk'[t] = disk[t]
  BY <1>1, <1>4, <1>5, OnTyped
<1>7. /\ step' \in StepState /\ step'.at = "enter" /\ step'.s = s /\ step'.p = step.p
      /\ step'.es = step.es /\ step'.rows = step.rows
  BY <1>4 DEF WorkerTypes, StepState, Phases
<1>8. WorkerTypes' /\ OnlyIn(s)
  BY <1>1, <1>4, <1>6, <1>7 DEF WorkerTypes, OnlyIn, Moves
<1> QED BY <1>1, <1>4, <1>5, <1>6, <1>7, <1>8 DEF Rows, f

LEMMA EnterDoes ==
  ASSUME WorkerTypes, Control, Enter
  PROVE  LET s == step.s
         IN  /\ WorkerTypes' /\ OnlyIn(s) /\ KeepsFiles(s) /\ writer' = writer
             /\ disk'[s].status = disk[s].status /\ disk'[s].part = disk[s].part
             /\ disk'[s].chunks = disk[s].chunks
             /\ disk'[s].parts = disk[s].parts \union {step.p}
             /\ step.at = "enter" /\ handling.op \in {"append", "finish", "close", "idle"}
             /\ step' = Sealed(step)
<1> DEFINE s == step.s
           parts == disk[s].parts \union {step.p}
           d == [disk[s] EXCEPT !.parts = parts]
<1>1. /\ s \in Session /\ step.at = "enter" /\ step.p \in Nat
      /\ handling.op \in {"append", "finish", "close", "idle"}
  BY StepIs DEF Enter, Control, StepFollows
<1>2. disk[s] \in Record /\ disk[s].parts \in SUBSET Nat /\ IsFiniteSet(disk[s].parts)
  BY <1>1, DiskIs
<1>3. parts \in SUBSET Nat /\ IsFiniteSet(parts)
  BY <1>1, <1>2, FS_AddElement
<1>4. On(s, d) /\ writer' = writer /\ Moves /\ step' = Sealed(step)
  BY DEF Enter
<1> HIDE DEF parts
<1>5. d \in Record /\ d.parts = parts
      /\ d.status = disk[s].status /\ d.part = disk[s].part /\ d.chunks = disk[s].chunks
      /\ d.partial = disk[s].partial /\ d.segment = disk[s].segment
  BY <1>2, <1>3 DEF Record
<1> HIDE DEF d
<1>6. /\ disk' \in [Session -> Record] /\ \A t \in Session : IsFiniteSet(disk'[t].parts)
      /\ disk'[s] = d /\ \A t \in Session : t # s => disk'[t] = disk[t]
  BY <1>1, <1>3, <1>4, <1>5, OnTyped
<1>7. step' \in StepState
  BY <1>1, <1>4, SealedIs
<1>8. WorkerTypes' /\ OnlyIn(s)
  BY <1>1, <1>4, <1>6, <1>7 DEF WorkerTypes, OnlyIn, Moves
<1> QED BY <1>1, <1>4, <1>5, <1>6, <1>8 DEF KeepsFiles, parts

\* trimSessionParts(): the files of the lowest part, then its rows.
LEMMA RemovePartDoes ==
  ASSUME WorkerTypes, Control, NEW p, RemovePart(p)
  PROVE  LET s == step.s
         IN  /\ WorkerTypes' /\ OnlyIn(s) /\ Rows(s) /\ writer' = writer
             /\ p \in Nat /\ Lowest(disk[s].parts, p)
             /\ disk'[s].partial = disk[s].partial
             /\ disk'[s].segment = Without(disk[s].segment, p)
             /\ step.at = "trim"
             /\ step'.at = "forget" /\ step'.s = s /\ step'.p = p
             /\ step'.es = step.es /\ step'.rows = step.rows
<1> DEFINE s == step.s
           f == Without(disk[s].segment, p)
           d == [disk[s] EXCEPT !.segment = f]
<1>1. s \in Session /\ step.at = "trim" /\ Lowest(disk[s].parts, p)
  BY StepIs DEF RemovePart, Control, StepFollows
<1>2. /\ disk[s] \in Record /\ disk[s].segment \in Files /\ IsFiniteSet(disk[s].parts)
      /\ disk[s].parts \in SUBSET Nat
  BY <1>1, DiskIs
<1>3. p \in Nat
  BY <1>1, <1>2 DEF Lowest
<1>4. f \in Files
  <2>1. {} \in SUBSET Nat
    OBVIOUS
  <2> QED BY <1>2, <1>3, <2>1, FileFacts
<1>5. On(s, d) /\ writer' = writer /\ Moves /\ step' = [step EXCEPT !.at = "forget", !.p = p]
  BY DEF RemovePart
<1> HIDE DEF f
<1>6. /\ d \in Record /\ IsFiniteSet(d.parts) /\ d.segment = f /\ d.partial = disk[s].partial
      /\ d.status = disk[s].status /\ d.part = disk[s].part
      /\ d.chunks = disk[s].chunks /\ d.parts = disk[s].parts
  BY <1>2, <1>4, RecordEdits
<1> HIDE DEF d
<1>7. /\ disk' \in [Session -> Record] /\ \A t \in Session : IsFiniteSet(disk'[t].parts)
      /\ disk'[s] = d /\ \A t \in Session : t # s => disk'[t] = disk[t]
  BY <1>1, <1>5, <1>6, OnTyped
<1>8. /\ step' \in StepState /\ step'.at = "forget" /\ step'.s = s /\ step'.p = p
      /\ step'.es = step.es /\ step'.rows = step.rows
  BY <1>3, <1>5 DEF WorkerTypes, StepState, Phases
<1>9. WorkerTypes' /\ OnlyIn(s)
  BY <1>1, <1>5, <1>7, <1>8 DEF WorkerTypes, OnlyIn, Moves
<1> QED BY <1>1, <1>3, <1>5, <1>6, <1>7, <1>8, <1>9 DEF Rows, f

LEMMA ForgetDoes ==
  ASSUME WorkerTypes, Control, Forget
  PROVE  LET s == step.s
         IN  /\ WorkerTypes' /\ OnlyIn(s) /\ KeepsFiles(s) /\ writer' = writer
             /\ disk'[s].status = disk[s].status /\ disk'[s].part = disk[s].part
             /\ disk'[s].chunks = {r \in disk[s].chunks : r[2] # step.p}
             /\ disk'[s].parts = disk[s].parts \ {step.p}
             /\ step.at = "forget"
             /\ step'.at = IF Cardinality(disk'[s].parts) >= MaxParts THEN "trim" ELSE "write"
             /\ step'.s = s /\ step'.es = step.es /\ step'.rows = step.rows
<1> DEFINE s == step.s
           parts == disk[s].parts \ {step.p}
           rows == {r \in disk[s].chunks : r[2] # step.p}
           d == [disk[s] EXCEPT !.chunks = rows, !.parts = parts]
<1>1. s \in Session /\ step.at = "forget" /\ step.p \in Nat /\ step \in StepState
  BY StepIs DEF Forget, Control, StepFollows, WorkerTypes
<1>2. /\ disk[s] \in Record /\ disk[s].parts \in SUBSET Nat /\ IsFiniteSet(disk[s].parts)
      /\ disk[s].chunks \in SUBSET Row
  BY <1>1, DiskIs
<1>3. parts \in SUBSET Nat /\ IsFiniteSet(parts) /\ rows \in SUBSET Row
  BY <1>2, FS_Subset
<1>4. On(s, d) /\ writer' = writer /\ Moves /\ step' = Trimming(step, parts)
  BY DEF Forget
<1> HIDE DEF parts, rows
<1>5. d \in Record /\ d.parts = parts /\ d.chunks = rows
      /\ d.status = disk[s].status /\ d.part = disk[s].part
      /\ d.partial = disk[s].partial /\ d.segment = disk[s].segment
  BY <1>2, <1>3 DEF Record
<1> HIDE DEF d
<1>6. /\ disk' \in [Session -> Record] /\ \A t \in Session : IsFiniteSet(disk'[t].parts)
      /\ disk'[s] = d /\ \A t \in Session : t # s => disk'[t] = disk[t]
  BY <1>1, <1>3, <1>4, <1>5, OnTyped
<1>7. /\ step' \in StepState
      /\ step'.at = IF Cardinality(parts) >= MaxParts THEN "trim" ELSE "write"
      /\ step'.s = s /\ step'.es = step.es /\ step'.rows = step.rows
  BY <1>1, <1>4, TrimmingIs
<1>8. WorkerTypes' /\ OnlyIn(s)
  BY <1>1, <1>4, <1>6, <1>7 DEF WorkerTypes, OnlyIn, Moves
<1> QED BY <1>1, <1>4, <1>5, <1>6, <1>7, <1>8 DEF KeepsFiles, parts, rows

\* The transaction of appendEvents().
LEMMA CommitDoes ==
  ASSUME WorkerTypes, Control, CommitRows
  PROVE  LET s == step.s
         IN  /\ WorkerTypes' /\ OnlyIn(s) /\ KeepsFiles(s) /\ writer' = writer
             /\ disk'[s].status = disk[s].status /\ disk'[s].parts = disk[s].parts
             /\ disk'[s].chunks = disk[s].chunks \union step.rows
             /\ disk'[s].part = writer[s].part
             /\ step.at = "commit" /\ handling.op = "append" /\ handling.s = s
             /\ step' = Doing("retain")
<1> DEFINE s == step.s
           rows == disk[s].chunks \union step.rows
           d == [disk[s] EXCEPT !.chunks = rows, !.part = writer[s].part]
<1>1. /\ s \in Session /\ step.at = "commit" /\ handling.op = "append" /\ handling.s = s
      /\ step.rows \in SUBSET Row
  BY StepIs DEF CommitRows, Control, StepFollows
<1>2. /\ disk[s] \in Record /\ IsFiniteSet(disk[s].parts) /\ disk[s].chunks \in SUBSET Row
      /\ writer[s].part \in Nat
  BY <1>1, DiskIs
<1>3. rows \in SUBSET Row
  BY <1>1, <1>2
<1>4. On(s, d) /\ writer' = writer /\ Moves /\ step' = Doing("retain")
  BY DEF CommitRows
<1> HIDE DEF rows
<1>5. d \in Record /\ d.parts = disk[s].parts /\ d.chunks = rows
      /\ d.status = disk[s].status /\ d.part = writer[s].part
      /\ d.partial = disk[s].partial /\ d.segment = disk[s].segment
  BY <1>2, <1>3 DEF Record
<1> HIDE DEF d
<1>6. /\ disk' \in [Session -> Record] /\ \A t \in Session : IsFiniteSet(disk'[t].parts)
      /\ disk'[s] = d /\ \A t \in Session : t # s => disk'[t] = disk[t]
  BY <1>1, <1>2, <1>4, <1>5, OnTyped
<1>7. step' \in StepState
  BY <1>4, RestIsTyped DEF Phases
<1>8. WorkerTypes' /\ OnlyIn(s)
  BY <1>1, <1>4, <1>6, <1>7 DEF WorkerTypes, OnlyIn, Moves
<1> QED BY <1>1, <1>4, <1>5, <1>6, <1>8 DEF KeepsFiles, rows

LEMMA InsertDoes ==
  ASSUME WorkerTypes, Insert
  PROVE  LET s == handling.s
         IN  /\ WorkerTypes' /\ OnlyIn(s) /\ KeepsFiles(s) /\ writer' = writer
             /\ disk'[s].status = "active" /\ disk'[s].part = 1
             /\ disk'[s].chunks = disk[s].chunks /\ disk'[s].parts = disk[s].parts
             /\ step.at = "retain" /\ handling.op = "begin"
             /\ step' = DoingPart("open", s, 1)
<1> DEFINE s == handling.s
           d == [disk[s] EXCEPT !.status = "active", !.part = 1]
<1>1. s \in Session /\ step.at = "retain" /\ handling.op = "begin" /\ s \in Nat
  BY HandlingIs DEF Insert
<1>2. disk[s] \in Record /\ IsFiniteSet(disk[s].parts)
  BY <1>1, DiskIs
<1>3. On(s, d) /\ writer' = writer /\ Moves /\ step' = DoingPart("open", s, 1)
  BY DEF Insert
<1>4. d \in Record /\ d.parts = disk[s].parts /\ d.chunks = disk[s].chunks
      /\ d.status = "active" /\ d.part = 1
      /\ d.partial = disk[s].partial /\ d.segment = disk[s].segment
  BY <1>2 DEF Record, Statuses
<1> HIDE DEF d
<1>5. /\ disk' \in [Session -> Record] /\ \A t \in Session : IsFiniteSet(disk'[t].parts)
      /\ disk'[s] = d /\ \A t \in Session : t # s => disk'[t] = disk[t]
  BY <1>1, <1>2, <1>3, <1>4, OnTyped
<1>6. step' \in StepState
  BY <1>1, <1>3, RestIsTyped DEF Phases
<1>7. WorkerTypes' /\ OnlyIn(s)
  BY <1>1, <1>3, <1>5, <1>6 DEF WorkerTypes, OnlyIn, Moves
<1> QED BY <1>1, <1>3, <1>4, <1>5, <1>7 DEF KeepsFiles

LEMMA FinishDoes ==
  ASSUME WorkerTypes, Control, FinishRecord
  PROVE  LET s == step.s
         IN  /\ WorkerTypes' /\ OnlyIn(s) /\ KeepsFiles(s) /\ writer' = writer
             /\ disk'[s].status \in IF s \in Active THEN Ends ELSE {disk[s].status}
             /\ disk'[s].part = disk[s].part
             /\ disk'[s].chunks = disk[s].chunks /\ disk'[s].parts = disk[s].parts
             /\ s \notin Active => disk' = disk
             /\ step.at = "finish" /\ handling.op = "finish" /\ handling.s = s
             /\ step' = Doing("retain")
<1> DEFINE s == step.s
           e == [disk[s] EXCEPT !.status = handling.to]
           d == IF s \in Active THEN e ELSE disk[s]
<1>1. /\ s \in Session /\ step.at = "finish" /\ handling.op = "finish" /\ handling.s = s
      /\ handling.to \in Ends
  BY HandlingIs DEF FinishRecord, Control, StepFollows
<1>2. disk[s] \in Record /\ IsFiniteSet(disk[s].parts) /\ handling.to \in Statuses
  BY <1>1, DiskIs DEF Ends, Statuses
<1>3. On(s, d) /\ writer' = writer /\ Moves /\ step' = Doing("retain")
  BY DEF FinishRecord
<1>4. e \in Record /\ e.parts = disk[s].parts /\ e.chunks = disk[s].chunks
      /\ e.status = handling.to /\ e.part = disk[s].part
      /\ e.partial = disk[s].partial /\ e.segment = disk[s].segment
  BY <1>2 DEF Record
<1> HIDE DEF e
<1>5. d \in Record /\ IsFiniteSet(d.parts)
  BY <1>2, <1>4
<1>6. /\ disk' \in [Session -> Record] /\ \A t \in Session : IsFiniteSet(disk'[t].parts)
      /\ disk'[s] = d /\ \A t \in Session : t # s => disk'[t] = disk[t]
  <2> HIDE DEF d
  <2> QED BY <1>1, <1>3, <1>5, OnTyped
<1>7. step' \in StepState
  BY <1>3, RestIsTyped DEF Phases
<1>8. WorkerTypes' /\ OnlyIn(s)
  BY <1>1, <1>3, <1>6, <1>7 DEF WorkerTypes, OnlyIn, Moves
<1>9. s \notin Active => disk' = disk
  BY <1>6 DEF WorkerTypes
<1> QED BY <1>1, <1>3, <1>4, <1>6, <1>8, <1>9 DEF KeepsFiles

\* deleteSession()
LEMMA TrashDoes ==
  ASSUME WorkerTypes, Control, NEW s \in Session, Trash(s)
  PROVE  /\ WorkerTypes' /\ OnlyIn(s) /\ Rows(s) /\ writer' = writer
         /\ s \in EndedSessions
         /\ disk'[s].partial = <<>> /\ disk'[s].segment = <<>>
         /\ step' = DoingPart("delete", s, 0)
         /\ step'.at = "delete" /\ step'.s = s /\ step'.rows = {} /\ step'.es = <<>>
         /\ \/ step.at = "trash" /\ handling.op = "delete"
            \/ step.at = "idle" /\ handling = Idle
            \/ step.at = "retain" /\ handling.op \in {"begin", "append", "finish", "delete"}
<1> DEFINE d == [disk[s] EXCEPT !.partial = <<>>, !.segment = <<>>]
<1>1. /\ s \in EndedSessions /\ s \in Nat
      /\ \/ step.at = "trash" /\ handling.op = "delete"
         \/ step.at = "idle" /\ handling = Idle
         \/ step.at = "retain" /\ handling.op \in {"begin", "append", "finish", "delete"}
  BY DEF Trash, Control, StepFollows, Session
<1>2. disk[s] \in Record /\ IsFiniteSet(disk[s].parts)
  BY DiskIs
<1>3. On(s, d) /\ writer' = writer /\ Moves /\ step' = DoingPart("delete", s, 0)
  BY DEF Trash
<1>4. d \in Record /\ d.parts = disk[s].parts /\ d.chunks = disk[s].chunks
      /\ d.status = disk[s].status /\ d.part = disk[s].part
      /\ d.partial = <<>> /\ d.segment = <<>>
  BY <1>2, NoFiles DEF Record
<1> HIDE DEF d
<1>5. /\ disk' \in [Session -> Record] /\ \A t \in Session : IsFiniteSet(disk'[t].parts)
      /\ disk'[s] = d /\ \A t \in Session : t # s => disk'[t] = disk[t]
  BY <1>2, <1>3, <1>4, OnTyped
<1>6. step' \in StepState
      /\ step'.at = "delete" /\ step'.s = s /\ step'.rows = {} /\ step'.es = <<>>
  BY <1>1, <1>3, RestIsTyped DEF Phases
<1>7. WorkerTypes' /\ OnlyIn(s)
  BY <1>3, <1>5, <1>6 DEF WorkerTypes, OnlyIn, Moves
<1> QED BY <1>1, <1>3, <1>4, <1>5, <1>6, <1>7 DEF Rows

LEMMA DeleteDoes ==
  ASSUME WorkerTypes, Control, Delete
  PROVE  LET s == step.s
         IN  /\ WorkerTypes' /\ OnlyIn(s) /\ KeepsFiles(s) /\ writer' = writer
             /\ s \in EndedSessions
             /\ disk'[s].status = "deleted" /\ disk'[s].part = 0
             /\ disk'[s].chunks = {} /\ disk'[s].parts = {}
             /\ step.at = "delete" /\ handling.op # "close"
             /\ step' = Doing(IF handling = Idle THEN "idle" ELSE "retain")
<1> DEFINE s == step.s
           d == [NewRecord EXCEPT !.status = "deleted", !.partial = disk[s].partial,
                                  !.segment = disk[s].segment]
<1>1. /\ s \in Session /\ s \in EndedSessions /\ step.at = "delete" /\ handling.op # "close"
  BY StepIs DEF Delete, Control, StepFollows
<1>2. disk[s] \in Record /\ s \notin Active
  BY <1>1, DiskIs DEF Ends
<1>3. On(s, d) /\ writer' = writer /\ Moves
      /\ step' = Doing(IF handling = Idle THEN "idle" ELSE "retain")
  BY <1>2 DEF Delete
<1>4. d \in Record /\ d.parts = {} /\ d.chunks = {} /\ d.status = "deleted" /\ d.part = 0
      /\ d.partial = disk[s].partial /\ d.segment = disk[s].segment
  BY <1>2 DEF Record, NewRecord, Statuses
<1>5. IsFiniteSet(d.parts)
  BY <1>4, FS_EmptySet
<1> HIDE DEF d
<1>6. /\ disk' \in [Session -> Record] /\ \A t \in Session : IsFiniteSet(disk'[t].parts)
      /\ disk'[s] = d /\ \A t \in Session : t # s => disk'[t] = disk[t]
  BY <1>1, <1>3, <1>4, <1>5, OnTyped
<1>7. step' \in StepState
  BY <1>3, RestIsTyped DEF Phases
<1>8. WorkerTypes' /\ OnlyIn(s)
  BY <1>1, <1>3, <1>6, <1>7 DEF WorkerTypes, OnlyIn, Moves
<1> QED BY <1>1, <1>3, <1>4, <1>6, <1>8 DEF KeepsFiles

\* All that closes a record without its own message.
LEMMA DisconnectedDoes ==
  ASSUME WorkerTypes, NEW S \in SUBSET Session, Disconnected(S)
  PROVE  /\ disk' \in [Session -> Record]
         /\ \A t \in Session : /\ IsFiniteSet(disk'[t].parts) /\ KeepsFiles(t)
                               /\ disk'[t].part = disk[t].part
                               /\ disk'[t].chunks = disk[t].chunks
                               /\ disk'[t].parts = disk[t].parts
                               /\ disk'[t].status = IF t \in S THEN "disconnected"
                                                    ELSE disk[t].status
                               /\ t \notin S => disk'[t] = disk[t]
<1>1. ASSUME NEW t \in Session
      PROVE  LET d == IF t \in S THEN [disk[t] EXCEPT !.status = "disconnected"] ELSE disk[t]
             IN  /\ disk'[t] = d /\ d \in Record /\ IsFiniteSet(d.parts)
                 /\ d.partial = disk[t].partial /\ d.segment = disk[t].segment
                 /\ d.part = disk[t].part
                 /\ d.chunks = disk[t].chunks /\ d.parts = disk[t].parts
                 /\ d.status = IF t \in S THEN "disconnected" ELSE disk[t].status
  <2>1. disk[t] \in Record /\ IsFiniteSet(disk[t].parts) /\ "disconnected" \in Statuses
    BY DiskIs DEF Statuses
  <2>2. disk'[t] = IF t \in S THEN [disk[t] EXCEPT !.status = "disconnected"] ELSE disk[t]
    BY DEF Disconnected
  <2>3. CASE t \in S
    BY <2>1, <2>2, <2>3 DEF Record
  <2>4. CASE t \notin S
    BY <2>1, <2>2, <2>4
  <2> QED BY <2>3, <2>4
<1>2. disk' \in [Session -> Record]
  <2>1. \A t \in Session : disk'[t] \in Record
    BY <1>1
  <2>2. disk' = [t \in Session |-> disk'[t]]
    BY DEF Disconnected
  <2> QED BY <2>1, <2>2
<1> QED BY <1>1, <1>2 DEF KeepsFiles

LEMMA DisconnectDoes ==
  ASSUME WorkerTypes, Control, Disconnect
  PROVE  /\ WorkerTypes' /\ Moves /\ writer' = writer
         /\ \A t \in Session : /\ KeepsFiles(t) /\ disk'[t].part = disk[t].part
                               /\ disk'[t].chunks = disk[t].chunks
                               /\ disk'[t].parts = disk[t].parts
                               /\ disk'[t].status = IF t \in Active THEN "disconnected"
                                                    ELSE disk[t].status
                               /\ t \notin Active => disk'[t] = disk[t]
         /\ step.at = "close" /\ handling.op = "close" /\ Writing = {}
         /\ step' = Doing("done")
<1>1. Active \in SUBSET Session /\ Disconnected(Active) /\ Moves /\ writer' = writer
      /\ step' = Doing("done") /\ Writing = {} /\ step.at = "close" /\ handling.op = "close"
  BY DEF Active, Disconnect, Control, StepFollows
<1>2. step' \in StepState
  BY <1>1, RestIsTyped DEF Phases
<1>3. WorkerTypes'
  BY <1>1, <1>2, DisconnectedDoes DEF WorkerTypes, Moves
<1> QED BY <1>1, <1>3, DisconnectedDoes

\* recoverInterruptedSessions()
LEMMA RecoverPartDoes ==
  ASSUME WorkerTypes, Control, NEW s \in Session, NEW p \in DOMAIN disk[s].partial,
         RecoverPart(s, p)
  PROVE  /\ WorkerTypes' /\ OnlyIn(s) /\ Rows(s) /\ writer' = writer
         /\ s \in Active /\ step.at = "recover" /\ handling = Idle /\ p \in Nat
         /\ \/ /\ disk[s].partial[p] = {}
               /\ disk'[s].partial = Without(disk[s].partial, p)
               /\ disk'[s].segment = disk[s].segment
               /\ step' = step
            \/ /\ disk'[s].partial = disk[s].partial
               /\ disk'[s].segment = With(disk[s].segment, p, disk[s].partial[p])
               /\ step' = DoingPart("unlink", s, p)
               /\ step'.at = "unlink" /\ step'.s = s /\ step'.p = p /\ step'.rows = {}
<1> DEFINE f == Without(disk[s].partial, p)
           g == With(disk[s].segment, p, disk[s].partial[p])
           d == [disk[s] EXCEPT !.partial = f]
           e == [disk[s] EXCEPT !.segment = g]
<1>1. s \in Active /\ step.at = "recover" /\ handling = Idle /\ s \in Nat
  BY DEF RecoverPart, Recovering, Lowest, Control, StepFollows, Session
<1>2. /\ disk[s] \in Record /\ disk[s].partial \in Files /\ disk[s].segment \in Files
      /\ IsFiniteSet(disk[s].parts)
  BY DiskIs
<1>3. p \in Nat /\ {} \in SUBSET Nat
  BY <1>2 DEF Files
<1>4. f \in Files
  BY <1>2, <1>3, FileFacts
<1>5. g \in Files
  <2>1. disk[s].partial[p] \in SUBSET Nat
    BY <1>2, <1>3, FileFacts
  <2>2. \A h \in Files, v \in SUBSET Nat : With(h, p, v) \in Files
    BY <1>3, FileFacts
  <2> QED BY <1>2, <2>1, <2>2
<1>6. /\ writer' = writer /\ Moves
      /\ \/ disk[s].partial[p] = {} /\ On(s, d) /\ step' = step
         \/ On(s, e) /\ step' = DoingPart("unlink", s, p)
  BY DEF RecoverPart
<1> HIDE DEF f, g
<1>7. /\ d \in Record /\ IsFiniteSet(d.parts) /\ d.partial = f /\ d.segment = disk[s].segment
      /\ d.status = disk[s].status /\ d.part = disk[s].part
      /\ d.chunks = disk[s].chunks /\ d.parts = disk[s].parts
  BY <1>2, <1>4, RecordEdits
<1>8. /\ e \in Record /\ IsFiniteSet(e.parts) /\ e.segment = g /\ e.partial = disk[s].partial
      /\ e.status = disk[s].status /\ e.part = disk[s].part
      /\ e.chunks = disk[s].chunks /\ e.parts = disk[s].parts
  BY <1>2, <1>5, RecordEdits
<1> HIDE DEF d, e
<1>9. CASE disk[s].partial[p] = {} /\ On(s, d) /\ step' = step
  <2>1. /\ disk' \in [Session -> Record] /\ \A t \in Session : IsFiniteSet(disk'[t].parts)
        /\ disk'[s] = d /\ \A t \in Session : t # s => disk'[t] = disk[t]
    BY <1>2, <1>7, <1>9, OnTyped
  <2>2. WorkerTypes' /\ OnlyIn(s)
    BY <1>6, <1>9, <2>1 DEF WorkerTypes, OnlyIn, Moves
  <2> QED BY <1>1, <1>3, <1>6, <1>7, <1>9, <2>1, <2>2 DEF Rows, f
<1>10. CASE On(s, e) /\ step' = DoingPart("unlink", s, p)
  <2>1. /\ disk' \in [Session -> Record] /\ \A t \in Session : IsFiniteSet(disk'[t].parts)
        /\ disk'[s] = e /\ \A t \in Session : t # s => disk'[t] = disk[t]
    BY <1>2, <1>8, <1>10, OnTyped
  <2>2. step' \in StepState
        /\ step'.at = "unlink" /\ step'.s = s /\ step'.p = p /\ step'.rows = {}
    BY <1>1, <1>3, <1>10, RestIsTyped DEF Phases
  <2>3. WorkerTypes' /\ OnlyIn(s)
    BY <1>6, <1>10, <2>1, <2>2 DEF WorkerTypes, OnlyIn, Moves
  <2> QED BY <1>1, <1>3, <1>6, <1>8, <1>10, <2>1, <2>2, <2>3 DEF Rows, g
<1> QED BY <1>6, <1>9, <1>10

LEMMA RecoveredDoes ==
  ASSUME WorkerTypes, Control, NEW s \in Session, Recovered(s)
  PROVE  /\ WorkerTypes' /\ OnlyIn(s) /\ KeepsFiles(s) /\ writer' = writer
         /\ s \in Active /\ step.at = "recover" /\ handling = Idle
         /\ DOMAIN disk[s].partial = {}
         /\ disk'[s].status = "disconnected" /\ disk'[s].part = disk[s].part
         /\ disk'[s].chunks = disk[s].chunks /\ disk'[s].parts = disk[s].parts
         /\ step' = Doing(IF Active = {s} THEN "idle" ELSE "recover")
<1>1. /\ s \in Active /\ step.at = "recover" /\ handling = Idle /\ DOMAIN disk[s].partial = {}
      /\ {s} \in SUBSET Session /\ Disconnected({s}) /\ Moves /\ writer' = writer
      /\ step' = Doing(IF Active = {s} THEN "idle" ELSE "recover")
  BY DEF Recovered, Recovering, Lowest, Control, StepFollows
<1>2. step' \in StepState
  BY <1>1, RestIsTyped DEF Phases
<1>3. /\ disk' \in [Session -> Record]
      /\ \A t \in Session : /\ IsFiniteSet(disk'[t].parts)
                            /\ t # s => disk'[t] = disk[t]
      /\ KeepsFiles(s) /\ disk'[s].status = "disconnected" /\ disk'[s].part = disk[s].part
      /\ disk'[s].chunks = disk[s].chunks /\ disk'[s].parts = disk[s].parts
  BY <1>1, DisconnectedDoes
<1>4. WorkerTypes' /\ OnlyIn(s)
  BY <1>1, <1>2, <1>3 DEF WorkerTypes, OnlyIn, Moves
<1> QED BY <1>1, <1>3, <1>4

\* dispatch() decides where the handler of a message begins.
LEMMA FirstIs ==
  ASSUME WorkerTypes, NEW m \in Msg, NEW r, r = First(m)
  PROVE  LET batch == m.op = "append" /\ m.s \in Active
         IN  /\ r \in StepState
             /\ m.op = "begin" => r.at = "retain"
             /\ m.op = "append" /\ ~batch => r.at = "done"
             /\ m.op = "finish" => r.at = (IF m.s \in Writing THEN "seal" ELSE "finish")
                                   /\ r.s = m.s
             /\ m.op = "delete" => \/ r.at = "trash" /\ r.s = m.s /\ m.s \in EndedSessions
                                   \/ r.at = "done"
             /\ m.op = "close" => r.at = "close"
             /\ batch => /\ r.s = m.s /\ r.es = m.es /\ r.p = disk[m.s].part /\ r.rows = {}
                         /\ r.at = IF m.s \notin Writing THEN "open"
                                   ELSE IF m.es = <<>> THEN "commit"
                                   ELSE IF Full(writer[m.s]) THEN "seal" ELSE "write"
             /\ ~batch => r.rows = {} /\ r.es = <<>>
<1> DEFINE x == [DoingPart("open", m.s, disk[m.s].part) EXCEPT !.es = m.es]
<1>1. /\ m.op \in {"begin", "append", "finish", "delete", "close"} /\ m.s \in Nat
      /\ m.es \in Seq(Nat) /\ (m.op # "close" => m.s \in Session)
  BY DEF Msg, Ops
<1>2. CASE m.op = "begin"
  <2>1. r = Doing("retain")
    BY <1>2 DEF First
  <2> QED BY <1>2, <2>1, RestIsTyped DEF Phases
<1>3. CASE m.op = "close"
  <2>1. r = Doing("close")
    BY <1>3 DEF First
  <2> QED BY <1>3, <2>1, RestIsTyped DEF Phases
<1>4. CASE m.op = "delete"
  <2>1. (r = DoingPart("trash", m.s, 0) /\ m.s \in EndedSessions) \/ r = Doing("done")
    BY <1>4 DEF First
  <2>2. PICK phase : phase = IF r = Doing("done") THEN "done" ELSE "trash"
    OBVIOUS
  <2>3. /\ phase \in Phases
        /\ phase = "trash" => r = DoingPart(phase, m.s, 0) /\ m.s \in EndedSessions
        /\ phase # "trash" => phase = "done" /\ r = Doing(phase)
    BY <2>1, <2>2 DEF Phases
  <2>4. CASE phase = "trash"
    <3>1. r = DoingPart(phase, m.s, 0) /\ m.s \in EndedSessions
      BY <2>3, <2>4
    <3>2. r \in StepState /\ r.rows = {} /\ r.es = <<>> /\ r.at = "trash" /\ r.s = m.s
      BY <1>1, <1>4, <2>3, <2>4, <3>1, RestIsTyped
    <3> QED BY ONLY <1>4, <3>1, <3>2
  <2>5. CASE phase # "trash"
    <3>1. phase = "done" /\ r = Doing(phase)
      BY <2>3, <2>5
    <3>2. r \in StepState /\ r.rows = {} /\ r.es = <<>> /\ r.at = "done"
      BY <2>3, <3>1, RestIsTyped
    <3> QED BY ONLY <1>4, <3>2
  <2> QED BY <2>4, <2>5
<1>5. CASE m.op = "finish"
  <2>1. PICK a : a = IF m.s \in Writing THEN "seal" ELSE "finish"
    OBVIOUS
  <2>2. r = DoingPart(a, m.s, 0) /\ a \in Phases
    BY <1>5, <2>1 DEF First, Phases
  <2>3. r \in StepState /\ r.at = a /\ r.s = m.s /\ r.rows = {} /\ r.es = <<>>
    BY <1>1, <1>5, <2>2, RestIsTyped
  <2> QED BY ONLY <1>5, <2>1, <2>3
<1>6. CASE m.op = "append" /\ m.s \notin Active
  <2>1. r = Doing("done")
    BY <1>6 DEF First
  <2> QED BY <1>6, <2>1, RestIsTyped DEF Phases
<1>7. CASE m.op = "append" /\ m.s \in Active
  <2>1. r = IF m.s \in Writing THEN NextFrame(x, writer[m.s]) ELSE x
    BY <1>7 DEF First
  <2>2. disk[m.s].part \in Nat
    BY <1>1, <1>7, DiskIs
  <2>3. LET y == DoingPart("open", m.s, disk[m.s].part)
        IN y \in StepState /\ y.at = "open" /\ y.s = m.s /\ y.p = disk[m.s].part /\ y.rows = {}
    <3>1. "open" \in Phases /\ m.s \in Nat
      BY <1>1 DEF Phases
    <3> QED BY <2>2, <3>1, RestIsTyped
  <2>4. /\ x \in StepState /\ x.at = "open" /\ x.s = m.s /\ x.p = disk[m.s].part
        /\ x.es = m.es /\ x.rows = {}
    BY <1>1, <2>3 DEF StepState
  <2> HIDE DEF x
  <2> QED BY <1>7, <2>1, <2>4, NextFrameIs
<1> QED BY <1>1, <1>2, <1>3, <1>4, <1>5, <1>6, <1>7

LEMMA TakeDoes ==
  ASSUME WorkerTypes, Take
  PROVE  LET m == Head(inbox)
         IN  /\ WorkerTypes' /\ m \in Msg
             /\ handling = Idle /\ step.at = "idle" /\ inbox # <<>>
             /\ handling' = m /\ inbox' = Tail(inbox) /\ step' = First(m)
             /\ replies' = replies /\ disk' = disk /\ writer' = writer
<1> DEFINE m == Head(inbox)
<1>1. /\ handling = Idle /\ step.at = "idle" /\ inbox # <<>> /\ inbox \in Seq(Msg)
      /\ handling' = m /\ inbox' = Tail(inbox) /\ step' = First(m)
      /\ replies' = replies /\ disk' = disk /\ writer' = writer
  BY DEF Take, WorkerTypes
<1>2. m \in Msg /\ Tail(inbox) \in Seq(Msg)
  BY <1>1, HeadTailProperties
<1> HIDE DEF m
<1>3. step' \in StepState
  BY <1>1, <1>2, FirstIs
<1>4. WorkerTypes'
  BY <1>1, <1>2, <1>3 DEF WorkerTypes
<1> QED BY <1>1, <1>2, <1>4 DEF m

LEMMA RefuseDoes ==
  ASSUME WorkerTypes, Refuse
  PROVE  LET m == Head(inbox)
         IN  /\ WorkerTypes' /\ m \in Msg /\ m.op = "append" /\ inbox # <<>>
             /\ handling = Idle /\ step.at = "idle"
             /\ handling' = handling /\ inbox' = Tail(inbox) /\ step' = step
             /\ disk' = disk /\ writer' = writer
             /\ replies' = Append(replies, ReplyTo(m, FALSE))
             /\ ReplyTo(m, FALSE) \in Answer
<1> DEFINE m == Head(inbox)
<1>1. /\ handling = Idle /\ step.at = "idle" /\ inbox # <<>> /\ m.op = "append"
      /\ inbox' = Tail(inbox) /\ replies' = Append(replies, ReplyTo(m, FALSE))
      /\ disk' = disk /\ writer' = writer /\ handling' = handling /\ step' = step
  BY DEF Refuse
<1>2. m \in Msg /\ Tail(inbox) \in Seq(Msg)
  BY <1>1, HeadTailProperties DEF WorkerTypes
<1>3. m.op \in Ops /\ m.s \in Nat /\ Len(m.es) \in Nat
  BY <1>2, LenProperties DEF Msg
<1>4. ReplyTo(m, FALSE) \in Answer
  BY <1>3 DEF ReplyTo, Answer
<1>5. replies' \in Seq(Answer)
  BY <1>1, <1>4, AppendProperties DEF WorkerTypes
<1> QED BY <1>1, <1>2, <1>4, <1>5 DEF WorkerTypes

LEMMA PostReplyDoes ==
  ASSUME WorkerTypes, PostReply
  PROVE  /\ WorkerTypes' /\ handling # Idle /\ step.at \in {"done", "retain"}
         /\ handling' = Idle /\ inbox' = inbox /\ disk' = disk /\ writer' = writer
         /\ step'.at = IF handling.op = "close" THEN "closed" ELSE "idle"
         /\ \/ replies' = replies /\ handling.op \in {"begin", "finish", "delete"}
            \/ \E ok \in BOOLEAN : replies' = Append(replies, ReplyTo(handling, ok))
                                   /\ ReplyTo(handling, ok) \in Answer
<1>1. /\ handling # Idle /\ step.at \in {"done", "retain"}
      /\ handling' = Idle /\ inbox' = inbox /\ disk' = disk /\ writer' = writer
      /\ step' = Doing(IF handling.op = "close" THEN "closed" ELSE "idle")
  BY DEF PostReply
<1>2. step' \in StepState /\ step'.at = IF handling.op = "close" THEN "closed" ELSE "idle"
  BY <1>1, RestIsTyped DEF Phases
<1>3. handling \in Msg /\ handling.op \in Ops /\ handling.s \in Nat /\ Len(handling.es) \in Nat
  BY <1>1, LenProperties DEF WorkerTypes, Msg
<1>4. \A ok \in BOOLEAN : ReplyTo(handling, ok) \in Answer
  BY <1>3 DEF ReplyTo, Answer
<1>5. \/ replies' = replies /\ handling.op \in {"begin", "finish", "delete"}
      \/ \E ok \in BOOLEAN : replies' = Append(replies, ReplyTo(handling, ok))
                             /\ ReplyTo(handling, ok) \in Answer
  BY <1>4 DEF PostReply
<1>6. replies' \in Seq(Answer)
  BY <1>5, AppendProperties DEF WorkerTypes
<1> QED BY <1>1, <1>2, <1>5, <1>6 DEF WorkerTypes

-----------------------------------------------------------------------------
(* The worker stays where a handler may be *)

LEMMA FreshIsNew ==
  ASSUME WorkerTypes, NEW s \in Session, Fresh(s)
  PROVE  s \notin Active /\ s \notin EndedSessions /\ disk[s].status = "none"
         /\ disk[s].chunks = {} /\ disk[s].parts = {}
         /\ disk[s].partial = <<>> /\ disk[s].segment = <<>>
BY DEF Fresh, NewRecord, Active, EndedSessions

LEMMA SameSets ==
  ASSUME NEW s \in Session, OnlyIn(s), disk'[s].status = disk[s].status
  PROVE  Active' = Active /\ EndedSessions' = EndedSessions
<1>1. \A t \in Session : disk'[t].status = disk[t].status
  BY DEF OnlyIn
<1> QED BY <1>1 DEF Active, EndedSessions

LEMMA WritingOnly ==
  ASSUME NEW s \in Session, OnlyIn(s)
  PROVE  Writing' = IF writer'[s] = NoWriter THEN Writing \ {s} ELSE Writing \union {s}
BY DEF OnlyIn, Writing

\* What the handlers of the message loop leave alone.
Inserts(t) == step.at = "retain" /\ handling.op = "begin" /\ t = handling.s /\ step'.at = "open"
HandlerKeeps ==
  /\ WorkerTypes' /\ Moves
  /\ StepFollows' /\ WriterFollows' /\ Starting'
  /\ \A t \in Session : /\ Fresh(t) => Fresh(t)' \/ Inserts(t)
                        /\ t \in Active' => t \in Active \/ Inserts(t)
  /\ step'.at \in {"retain", "delete"} /\ handling.op = "begin"
       => step.at \in {"retain", "delete"}
  /\ step'.at # "closed"

LEMMA KeptFresh ==
  ASSUME WorkerTypes, NEW s \in Session, OnlyIn(s), s \in Active \union EndedSessions
  PROVE  \A t \in Session : Fresh(t) => Fresh(t)'
<1> SUFFICES ASSUME NEW t \in Session, Fresh(t)
             PROVE  Fresh(t)'
  OBVIOUS
<1>1. t # s
  BY FreshIsNew
<1> QED BY <1>1 DEF OnlyIn, Fresh

LEMMA OpenKeeps ==
  ASSUME WorkerTypes, Control, main' = main, main.store # "closed", OpenPart
  PROVE  HandlerKeeps
<1> DEFINE s == step.s
<1>1. /\ WorkerTypes' /\ OnlyIn(s) /\ Rows(s)
      /\ disk'[s].partial = IF step.p \in DOMAIN disk[s].partial THEN disk[s].partial
                            ELSE With(disk[s].partial, step.p, {})
      /\ writer'[s].part = step.p /\ writer'[s].count = 0
      /\ step.at = "open" => handling.op = "begin" /\ step' = Doing("done")
      /\ step.at = "rotate" => handling.op = "append" /\ step' = Trimming(step, disk[s].parts)
  BY OpenDoes
<1>2. /\ step.at \in {"open", "rotate"} /\ s \in Session /\ s \in Active /\ s \notin Writing
      /\ step.p # 0 /\ step.p \in Nat /\ s = handling.s
      /\ step.at = "rotate" => step.es # <<>>
  BY StepIs DEF OpenPart, Control, StepFollows, WriterFollows
<1>3. Active' = Active /\ EndedSessions' = EndedSessions /\ Writing' = Writing \union {s}
  BY <1>1, <1>2, SameSets, WritingOnly DEF Rows, NoWriter
<1>4. /\ step.at = "open" => step'.at = "done" /\ step'.s = 0
      /\ step.at = "rotate" => /\ step'.at \in {"trim", "write"} /\ step'.s = s
                               /\ step'.es = step.es
  <2>1. Doing("done").at = "done" /\ Doing("done").s = 0
    BY RestIsTyped DEF Phases
  <2>2. step \in StepState
    BY DEF WorkerTypes
  <2>3. LET r == Trimming(step, disk[s].parts)
        IN  r.at \in {"trim", "write"} /\ r.s = s /\ r.es = step.es
    BY <2>2, TrimmingIs
  <2> QED BY <1>1, <2>1, <2>3
<1>5. step.p \in DOMAIN disk'[s].partial
  BY <1>1 DEF With
<1>6. Moves /\ handling' = handling
  BY <1>1 DEF OnlyIn, Moves
<1>7. StepFollows'
  BY <1>1, <1>2, <1>3, <1>4, <1>6, HandlingIs DEF Control, StepFollows
<1>8. WriterFollows'
  <2>1. \A t \in Writing' : t \in Active' /\ writer'[t].part \in DOMAIN disk'[t].partial
    BY <1>1, <1>2, <1>3, <1>5, StepIs DEF Control, WriterFollows, OnlyIn
  <2>2. AppRunning' => \A t \in Active' : t \in Writing' \/ handling'.op = "close"
    BY <1>2, <1>3, <1>6 DEF Control, WriterFollows, AppRunning
  <2>3. step'.s \in Writing' \/ step'.at = "done"
    BY <1>2, <1>3, <1>4
  <2>4. step'.at \in {"done", "trim", "write"}
    BY <1>2, <1>4
  <2> QED BY <2>1, <2>2, <2>3, <2>4 DEF WriterFollows
<1>9. Starting'
  BY <1>2, <1>4, <1>6 DEF Control, Starting, OnlyIn
<1>10. \A t \in Session : Fresh(t) => Fresh(t)'
  BY <1>1, <1>2, KeptFresh
<1> QED BY <1>1, <1>2, <1>3, <1>4, <1>6, <1>7, <1>8, <1>9, <1>10 DEF HandlerKeeps, Inserts

LEMMA WriteKeeps ==
  ASSUME WorkerTypes, Control, main' = main, Write
  PROVE  HandlerKeeps
<1> DEFINE s == step.s
           p == writer[s].part
           e == Head(step.es)
<1>1. /\ WorkerTypes' /\ OnlyIn(s) /\ Rows(s)
      /\ p \in DOMAIN disk[s].partial
      /\ disk'[s].partial = With(disk[s].partial, p, disk[s].partial[p] \union {e})
      /\ writer'[s].part = p /\ writer'[s].count = writer[s].count + 1
      /\ step'.at = IF step'.es = <<>> THEN "commit"
                    ELSE IF Full(writer'[s]) THEN "seal" ELSE "write"
      /\ step'.s = s
  BY WriteDoes
<1>2. /\ step.at = "write" /\ s \in Session /\ s \in Active /\ s \in Writing
      /\ s = handling.s /\ handling.op = "append"
  BY StepIs DEF Write, Control, StepFollows, WriterFollows
<1>3. /\ writer[s].count + 1 # 0 /\ writer'[s] # NoWriter
  BY <1>1, <1>2, DiskIs DEF NoWriter
<1>4. Active' = Active /\ EndedSessions' = EndedSessions /\ Writing' = Writing
  BY <1>1, <1>2, <1>3, SameSets, WritingOnly DEF Rows
<1>5. p \in DOMAIN disk'[s].partial
  BY <1>1 DEF With
<1>6. Moves /\ handling' = handling
  BY <1>1 DEF OnlyIn, Moves
<1>7. step'.at \in {"commit", "seal", "write"} /\ (step'.at = "commit" <=> step'.es = <<>>)
  BY <1>1
<1>8. StepFollows'
  BY <1>1, <1>2, <1>4, <1>6, <1>7 DEF StepFollows
<1>9. WriterFollows'
  <2>1. \A t \in Writing' : t \in Active' /\ writer'[t].part \in DOMAIN disk'[t].partial
    BY <1>1, <1>2, <1>4, <1>5, StepIs DEF Control, WriterFollows, OnlyIn
  <2>2. AppRunning' => \A t \in Active' : t \in Writing' \/ handling'.op = "close"
    BY <1>2, <1>4, <1>6 DEF Control, WriterFollows, AppRunning
  <2> QED BY <1>1, <1>2, <1>4, <1>7, <2>1, <2>2 DEF WriterFollows
<1>10. Starting'
  BY <1>2, <1>7, <1>6 DEF Control, Starting
<1>11. \A t \in Session : Fresh(t) => Fresh(t)'
  BY <1>1, <1>2, KeptFresh
<1> QED BY <1>1, <1>2, <1>4, <1>6, <1>7, <1>8, <1>9, <1>10, <1>11 DEF HandlerKeeps, Inserts

LEMMA CompressKeeps ==
  ASSUME WorkerTypes, Control, main' = main, NEW s \in Session, Compress(s)
  PROVE  HandlerKeeps
<1> DEFINE p == writer[s].part
<1>1. /\ WorkerTypes' /\ OnlyIn(s) /\ Rows(s)
      /\ s \in Writing
      /\ disk'[s].partial = disk[s].partial
      /\ writer'[s] = NoWriter
      /\ step'.at = "unlink" /\ step'.s = s /\ step'.p = p /\ step'.es = step.es
      /\ \/ step.at = "seal" /\ step.s = s /\ handling.s = s
            /\ handling.op \in {"append", "finish"}
         \/ step.at = "close" /\ handling.op = "close"
  BY CompressDoes
<1>2. Active' = Active /\ EndedSessions' = EndedSessions /\ Writing' = Writing \ {s}
  BY <1>1, SameSets, WritingOnly DEF Rows
<1>3. s \in Active
  BY <1>1 DEF Control, WriterFollows
<1>4. Moves /\ handling' = handling
  BY <1>1 DEF OnlyIn, Moves
<1>5. step.at = "seal" /\ handling.op = "append" => step'.es # <<>>
  BY <1>1 DEF Control, StepFollows
<1>6. StepFollows'
  BY <1>1, <1>2, <1>3, <1>4, <1>5, HandlingIs DEF StepFollows
<1>7. WriterFollows'
  <2>1. \A t \in Writing' : t \in Active' /\ writer'[t].part \in DOMAIN disk'[t].partial
    BY <1>1, <1>2, StepIs DEF Control, WriterFollows, OnlyIn
  <2>2. AppRunning' => \A t \in Active' : t \in Writing' \/ t = s \/ handling'.op = "close"
    BY <1>1, <1>2, <1>4 DEF Control, WriterFollows, AppRunning
  <2> QED BY <1>1, <1>2, <2>1, <2>2 DEF WriterFollows
<1>8. Starting'
  BY <1>1, <1>4, HandlingIs DEF Control, Starting
<1>9. \A t \in Session : Fresh(t) => Fresh(t)'
  BY <1>1, <1>3, KeptFresh
<1> QED BY <1>1, <1>2, <1>4, <1>6, <1>7, <1>8, <1>9 DEF HandlerKeeps, Inserts

LEMMA DiscardKeeps ==
  ASSUME WorkerTypes, Control, main' = main, NEW s \in Session, Discard(s)
  PROVE  HandlerKeeps
<1>1. /\ WorkerTypes' /\ OnlyIn(s) /\ Rows(s)
      /\ s \in Writing
      /\ writer'[s] = NoWriter /\ step' = Sealed(step)
      /\ \/ step.at = "seal" /\ step.s = s /\ handling.s = s
            /\ handling.op \in {"append", "finish"}
         \/ step.at = "close" /\ handling.op = "close"
  BY DiscardDoes
<1>2. Active' = Active /\ EndedSessions' = EndedSessions /\ Writing' = Writing \ {s}
  BY <1>1, SameSets, WritingOnly DEF Rows
<1>3. s \in Active
  BY <1>1 DEF Control, WriterFollows
<1>4. Moves /\ handling' = handling
  BY <1>1 DEF OnlyIn, Moves
<1>5. /\ handling.op = "append" => /\ step'.at = "rotate" /\ step'.s = s /\ step'.p # 0
                                   /\ step'.es = step.es /\ step.es # <<>>
      /\ handling.op = "finish" => step'.at = "finish" /\ step'.s = s
      /\ handling.op = "close" => step'.at = "close"
  <2>1. step.p \in Nat /\ (handling.op = "append" => step.es # <<>>)
    BY <1>1, StepIs DEF Control, StepFollows
  <2>2. step.p + 1 # 0
    BY <2>1
  <2> QED BY <1>1, <2>1, <2>2, SealedIs
<1>6. StepFollows'
  BY <1>1, <1>2, <1>3, <1>4, <1>5 DEF StepFollows
<1>7. WriterFollows'
  <2>1. \A t \in Writing' : t \in Active' /\ writer'[t].part \in DOMAIN disk'[t].partial
    BY <1>1, <1>2, StepIs DEF Control, WriterFollows, OnlyIn
  <2>2. AppRunning' => \A t \in Active' : t \in Writing' \/ t = s \/ handling'.op = "close"
    BY <1>1, <1>2, <1>4 DEF Control, WriterFollows, AppRunning
  <2> QED BY <1>1, <1>2, <1>4, <1>5, <2>1, <2>2 DEF WriterFollows
<1>8. Starting'
  BY <1>1, <1>4, <1>5, HandlingIs DEF Control, Starting
<1>9. \A t \in Session : Fresh(t) => Fresh(t)'
  BY <1>1, <1>3, KeptFresh
<1> QED BY <1>1, <1>2, <1>4, <1>5, <1>6, <1>7, <1>8, <1>9 DEF HandlerKeeps, Inserts

LEMMA UnlinkKeeps ==
  ASSUME WorkerTypes, Control, main' = main, Unlink
  PROVE  HandlerKeeps
<1> DEFINE s == step.s
<1>1. /\ WorkerTypes' /\ OnlyIn(s) /\ Rows(s) /\ writer' = writer
      /\ step.at = "unlink" /\ step'.at = "enter" /\ step'.s = s /\ step'.es = step.es
  BY UnlinkDoes
<1>2. s \in Session /\ s \in Active /\ s \notin Writing
  BY <1>1, StepIs DEF Control, StepFollows, WriterFollows
<1>3. Active' = Active /\ EndedSessions' = EndedSessions /\ Writing' = Writing
  BY <1>1, <1>2, SameSets DEF Rows, Writing
<1>4. Moves /\ handling' = handling
  BY <1>1 DEF OnlyIn, Moves
<1>5. StepFollows'
  BY <1>1, <1>2, <1>3, <1>4 DEF Control, StepFollows
<1>6. WriterFollows'
  <2>1. \A t \in Writing' : t \in Active' /\ writer'[t].part \in DOMAIN disk'[t].partial
    BY <1>1, <1>2, <1>3, StepIs DEF Control, WriterFollows, OnlyIn
  <2> QED BY <1>1, <1>2, <1>3, <1>4, <2>1 DEF Control, WriterFollows, AppRunning
<1>7. Starting'
  BY <1>1, <1>3, <1>4 DEF Control, Starting, OnlyIn
<1>8. \A t \in Session : Fresh(t) => Fresh(t)'
  BY <1>1, <1>2, KeptFresh
<1> QED BY <1>1, <1>3, <1>4, <1>5, <1>6, <1>7, <1>8 DEF HandlerKeeps, Inserts

LEMMA EnterKeeps ==
  ASSUME WorkerTypes, Control, main' = main, Enter
  PROVE  HandlerKeeps
<1> DEFINE s == step.s
<1>1. /\ WorkerTypes' /\ OnlyIn(s) /\ KeepsFiles(s) /\ writer' = writer
      /\ disk'[s].status = disk[s].status
      /\ step.at = "enter" /\ handling.op \in {"append", "finish", "close", "idle"}
      /\ step' = Sealed(step)
  BY EnterDoes
<1>2. /\ s \in Session /\ s \in Active /\ s \notin Writing
      /\ handling.op \in {"append", "finish"} => s = handling.s
      /\ handling.op = "append" => step.es # <<>>
  BY <1>1, StepIs DEF Control, StepFollows, WriterFollows
<1>3. Active' = Active /\ EndedSessions' = EndedSessions /\ Writing' = Writing
  BY <1>1, <1>2, SameSets DEF Writing
<1>4. Moves /\ handling' = handling
  BY <1>1 DEF OnlyIn, Moves
<1>5. /\ handling.op = "append" => /\ step'.at = "rotate" /\ step'.s = s /\ step'.p # 0
                                   /\ step'.es = step.es
      /\ handling.op = "finish" => step'.at = "finish" /\ step'.s = s
      /\ handling.op = "close" => step'.at = "close"
      /\ handling.op = "idle" => step'.at = "recover"
  <2>1. step.p + 1 # 0
    BY StepIs
  <2> QED BY <1>1, <2>1, SealedIs
<1>6. handling = Idle <=> handling.op = "idle"
  BY HandlingIs
<1>7. StepFollows'
  BY <1>1, <1>2, <1>3, <1>4, <1>5, <1>6 DEF StepFollows
<1>8. WriterFollows'
  <2>1. \A t \in Writing' : t \in Active' /\ writer'[t].part \in DOMAIN disk'[t].partial
    BY <1>1, <1>2, <1>3, StepIs DEF Control, WriterFollows, OnlyIn, KeepsFiles
  <2>2. AppRunning' => handling.op # "idle"
    BY <1>1, <1>6 DEF Control, Starting, AppRunning
  <2> QED BY <1>1, <1>2, <1>3, <1>4, <1>5, <2>1, <2>2 DEF Control, WriterFollows, AppRunning
<1>9. Starting'
  BY <1>1, <1>3, <1>4, <1>5, <1>6 DEF Control, Starting, OnlyIn
<1>10. \A t \in Session : Fresh(t) => Fresh(t)'
  BY <1>1, <1>2, KeptFresh
<1> QED BY <1>1, <1>3, <1>4, <1>5, <1>7, <1>8, <1>9, <1>10 DEF HandlerKeeps, Inserts

\* A trim, and the rows of a batch: the writer stays.
LEMMA TrimKeeps ==
  ASSUME WorkerTypes, Control, main' = main,
         \/ \E p : RemovePart(p)
         \/ Forget
         \/ CommitRows
  PROVE  HandlerKeeps
<1> DEFINE s == step.s
<1>1. /\ WorkerTypes' /\ OnlyIn(s) /\ writer' = writer
      /\ disk'[s].status = disk[s].status /\ disk'[s].partial = disk[s].partial
      /\ step.at \in {"trim", "forget", "commit"}
      /\ \/ step'.at \in {"forget", "trim", "write"} /\ step'.s = s /\ step'.es = step.es
            /\ step.at # "commit"
         \/ step'.at = "retain"
  <2>1. CASE \E p : RemovePart(p)
    BY <2>1, RemovePartDoes DEF Rows
  <2>2. CASE Forget
    BY <2>2, ForgetDoes DEF KeepsFiles
  <2>3. CASE CommitRows
    BY <2>3, CommitDoes, RestIsTyped DEF Phases, KeepsFiles
  <2> QED BY <2>1, <2>2, <2>3
<1>2. /\ s \in Session /\ s \in Active /\ s \in Writing /\ s = handling.s /\ handling.op = "append"
      /\ step.at # "commit" => step.es # <<>>
  BY <1>1, StepIs DEF Control, StepFollows, WriterFollows
<1>3. Active' = Active /\ EndedSessions' = EndedSessions /\ Writing' = Writing
  BY <1>1, <1>2, SameSets DEF Writing
<1>4. Moves /\ handling' = handling
  BY <1>1 DEF OnlyIn, Moves
<1>5. StepFollows'
  BY <1>1, <1>2, <1>3, <1>4 DEF StepFollows
<1>6. WriterFollows'
  <2>1. \A t \in Writing' : t \in Active' /\ writer'[t].part \in DOMAIN disk'[t].partial
    BY <1>1, <1>2, <1>3, StepIs DEF Control, WriterFollows, OnlyIn
  <2>2. AppRunning' => \A t \in Active' : t \in Writing' \/ handling'.op = "close"
    BY <1>1, <1>3, <1>4 DEF Control, WriterFollows, AppRunning
  <2> QED BY <1>1, <1>2, <1>3, <1>4, <2>1, <2>2 DEF WriterFollows
<1>7. Starting'
  BY <1>1, <1>2, <1>3, <1>4 DEF Control, Starting, OnlyIn
<1>8. \A t \in Session : Fresh(t) => Fresh(t)'
  BY <1>1, <1>2, KeptFresh
<1> QED BY <1>1, <1>2, <1>3, <1>4, <1>5, <1>6, <1>7, <1>8 DEF HandlerKeeps, Inserts

LEMMA InsertKeeps ==
  ASSUME WorkerTypes, Control, main' = main, Insert, Fresh(handling.s)
  PROVE  HandlerKeeps
<1> DEFINE s == handling.s
<1>1. /\ WorkerTypes' /\ OnlyIn(s) /\ KeepsFiles(s) /\ writer' = writer
      /\ disk'[s].status = "active"
      /\ step.at = "retain" /\ handling.op = "begin" /\ step' = DoingPart("open", s, 1)
  BY InsertDoes
<1>2. /\ s \in Session /\ s \notin Active /\ s \notin EndedSessions /\ s \notin Writing
      /\ s \in Nat
  BY <1>1, FreshIsNew DEF Control, WriterFollows, OnlyIn, Session
<1>3. Active' = Active \union {s} /\ EndedSessions' = EndedSessions /\ Writing' = Writing
  <2>1. \A t \in Session : t \in Active' <=> t \in Active \/ t = s
    BY <1>1 DEF Active, OnlyIn
  <2>2. \A t \in Session : t \in EndedSessions' <=> t \in EndedSessions
    BY <1>1, <1>2 DEF EndedSessions, OnlyIn
  <2>3. Active \subseteq Session /\ EndedSessions \subseteq Session
        /\ Active' \subseteq Session /\ EndedSessions' \subseteq Session
    BY DEF Active, EndedSessions
  <2> QED BY <1>1, <1>2, <2>1, <2>2, <2>3 DEF Writing
<1>4. Moves /\ handling' = handling /\ handling # Idle
  BY <1>1, HandlingIs DEF OnlyIn, Moves
<1>5. step'.at = "open" /\ step'.s = s /\ step'.p = 1
  BY <1>1, <1>2, RestIsTyped DEF Phases
<1>6. StepFollows'
  BY <1>1, <1>2, <1>3, <1>4, <1>5 DEF StepFollows
<1>7. WriterFollows'
  <2>1. \A t \in Writing' : t \in Active' /\ writer'[t].part \in DOMAIN disk'[t].partial
    BY <1>1, <1>2, <1>3, StepIs DEF Control, WriterFollows, OnlyIn
  <2>2. AppRunning' => \A t \in Active' : t \in Writing' \/ t = s
    BY <1>1, <1>3 DEF Control, WriterFollows, AppRunning
  <2> QED BY <1>2, <1>3, <1>5, <2>1, <2>2 DEF WriterFollows
<1>8. Starting'
  BY <1>1, <1>4, <1>5 DEF Control, Starting
<1>9. \A t \in Session : Fresh(t) => Fresh(t)' \/ t = s
  BY <1>1 DEF OnlyIn, Fresh
<1> QED BY <1>1, <1>3, <1>4, <1>5, <1>6, <1>7, <1>8, <1>9 DEF HandlerKeeps, Inserts

LEMMA FinishKeeps ==
  ASSUME WorkerTypes, Control, main' = main, FinishRecord
  PROVE  HandlerKeeps
<1> DEFINE s == step.s
<1>1. /\ WorkerTypes' /\ OnlyIn(s) /\ KeepsFiles(s) /\ writer' = writer
      /\ disk'[s].status \in IF s \in Active THEN Ends ELSE {disk[s].status}
      /\ s \notin Active => disk' = disk
      /\ step.at = "finish" /\ handling.op = "finish" /\ handling.s = s
      /\ step' = Doing("retain")
  BY FinishDoes
<1>2. s \in Session /\ s \notin Writing
  BY <1>1 DEF Control, WriterFollows, OnlyIn
<1>3. Active' = Active \ {s} /\ EndedSessions \subseteq EndedSessions' /\ Writing' = Writing
  <2>1. s \notin Active'
    BY <1>1, <1>2 DEF Active, Ends
  <2>2. \A t \in Session \ {s} : t \in Active' <=> t \in Active
    BY <1>1 DEF Active, OnlyIn
  <2>3. \A t \in Session : t \in EndedSessions => t \in EndedSessions'
    <3>1. \A t \in Session \ {s} : t \in EndedSessions => t \in EndedSessions'
      BY <1>1 DEF EndedSessions, OnlyIn
    <3>2. s \in EndedSessions => s \notin Active
      BY <1>2, DiskIs DEF Ends
    <3> QED BY <1>1, <3>1, <3>2 DEF EndedSessions
  <2>4. Active \subseteq Session /\ EndedSessions \subseteq Session /\ Active' \subseteq Session
    BY DEF Active, EndedSessions
  <2> QED BY <1>1, <2>1, <2>2, <2>3, <2>4 DEF Writing
<1>4. Moves /\ handling' = handling
  BY <1>1 DEF OnlyIn, Moves
<1>5. step'.at = "retain"
  BY <1>1, RestIsTyped DEF Phases
<1>6. StepFollows'
  BY <1>1, <1>3, <1>4, <1>5 DEF StepFollows
<1>7. WriterFollows'
  <2>1. \A t \in Writing' : t \in Active' /\ writer'[t].part \in DOMAIN disk'[t].partial
    BY <1>1, <1>2, <1>3, StepIs DEF Control, WriterFollows, OnlyIn
  <2>2. AppRunning' => \A t \in Active' : t \in Writing'
    BY <1>1, <1>3 DEF Control, WriterFollows, AppRunning
  <2> QED BY <1>3, <1>5, <2>1, <2>2 DEF WriterFollows
<1>8. Starting'
  BY <1>1, <1>5 DEF Control, Starting
<1>9. \A t \in Session : Fresh(t) => Fresh(t)'
  <2>1. CASE s \in Active
    BY <1>1, <1>2, <2>1, KeptFresh
  <2>2. CASE s \notin Active
    BY <1>1, <2>2 DEF Fresh
  <2> QED BY <2>1, <2>2
<1> QED BY <1>1, <1>3, <1>4, <1>5, <1>6, <1>7, <1>8, <1>9 DEF HandlerKeeps, Inserts

LEMMA TrashKeeps ==
  ASSUME WorkerTypes, Control, main' = main, NEW s \in Session, Trash(s)
  PROVE  HandlerKeeps
<1>1. /\ WorkerTypes' /\ OnlyIn(s) /\ Rows(s) /\ writer' = writer
      /\ s \in EndedSessions
      /\ step'.at = "delete" /\ step'.s = s
      /\ \/ step.at = "trash" /\ handling.op = "delete"
         \/ step.at = "idle" /\ handling = Idle
         \/ step.at = "retain" /\ handling.op \in {"begin", "append", "finish", "delete"}
  BY TrashDoes
<1>2. s \notin Active /\ s \notin Writing
  BY <1>1, DiskIs DEF Control, WriterFollows, Ends
<1>3. Active' = Active /\ EndedSessions' = EndedSessions /\ Writing' = Writing
  BY <1>1, SameSets DEF Rows, Writing
<1>4. Moves /\ handling' = handling
  BY <1>1 DEF OnlyIn, Moves
<1>5. handling.op # "close"
  BY <1>1, HandlingIs
<1>6. StepFollows'
  BY <1>1, <1>3, <1>4, <1>5, HandlingIs DEF Control, StepFollows
<1>7. WriterFollows'
  <2>1. \A t \in Writing' : t \in Active' /\ writer'[t].part \in DOMAIN disk'[t].partial
    BY <1>1, <1>2, <1>3, StepIs DEF Control, WriterFollows, OnlyIn
  <2>2. AppRunning' => \A t \in Active' : t \in Writing'
    BY <1>1, <1>3, <1>5 DEF Control, WriterFollows, AppRunning
  <2> QED BY <1>1, <1>3, <2>1, <2>2 DEF WriterFollows
<1>8. Starting'
  BY <1>1, <1>3, <1>4, HandlingIs DEF Control, Starting, OnlyIn
<1>9. \A t \in Session : Fresh(t) => Fresh(t)'
  BY <1>1, KeptFresh
<1> QED BY <1>1, <1>3, <1>4, <1>6, <1>7, <1>8, <1>9, HandlingIs DEF HandlerKeeps, Inserts

LEMMA DeleteKeeps ==
  ASSUME WorkerTypes, Control, main' = main, Delete
  PROVE  HandlerKeeps
<1> DEFINE s == step.s
<1>1. /\ WorkerTypes' /\ OnlyIn(s) /\ KeepsFiles(s) /\ writer' = writer
      /\ s \in EndedSessions
      /\ disk'[s].status = "deleted"
      /\ step.at = "delete" /\ handling.op # "close"
      /\ step' = Doing(IF handling = Idle THEN "idle" ELSE "retain")
  BY DeleteDoes
<1>2. s \in Session /\ s \notin Active /\ s \notin Writing
  BY <1>1, DiskIs DEF Control, WriterFollows, Ends, OnlyIn
<1>3. Active' = Active /\ Writing' = Writing
  <2>1. \A t \in Session : t \in Active' <=> t \in Active
    BY <1>1, <1>2 DEF Active, OnlyIn
  <2> QED BY <1>1, <2>1 DEF Active, Writing
<1>4. Moves /\ handling' = handling
  BY <1>1 DEF OnlyIn, Moves
<1>5. step'.at = IF handling = Idle THEN "idle" ELSE "retain"
  BY <1>1, RestIsTyped DEF Phases
<1>6. /\ handling = Idle \/ handling.op \in {"begin", "append", "finish", "delete"}
      /\ handling.op = "finish" => handling.s \notin Active
  BY <1>1, HandlingIs DEF Control, StepFollows, Ops
<1>7. StepFollows'
  BY <1>3, <1>4, <1>5, <1>6 DEF StepFollows
<1>8. WriterFollows'
  <2>1. \A t \in Writing' : t \in Active' /\ writer'[t].part \in DOMAIN disk'[t].partial
    BY <1>1, <1>2, <1>3, StepIs DEF Control, WriterFollows, OnlyIn
  <2>2. AppRunning' => \A t \in Active' : t \in Writing'
    BY <1>1, <1>3 DEF Control, WriterFollows, AppRunning
  <2> QED BY <1>5, <2>1, <2>2 DEF WriterFollows
<1>9. Starting'
  BY <1>1, <1>3, <1>4, <1>5 DEF Control, Starting, OnlyIn
<1>10. \A t \in Session : Fresh(t) => Fresh(t)'
  BY <1>1, <1>2, KeptFresh
<1> QED BY <1>1, <1>3, <1>4, <1>5, <1>7, <1>8, <1>9, <1>10 DEF HandlerKeeps, Inserts

LEMMA DisconnectKeeps ==
  ASSUME WorkerTypes, Control, main' = main, Disconnect
  PROVE  HandlerKeeps
<1>1. /\ WorkerTypes' /\ Moves /\ writer' = writer /\ handling' = handling
      /\ \A t \in Session : /\ disk'[t].status = IF t \in Active THEN "disconnected"
                                                 ELSE disk[t].status
                            /\ t \notin Active => disk'[t] = disk[t]
      /\ step.at = "close" /\ handling.op = "close" /\ Writing = {} /\ step'.at = "done"
  BY DisconnectDoes, RestIsTyped DEF Phases, Moves
<1>2. Active' = {}
  <2>1. \A t \in Session : disk'[t].status # "active"
    BY <1>1 DEF Active
  <2> QED BY <2>1 DEF Active
<1>3. Writing' = {}
  BY <1>1 DEF Writing
<1>4. StepFollows'
  BY <1>1, <1>2 DEF StepFollows
<1>5. WriterFollows'
  BY <1>1, <1>2, <1>3 DEF WriterFollows
<1>6. Starting'
  BY <1>1 DEF Control, Starting
<1>7. \A t \in Session : Fresh(t) => Fresh(t)'
  BY <1>1, FreshIsNew DEF Fresh
<1> QED BY <1>1, <1>2, <1>4, <1>5, <1>6, <1>7 DEF HandlerKeeps, Inserts

LEMMA RecoverPartKeeps ==
  ASSUME WorkerTypes, Control, main' = main, NEW s \in Session, NEW p \in DOMAIN disk[s].partial,
         RecoverPart(s, p)
  PROVE  HandlerKeeps
<1>1. /\ WorkerTypes' /\ OnlyIn(s) /\ Rows(s) /\ writer' = writer
      /\ s \in Active /\ step.at = "recover" /\ handling = Idle
      /\ \/ step' = step
         \/ step'.at = "unlink" /\ step'.s = s
  BY RecoverPartDoes
<1>2. main.store = "starting" /\ Writing = {}
  BY <1>1 DEF Control, Starting
<1>3. Active' = Active /\ EndedSessions' = EndedSessions /\ Writing' = {}
  BY <1>1, <1>2, SameSets DEF Rows, Writing
<1>4. Moves /\ handling' = handling /\ handling.op = "idle"
  BY <1>1, HandlingIs DEF OnlyIn, Moves
<1>5. step'.at \in {"recover", "unlink"} /\ (step'.at = "unlink" => step'.s = s)
  BY <1>1
<1>6. StepFollows'
  BY <1>1, <1>3, <1>4, <1>5 DEF StepFollows
<1>7. WriterFollows'
  BY <1>2, <1>3, <1>5 DEF WriterFollows, AppRunning
<1>8. Starting'
  BY <1>1, <1>2, <1>3, <1>5 DEF Control, Starting, OnlyIn
<1>9. \A t \in Session : Fresh(t) => Fresh(t)'
  BY <1>1, KeptFresh
<1> QED BY <1>1, <1>3, <1>4, <1>5, <1>6, <1>7, <1>8, <1>9 DEF HandlerKeeps, Inserts

LEMMA RecoveredKeeps ==
  ASSUME WorkerTypes, Control, main' = main, NEW s \in Session, Recovered(s)
  PROVE  HandlerKeeps
<1>1. /\ WorkerTypes' /\ OnlyIn(s) /\ KeepsFiles(s) /\ writer' = writer
      /\ s \in Active /\ step.at = "recover" /\ handling = Idle
      /\ disk'[s].status = "disconnected"
      /\ step' = Doing(IF Active = {s} THEN "idle" ELSE "recover")
  BY RecoveredDoes
<1>2. main.store = "starting" /\ Writing = {}
  BY <1>1 DEF Control, Starting
<1>3. Active' = Active \ {s} /\ Writing' = {}
  <2>1. \A t \in Session : t \in Active' <=> t \in Active /\ t # s
    BY <1>1 DEF Active, OnlyIn
  <2> QED BY <1>1, <1>2, <2>1 DEF Active, Writing
<1>4. Moves /\ handling' = handling /\ handling.op = "idle"
  BY <1>1, HandlingIs DEF OnlyIn, Moves
<1>5. step'.at = IF Active = {s} THEN "idle" ELSE "recover"
  BY <1>1, RestIsTyped DEF Phases
<1>6. StepFollows'
  BY <1>1, <1>4, <1>5 DEF StepFollows
<1>7. WriterFollows'
  BY <1>2, <1>3, <1>5 DEF WriterFollows, AppRunning
<1>8. Starting'
  BY <1>1, <1>2, <1>3, <1>5 DEF Control, Starting, OnlyIn
<1>9. \A t \in Session : Fresh(t) => Fresh(t)'
  BY <1>1, KeptFresh
<1> QED BY <1>1, <1>3, <1>4, <1>5, <1>6, <1>7, <1>8, <1>9 DEF HandlerKeeps, Inserts

\* The steps of a handler, without the message loop.
HandlerStep ==
  \/ OpenPart \/ Write \/ Unlink \/ Enter \/ Forget \/ CommitRows \/ Insert \/ FinishRecord
  \/ Delete \/ Disconnect
  \/ \E s \in Session :
       \/ Compress(s) \/ Discard(s) \/ Trash(s) \/ Recovered(s)
       \/ \E p \in DOMAIN disk[s].partial : RecoverPart(s, p)
  \/ \E p : RemovePart(p)

LEMMA WorkerSteps ==
  ASSUME WorkerNext
  PROVE  HandlerStep \/ Take \/ Refuse \/ PostReply
BY DEF WorkerNext, HandlerStep

LEMMA HandlerStepKeeps ==
  ASSUME WorkerTypes, Control, NEW n, Begins(inbox, n), main' = main, main.store # "closed",
         HandlerStep
  PROVE  HandlerKeeps
<1>1. CASE OpenPart BY <1>1, OpenKeeps
<1>2. CASE Write BY <1>2, WriteKeeps
<1>3. CASE Unlink BY <1>3, UnlinkKeeps
<1>4. CASE Enter BY <1>4, EnterKeeps
<1>5. CASE Forget \/ CommitRows \/ \E p : RemovePart(p) BY <1>5, TrimKeeps
<1>6. CASE Insert
  <2>1. Fresh(handling.s)
    BY <1>6 DEF Insert, Begins
  <2> QED BY <1>6, <2>1, InsertKeeps
<1>7. CASE FinishRecord BY <1>7, FinishKeeps
<1>8. CASE Delete BY <1>8, DeleteKeeps
<1>9. CASE Disconnect BY <1>9, DisconnectKeeps
<1>10. ASSUME NEW s \in Session,
              \/ Compress(s) \/ Discard(s) \/ Trash(s) \/ Recovered(s)
              \/ \E p \in DOMAIN disk[s].partial : RecoverPart(s, p)
       PROVE  HandlerKeeps
  BY <1>10, CompressKeeps, DiscardKeeps, TrashKeeps, RecoveredKeeps, RecoverPartKeeps
<1> QED BY <1>1, <1>2, <1>3, <1>4, <1>5, <1>6, <1>7, <1>8, <1>9, <1>10 DEF HandlerStep

\* The message loop.
LEMMA TakeKeeps ==
  ASSUME WorkerTypes, Control, main.store \in {"starting", "open", "closing", "closed"},
         main' = main, main.store # "closed", Take
  PROVE  StepFollows' /\ WriterFollows' /\ Starting'
<1> DEFINE m == Head(inbox)
           batch == m.op = "append" /\ m.s \in Active
<1>1. /\ m \in Msg /\ handling = Idle /\ step.at = "idle" /\ inbox # <<>>
      /\ handling' = m /\ step' = First(m) /\ disk' = disk /\ writer' = writer
  BY TakeDoes
<1>2. /\ m.op = "begin" => step'.at = "retain"
      /\ m.op = "append" /\ ~batch => step'.at = "done"
      /\ m.op = "finish" => step'.at = (IF m.s \in Writing THEN "seal" ELSE "finish")
                            /\ step'.s = m.s
      /\ m.op = "delete" => \/ step'.at = "trash" /\ step'.s = m.s /\ m.s \in EndedSessions
                            \/ step'.at = "done"
      /\ m.op = "close" => step'.at = "close"
      /\ batch => /\ step'.s = m.s /\ step'.es = m.es
                  /\ step'.at = IF m.s \notin Writing THEN "open"
                                ELSE IF m.es = <<>> THEN "commit"
                                ELSE IF Full(writer[m.s]) THEN "seal" ELSE "write"
  <2>1. m \in Msg /\ step' = First(m)
    BY <1>1
  <2> HIDE DEF m
  <2> QED BY <2>1, FirstIs
<1>3. m.op \in {"begin", "append", "finish", "delete", "close"}
  BY <1>1 DEF Msg, Ops
<1>4. AppRunning /\ main.store # "starting"
  BY <1>1 DEF Control, Starting, AppRunning
<1>5. \A s \in Active : s \in Writing
  BY <1>1, <1>4, HandlingIs DEF Control, WriterFollows
<1>6. \A s \in Writing : s \in Active
  BY DEF Control, WriterFollows
<1>7. Active' = Active /\ EndedSessions' = EndedSessions /\ Writing' = Writing
  BY <1>1 DEF Active, EndedSessions, Writing
<1> HIDE DEF m
<1>8. /\ batch => step'.at \in {"commit", "seal", "write"} /\ m.s \in Writing
                  /\ (step'.at = "commit" <=> step'.es = <<>>)
      /\ ~batch => step'.at \in {"retain", "done", "seal", "finish", "trash", "close"}
      /\ ~batch /\ step'.at = "seal" => m.op = "finish"
  BY <1>2, <1>3, <1>5
<1>9. StepFollows'
  BY <1>1, <1>2, <1>3, <1>6, <1>7, <1>8 DEF StepFollows
<1>10. WriterFollows'
  <2>1. \A t \in Writing' : t \in Active' /\ writer'[t].part \in DOMAIN disk'[t].partial
    BY <1>1, <1>7, StepIs DEF Control, WriterFollows
  <2> QED BY <1>2, <1>3, <1>5, <1>7, <1>8, <2>1 DEF WriterFollows
<1>11. Starting'
  BY <1>4, <1>8 DEF Starting
<1> QED BY <1>9, <1>10, <1>11

LEMMA ReplyKeeps ==
  ASSUME WorkerTypes, Control, main.store \in {"starting", "open", "closing", "closed"},
         main' = main, Refuse \/ PostReply
  PROVE  StepFollows' /\ WriterFollows' /\ Starting'
<1>1. CASE Refuse
  <2>1. /\ inbox # <<>> /\ handling' = handling /\ step' = step /\ disk' = disk /\ writer' = writer
    BY <1>1, RefuseDoes
  <2>2. Active' = Active /\ EndedSessions' = EndedSessions /\ Writing' = Writing
    BY <2>1 DEF Active, EndedSessions, Writing
  <2>3. AppRunning' = AppRunning /\ main.store # "starting"
    BY <2>1 DEF Control, Starting, AppRunning
  <2>4. StepFollows'
    BY <2>1, <2>2 DEF Control, StepFollows
  <2>5. WriterFollows'
    BY <2>1, <2>2, <2>3 DEF Control, WriterFollows
  <2> QED BY <2>1, <2>2, <2>3, <2>4, <2>5 DEF Control, Starting
<1>2. CASE PostReply
  <2>1. /\ handling # Idle /\ step.at \in {"done", "retain"}
        /\ handling' = Idle /\ disk' = disk /\ writer' = writer
        /\ step'.at = IF handling.op = "close" THEN "closed" ELSE "idle"
    BY <1>2, PostReplyDoes
  <2>2. Active' = Active /\ EndedSessions' = EndedSessions /\ Writing' = Writing
    BY <2>1 DEF Active, EndedSessions, Writing
  <2>3. handling.op = "close" => Active = {}
    BY <2>1 DEF Control, StepFollows
  <2>4. main.store # "starting"
    BY <2>1 DEF Control, Starting
  <2>5. StepFollows'
    BY <2>1, <2>2, <2>3 DEF StepFollows
  <2>6. AppRunning => \A s \in Active : s \in Writing \/ handling.op = "close"
    BY <2>1 DEF Control, WriterFollows
  <2>7. \A t \in Writing' : t \in Active' /\ writer'[t].part \in DOMAIN disk'[t].partial
    BY <2>1, <2>2, StepIs DEF Control, WriterFollows
  <2>8. WriterFollows'
    BY <2>1, <2>2, <2>3, <2>6, <2>7 DEF WriterFollows, AppRunning
  <2> QED BY <2>1, <2>2, <2>4, <2>5, <2>8 DEF Starting
<1> QED BY <1>1, <1>2

-----------------------------------------------------------------------------
(* The queue of the main thread *)

\* What a handler of the main thread has sent so far follows the inbox.
Queue(a) == inbox \o a.posts
Recorded(a, s) == a.enabled /\ a.s = s

\* The end of every record is in queue q, behind its begin; a close is the last
\* message there is.
Closes(q, a) ==
  /\ \A s \in Session :
       (s \in Active \/ (handling.op = "begin" /\ handling.s = s)) /\ ~Recorded(a, s)
         => EndOf(s, handling) \/ \E i \in DOMAIN q : EndOf(s, q[i])
  /\ \A i \in DOMAIN q : q[i].op = "begin" /\ ~Recorded(a, q[i].s)
         => \E j \in DOMAIN q : j > i /\ EndOf(q[i].s, q[j])
  /\ \A i \in DOMAIN q : q[i].op = "close" => i = Len(q)
  /\ handling.op = "close" \/ step.at = "closed" => q = <<>>
  /\ a.store = "closing" <=>
       (handling.op = "close" \/ step.at = "closed" \/ \E i \in DOMAIN q : q[i].op = "close")

MessageSum(q) == SumOf([i \in DOMAIN q |-> Weight(q[i])])
ReplySum(q) == SumOf([i \in DOMAIN q |-> ReplyWeight(q[i])])

\* The bytes that wait are those of k and of what was sent; no batch is rejected.
Waits(a, k) ==
  /\ a.waiting = k + MessageSum(a.posts) /\ a.waiting <= QueueLimit
  /\ ReplySum(a.rejects) = 0

\* A batch the worker writes, the part it writes to, and the events in it.
Batch == handling.op = "append"
         /\ step.at \in {"rotate", "write", "seal", "unlink", "enter", "trim", "forget", "commit"}
InHand(s) == s \in Writing \/ (Batch /\ step.s = s)
Top(s) == IF s \in Writing THEN writer[s].part
          ELSE IF step.at = "rotate" THEN step.p - 1 ELSE step.p
Count(s) == IF s \in Writing THEN writer[s].count ELSE PartSize
BatchRows(s) == IF Batch /\ step.s = s THEN step.rows ELSE {}
BatchEvents(s) == IF Batch /\ step.s = s THEN Range(step.es) ELSE {}

\* The events of session s the worker has seen, and the last part that holds one.
PastEvents(s) == {r[1] : r \in disk[s].chunks} \union {r[1] : r \in BatchRows(s)}
Reached(s) == IF Count(s) > 0 THEN Top(s) ELSE Top(s) - 1
Past(s) == PastEvents(s) \union (IF InHand(s) THEN {Reached(s)} ELSE {})
Seen(s) == Past(s) \union BatchEvents(s)

Ascends(es) == \A i, j \in DOMAIN es : i < j => es[i] < es[j]
Before(X, Y) == \A x \in X, y \in Y : x < y
Fits(es) == Len(es) <= MaxBatch \/ Len(es) = 1

\* The events of a session come in order: what the worker has seen, the batches
\* of queue q, the pending batch.
Ordered(q, a) ==
  /\ \A i \in DOMAIN q : q[i].op = "append" =>
       /\ q[i].es # <<>> /\ Ascends(q[i].es) /\ Fits(q[i].es)
       /\ Range(q[i].es) \subseteq Event
       /\ Before(Seen(q[i].s), Range(q[i].es))
       /\ Recorded(a, q[i].s) => /\ Before(Range(q[i].es), Range(a.pending))
                                 /\ \A y \in Range(q[i].es) : y <= a.seq
  /\ \A i, j \in DOMAIN q :
       i < j /\ q[i].op = "append" /\ q[j].op = "append" /\ q[i].s = q[j].s
         => Before(Range(q[i].es), Range(q[j].es))
  /\ a.enabled => Before(Seen(a.s), Range(a.pending)) /\ \A x \in Seen(a.s) : x <= a.seq
  /\ Ascends(a.pending) /\ Len(a.pending) <= MaxBatch
  /\ \A z \in Range(a.pending) : 1 <= z /\ z <= a.seq

Good(a, n, k) ==
  /\ MainTypes(a) /\ a.store \in {"open", "closing"}
  /\ a.enabled => a.s = n
  /\ a.seq <= MaxEvents + 3
  /\ Begins(Queue(a), n)
  /\ Closes(Queue(a), a)
  /\ Waits(a, k)
  /\ Ordered(Queue(a), a)

\* A request that was sent, or rejected by a store that closes.
Requested(a, m, b) ==
  /\ b \in MainState
  /\ b.store = a.store /\ b.waiting = a.waiting /\ b.enabled = a.enabled
  /\ b.paused = a.paused /\ b.file = a.file /\ b.ended = a.ended /\ b.s = a.s
  /\ b.seq = a.seq /\ b.pending = a.pending
  /\ \/ /\ a.store = "open" \/ m.op = "close"
        /\ b.posts = Append(a.posts, m) /\ b.rejects = a.rejects
     \/ /\ a.store # "open" /\ m.op # "close"
        /\ b.posts = a.posts /\ b.rejects = Append(a.rejects, ReplyTo(m, FALSE))

LEMMA RequestDoes ==
  ASSUME NEW a \in MainState, NEW m \in Msg
  PROVE  Requested(a, m, StoreRequest(a, m))
<1> DEFINE r == ReplyTo(m, FALSE)
<1>1. Append(a.posts, m) \in Seq(Msg)
  BY AppendProperties DEF MainState
<1>2. m.op \in Ops /\ m.s \in Nat /\ Len(m.es) \in Nat
  BY LenProperties DEF Msg
<1>3. r \in Answer
  BY <1>2 DEF ReplyTo, Answer
<1> HIDE DEF r
<1>4. Append(a.rejects, r) \in Seq(Answer)
  BY <1>3, AppendProperties DEF MainState
<1>5. CASE a.store = "open" \/ m.op = "close"
  <2>1. StoreRequest(a, m) = [a EXCEPT !.posts = Append(a.posts, m)]
    BY <1>5 DEF StoreRequest
  <2> QED BY <1>1, <1>5, <2>1 DEF MainState, Requested
<1>6. CASE ~(a.store = "open" \/ m.op = "close")
  <2>1. StoreRequest(a, m) = [a EXCEPT !.rejects = Append(a.rejects, r)]
    BY <1>6 DEF StoreRequest, r
  <2> QED BY <1>4, <1>6, <2>1 DEF MainState, Requested, r
<1> QED BY <1>5, <1>6

LEMMA EmptyOfAny ==
  ASSUME NEW S
  PROVE  <<>> \in Seq(S) /\ Len(<<>>) = 0 /\ DOMAIN <<>> = {} /\ Range(<<>>) = {} /\ Ascends(<<>>)
BY DEF Range, Ascends

LEMMA FinishIs ==
  ASSUME NEW s \in Session, NEW to \in Ends
  PROVE  LET m == [Message("finish", s) EXCEPT !.to = to]
         IN  m \in Msg /\ m.op = "finish" /\ m.s = s
<1>1. <<>> \in Seq(Nat) /\ "" \in Ends \union {""} /\ s \in Nat
  BY DEF Session
<1> QED BY <1>1 DEF Message, Msg, Ops

LEMMA BatchIs ==
  ASSUME NEW s \in Session, NEW es \in Seq(Nat)
  PROVE  LET m == [Message("append", s) EXCEPT !.es = es]
         IN  m \in Msg /\ m.op = "append" /\ m.s = s /\ m.es = es
<1>1. "" \in Ends \union {""} /\ s \in Nat
  BY DEF Session
<1> QED BY <1>1 DEF Message, Msg, Ops

LEMMA MessageIs ==
  ASSUME NEW op \in {"begin", "delete", "close"}, NEW s \in Nat, op # "close" => s \in Session
  PROVE  Message(op, s) \in Msg /\ Message(op, s).op = op /\ Message(op, s).s = s
<1>1. <<>> \in Seq(Nat) /\ "" \in Ends \union {""} /\ op \in Ops
  BY DEF Ops
<1> QED BY <1>1 DEF Message, Msg

\* One more message in the queue.
LEMMA QueueGrows ==
  ASSUME WorkerTypes, NEW a \in MainState, NEW b \in MainState, NEW m \in Msg,
         b.posts = Append(a.posts, m)
  PROVE  Queue(a) \in Seq(Msg) /\ Queue(b) = Append(Queue(a), m)
<1>1. inbox \in Seq(Msg) /\ a.posts \in Seq(Msg)
  BY DEF WorkerTypes, MainState
<1> QED BY <1>1 DEF Queue

LEMMA QueueStays ==
  ASSUME NEW a, NEW b, b.posts = a.posts
  PROVE  Queue(b) = Queue(a)
BY DEF Queue

LEMMA QueueTyped ==
  ASSUME WorkerTypes, NEW a \in MainState
  PROVE  Queue(a) \in Seq(Msg)
<1>1. inbox \in Seq(Msg) /\ a.posts \in Seq(Msg)
  BY DEF WorkerTypes, MainState
<1> QED BY <1>1 DEF Queue

LEMMA LastOfAppend ==
  ASSUME NEW q \in Seq(Msg), NEW m \in Msg
  PROVE  LET r == Append(q, m)
         IN  /\ r \in Seq(Msg) /\ Len(r) = Len(q) + 1 /\ Len(q) \in Nat
             /\ DOMAIN q = 1 .. Len(q) /\ DOMAIN r = 1 .. Len(q) + 1
             /\ r[Len(q) + 1] = m /\ \A i \in 1 .. Len(q) : r[i] = q[i]
BY AppendProperties, LenProperties

-----------------------------------------------------------------------------
(* What waits *)

LEMMA WeightIs ==
  /\ \A m \in Msg : Weight(m) \in Nat
  /\ \A r \in Answer : ReplyWeight(r) \in Nat
BY LenProperties DEF Weight, ReplyWeight, Msg, Answer

LEMMA WeightsAre ==
  ASSUME NEW q \in Seq(Msg)
  PROVE  LET w == [i \in DOMAIN q |-> Weight(q[i])]
         IN  /\ w \in Seq(Int) /\ Len(w) = Len(q) /\ Len(q) \in Nat
             /\ \A i \in 1 .. Len(q) : w[i] = Weight(q[i]) /\ q[i] \in Msg /\ w[i] \in Nat
<1> DEFINE w == [i \in DOMAIN q |-> Weight(q[i])]
<1>1. Len(q) \in Nat /\ DOMAIN q = 1 .. Len(q) /\ \A i \in 1 .. Len(q) : q[i] \in Msg
  BY LenProperties, ElementOfSeq
<1>2. \A i \in 1 .. Len(q) : Weight(q[i]) \in Nat
  BY <1>1, WeightIs
<1>3. w \in [1 .. Len(q) -> Int]
  BY <1>1, <1>2
<1> QED BY <1>1, <1>2, <1>3, SeqDef

LEMMA ReplyWeightsAre ==
  ASSUME NEW q \in Seq(Answer)
  PROVE  LET w == [i \in DOMAIN q |-> ReplyWeight(q[i])]
         IN  /\ w \in Seq(Int) /\ Len(w) = Len(q) /\ Len(q) \in Nat
             /\ \A i \in 1 .. Len(q) : w[i] = ReplyWeight(q[i]) /\ q[i] \in Answer /\ w[i] \in Nat
<1> DEFINE w == [i \in DOMAIN q |-> ReplyWeight(q[i])]
<1>1. Len(q) \in Nat /\ DOMAIN q = 1 .. Len(q) /\ \A i \in 1 .. Len(q) : q[i] \in Answer
  BY LenProperties, ElementOfSeq
<1>2. \A i \in 1 .. Len(q) : ReplyWeight(q[i]) \in Nat
  BY <1>1, WeightIs
<1>3. w \in [1 .. Len(q) -> Int]
  BY <1>1, <1>2
<1> QED BY <1>1, <1>2, <1>3, SeqDef

LEMMA MessageSums ==
  ASSUME NEW q \in Seq(Msg)
  PROVE  /\ MessageSum(q) \in Nat
         /\ MessageSum(<<>>) = 0
         /\ \A m \in Msg : MessageSum(Append(q, m)) = MessageSum(q) + Weight(m)
         /\ \A p \in Seq(Msg) : MessageSum(q \o p) = MessageSum(q) + MessageSum(p)
         /\ q # <<>> => MessageSum(q) = Weight(Head(q)) + MessageSum(Tail(q))
<1> DEFINE W(p) == [i \in DOMAIN p |-> Weight(p[i])]
<1>1. \A p \in Seq(Msg) : /\ W(p) \in Seq(Int) /\ Len(W(p)) = Len(p) /\ Len(p) \in Nat
                          /\ \A i \in 1 .. Len(p) : W(p)[i] = Weight(p[i]) /\ W(p)[i] \in Nat
                          /\ DOMAIN p = 1 .. Len(p)
  BY WeightsAre, LenProperties
<1>2. MessageSum(q) \in Nat
  <2>1. W(q) \in Seq(Int) /\ \A i \in 1 .. Len(W(q)) : W(q)[i] \in Nat
    BY <1>1
  <2> HIDE DEF W
  <2>2. SumOf(W(q)) \in Nat
    BY <2>1, SumIsNat
  <2> QED BY <2>2 DEF W, MessageSum
<1>3. MessageSum(<<>>) = 0
  <2>1. <<>> \in Seq(Msg) /\ Len(<<>>) = 0
    OBVIOUS
  <2>2. W(<<>>) \in Seq(Int) /\ Len(W(<<>>)) = 0
    BY <1>1, <2>1
  <2> HIDE DEF W
  <2>3. SumOf(W(<<>>)) = 0
    BY <2>2, SumOfNone
  <2> QED BY <2>3 DEF W, MessageSum
<1>4. ASSUME NEW m \in Msg
      PROVE  MessageSum(Append(q, m)) = MessageSum(q) + Weight(m)
  <2> DEFINE r == Append(q, m)
  <2>1. /\ r \in Seq(Msg) /\ Len(r) = Len(q) + 1 /\ Len(q) \in Nat
        /\ r[Len(q) + 1] = m /\ \A i \in 1 .. Len(q) : r[i] = q[i]
    BY LastOfAppend
  <2> HIDE DEF r
  <2>2. /\ W(q) \in Seq(Int) /\ W(r) \in Seq(Int) /\ Len(W(r)) = Len(W(q)) + 1
        /\ \A i \in 1 .. Len(W(q)) : W(r)[i] = W(q)[i]
        /\ W(r)[Len(W(r))] = Weight(m)
    <3>1. Len(W(q)) = Len(q) /\ Len(W(r)) = Len(q) + 1
      BY <1>1, <2>1
    <3>2. \A i \in 1 .. Len(q) : /\ i \in 1 .. Len(r) /\ W(q)[i] = Weight(q[i])
                                 /\ W(r)[i] = Weight(r[i])
      BY <1>1, <2>1
    <3>3. Len(q) + 1 \in 1 .. Len(r)
      BY <2>1
    <3> QED BY <1>1, <2>1, <3>1, <3>2, <3>3
  <2> HIDE DEF W
  <2>3. SumOf(W(r)) = SumOf(W(q)) + W(r)[Len(W(r))]
    BY <2>2, SumGrows
  <2> QED BY <2>2, <2>3 DEF W, MessageSum, r
<1>5. ASSUME NEW p \in Seq(Msg)
      PROVE  MessageSum(q \o p) = MessageSum(q) + MessageSum(p)
  <2> DEFINE r == q \o p
  <2>1. /\ r \in Seq(Msg) /\ Len(r) = Len(q) + Len(p) /\ Len(q) \in Nat /\ Len(p) \in Nat
        /\ \A i \in 1 .. Len(q) : r[i] = q[i]
        /\ \A i \in 1 .. Len(p) : r[i + Len(q)] = p[i]
    <3>1. /\ r \in Seq(Msg) /\ Len(r) = Len(q) + Len(p)
          /\ \A i \in 1 .. Len(q) + Len(p) : r[i] = IF i <= Len(q) THEN q[i] ELSE p[i - Len(q)]
      BY ConcatProperties
    <3>2. Len(q) \in Nat /\ Len(p) \in Nat
      BY LenProperties
    <3>3. \A i \in 1 .. Len(p) : i + Len(q) \in 1 .. Len(q) + Len(p) /\ ~(i + Len(q) <= Len(q))
                                 /\ i + Len(q) - Len(q) = i
      BY <3>2
    <3> QED BY <3>1, <3>2, <3>3
  <2> HIDE DEF r
  <2>2. /\ W(q) \in Seq(Int) /\ W(p) \in Seq(Int) /\ W(r) \in Seq(Int)
        /\ Len(W(r)) = Len(W(q)) + Len(W(p))
        /\ \A i \in 1 .. Len(W(q)) : W(r)[i] = W(q)[i]
        /\ \A i \in 1 .. Len(W(p)) : W(r)[i + Len(W(q))] = W(p)[i]
    <3>1. Len(W(q)) = Len(q) /\ Len(W(p)) = Len(p) /\ Len(W(r)) = Len(q) + Len(p)
      BY <1>1, <2>1
    <3>2. \A i \in 1 .. Len(q) : /\ i \in 1 .. Len(r) /\ W(q)[i] = Weight(q[i])
                                 /\ W(r)[i] = Weight(r[i])
      BY <1>1, <2>1
    <3>3. \A i \in 1 .. Len(p) : /\ i + Len(q) \in 1 .. Len(r) /\ W(p)[i] = Weight(p[i])
                                 /\ W(r)[i + Len(q)] = Weight(r[i + Len(q)])
      BY <1>1, <2>1
    <3> QED BY <1>1, <2>1, <3>1, <3>2, <3>3
  <2> HIDE DEF W
  <2>3. SumOf(W(r)) = SumOf(W(q)) + SumOf(W(p))
    BY <2>2, SumOfConcat
  <2> QED BY <2>3 DEF W, MessageSum, r
<1>6. ASSUME q # <<>>
      PROVE  MessageSum(q) = Weight(Head(q)) + MessageSum(Tail(q))
  <2> DEFINE r == Tail(q)
  <2>1. /\ r \in Seq(Msg) /\ Len(q) = Len(r) + 1 /\ Len(r) \in Nat /\ Head(q) = q[1]
        /\ \A i \in 1 .. Len(r) : r[i] = q[i + 1]
    BY <1>6, HeadTailProperties, LenProperties
  <2> HIDE DEF r
  <2>2. /\ W(q) \in Seq(Int) /\ W(r) \in Seq(Int) /\ Len(W(q)) = Len(W(r)) + 1
        /\ \A i \in 1 .. Len(W(r)) : W(r)[i] = W(q)[i + 1]
        /\ W(q)[1] = Weight(Head(q))
    <3>1. Len(W(q)) = Len(q) /\ Len(W(r)) = Len(r)
      BY <1>1, <2>1
    <3>2. \A i \in 1 .. Len(r) : /\ i + 1 \in 1 .. Len(q) /\ W(r)[i] = Weight(r[i])
                                 /\ W(q)[i + 1] = Weight(q[i + 1])
      BY <1>1, <2>1
    <3>3. 1 \in 1 .. Len(q)
      BY <2>1
    <3> QED BY <1>1, <2>1, <3>1, <3>2, <3>3
  <2> HIDE DEF W
  <2>3. SumOf(W(q)) = W(q)[1] + SumOf(W(r))
    BY <2>2, SumOfRest
  <2> QED BY <2>2, <2>3 DEF W, MessageSum, r
<1> QED BY <1>2, <1>3, <1>4, <1>5, <1>6

LEMMA ReplySums ==
  ASSUME NEW q \in Seq(Answer)
  PROVE  /\ ReplySum(q) \in Nat
         /\ ReplySum(<<>>) = 0
         /\ \A m \in Answer : ReplySum(Append(q, m)) = ReplySum(q) + ReplyWeight(m)
         /\ \A p \in Seq(Answer) : ReplySum(q \o p) = ReplySum(q) + ReplySum(p)
         /\ q # <<>> => ReplySum(q) = ReplyWeight(Head(q)) + ReplySum(Tail(q))
<1> DEFINE W(p) == [i \in DOMAIN p |-> ReplyWeight(p[i])]
<1>1. \A p \in Seq(Answer) : /\ W(p) \in Seq(Int) /\ Len(W(p)) = Len(p) /\ Len(p) \in Nat
                          /\ \A i \in 1 .. Len(p) : W(p)[i] = ReplyWeight(p[i]) /\ W(p)[i] \in Nat
                          /\ DOMAIN p = 1 .. Len(p)
  BY ReplyWeightsAre, LenProperties
<1>2. ReplySum(q) \in Nat
  <2>1. W(q) \in Seq(Int) /\ \A i \in 1 .. Len(W(q)) : W(q)[i] \in Nat
    BY <1>1
  <2> HIDE DEF W
  <2>2. SumOf(W(q)) \in Nat
    BY <2>1, SumIsNat
  <2> QED BY <2>2 DEF W, ReplySum
<1>3. ReplySum(<<>>) = 0
  <2>1. <<>> \in Seq(Answer) /\ Len(<<>>) = 0
    OBVIOUS
  <2>2. W(<<>>) \in Seq(Int) /\ Len(W(<<>>)) = 0
    BY <1>1, <2>1
  <2> HIDE DEF W
  <2>3. SumOf(W(<<>>)) = 0
    BY <2>2, SumOfNone
  <2> QED BY <2>3 DEF W, ReplySum
<1>4. ASSUME NEW m \in Answer
      PROVE  ReplySum(Append(q, m)) = ReplySum(q) + ReplyWeight(m)
  <2> DEFINE r == Append(q, m)
  <2>1. /\ r \in Seq(Answer) /\ Len(r) = Len(q) + 1 /\ Len(q) \in Nat
        /\ r[Len(q) + 1] = m /\ \A i \in 1 .. Len(q) : r[i] = q[i]
    BY AppendProperties, LenProperties
  <2> HIDE DEF r
  <2>2. /\ W(q) \in Seq(Int) /\ W(r) \in Seq(Int) /\ Len(W(r)) = Len(W(q)) + 1
        /\ \A i \in 1 .. Len(W(q)) : W(r)[i] = W(q)[i]
        /\ W(r)[Len(W(r))] = ReplyWeight(m)
    <3>1. Len(W(q)) = Len(q) /\ Len(W(r)) = Len(q) + 1
      BY <1>1, <2>1
    <3>2. \A i \in 1 .. Len(q) : /\ i \in 1 .. Len(r) /\ W(q)[i] = ReplyWeight(q[i])
                                 /\ W(r)[i] = ReplyWeight(r[i])
      BY <1>1, <2>1
    <3>3. Len(q) + 1 \in 1 .. Len(r)
      BY <2>1
    <3> QED BY <1>1, <2>1, <3>1, <3>2, <3>3
  <2> HIDE DEF W
  <2>3. SumOf(W(r)) = SumOf(W(q)) + W(r)[Len(W(r))]
    BY <2>2, SumGrows
  <2> QED BY <2>2, <2>3 DEF W, ReplySum, r
<1>5. ASSUME NEW p \in Seq(Answer)
      PROVE  ReplySum(q \o p) = ReplySum(q) + ReplySum(p)
  <2> DEFINE r == q \o p
  <2>1. /\ r \in Seq(Answer) /\ Len(r) = Len(q) + Len(p) /\ Len(q) \in Nat /\ Len(p) \in Nat
        /\ \A i \in 1 .. Len(q) : r[i] = q[i]
        /\ \A i \in 1 .. Len(p) : r[i + Len(q)] = p[i]
    <3>1. /\ r \in Seq(Answer) /\ Len(r) = Len(q) + Len(p)
          /\ \A i \in 1 .. Len(q) + Len(p) : r[i] = IF i <= Len(q) THEN q[i] ELSE p[i - Len(q)]
      BY ConcatProperties
    <3>2. Len(q) \in Nat /\ Len(p) \in Nat
      BY LenProperties
    <3>3. \A i \in 1 .. Len(p) : i + Len(q) \in 1 .. Len(q) + Len(p) /\ ~(i + Len(q) <= Len(q))
                                 /\ i + Len(q) - Len(q) = i
      BY <3>2
    <3> QED BY <3>1, <3>2, <3>3
  <2> HIDE DEF r
  <2>2. /\ W(q) \in Seq(Int) /\ W(p) \in Seq(Int) /\ W(r) \in Seq(Int)
        /\ Len(W(r)) = Len(W(q)) + Len(W(p))
        /\ \A i \in 1 .. Len(W(q)) : W(r)[i] = W(q)[i]
        /\ \A i \in 1 .. Len(W(p)) : W(r)[i + Len(W(q))] = W(p)[i]
    <3>1. Len(W(q)) = Len(q) /\ Len(W(p)) = Len(p) /\ Len(W(r)) = Len(q) + Len(p)
      BY <1>1, <2>1
    <3>2. \A i \in 1 .. Len(q) : /\ i \in 1 .. Len(r) /\ W(q)[i] = ReplyWeight(q[i])
                                 /\ W(r)[i] = ReplyWeight(r[i])
      BY <1>1, <2>1
    <3>3. \A i \in 1 .. Len(p) : /\ i + Len(q) \in 1 .. Len(r) /\ W(p)[i] = ReplyWeight(p[i])
                                 /\ W(r)[i + Len(q)] = ReplyWeight(r[i + Len(q)])
      BY <1>1, <2>1
    <3> QED BY <1>1, <2>1, <3>1, <3>2, <3>3
  <2> HIDE DEF W
  <2>3. SumOf(W(r)) = SumOf(W(q)) + SumOf(W(p))
    BY <2>2, SumOfConcat
  <2> QED BY <2>3 DEF W, ReplySum, r
<1>6. ASSUME q # <<>>
      PROVE  ReplySum(q) = ReplyWeight(Head(q)) + ReplySum(Tail(q))
  <2> DEFINE r == Tail(q)
  <2>1. /\ r \in Seq(Answer) /\ Len(q) = Len(r) + 1 /\ Len(r) \in Nat /\ Head(q) = q[1]
        /\ \A i \in 1 .. Len(r) : r[i] = q[i + 1]
    BY <1>6, HeadTailProperties, LenProperties
  <2> HIDE DEF r
  <2>2. /\ W(q) \in Seq(Int) /\ W(r) \in Seq(Int) /\ Len(W(q)) = Len(W(r)) + 1
        /\ \A i \in 1 .. Len(W(r)) : W(r)[i] = W(q)[i + 1]
        /\ W(q)[1] = ReplyWeight(Head(q))
    <3>1. Len(W(q)) = Len(q) /\ Len(W(r)) = Len(r)
      BY <1>1, <2>1
    <3>2. \A i \in 1 .. Len(r) : /\ i + 1 \in 1 .. Len(q) /\ W(r)[i] = ReplyWeight(r[i])
                                 /\ W(q)[i + 1] = ReplyWeight(q[i + 1])
      BY <1>1, <2>1
    <3>3. 1 \in 1 .. Len(q)
      BY <2>1
    <3> QED BY <1>1, <2>1, <3>1, <3>2, <3>3
  <2> HIDE DEF W
  <2>3. SumOf(W(q)) = W(q)[1] + SumOf(W(r))
    BY <2>2, SumOfRest
  <2> QED BY <2>2, <2>3 DEF W, ReplySum, r
<1> QED BY <1>2, <1>3, <1>4, <1>5, <1>6

-----------------------------------------------------------------------------
(* One more message *)

LEMMA QueueFacts ==
  ASSUME NEW q \in Seq(Msg)
  PROVE  /\ Len(q) \in Nat /\ DOMAIN q = 1 .. Len(q)
         /\ \A i \in DOMAIN q : /\ q[i] \in Msg /\ q[i].op \in Ops /\ q[i].s \in Nat
                                /\ q[i].es \in Seq(Nat)
                                /\ q[i].op # "close" => q[i].s \in Session
<1>1. Len(q) \in Nat /\ DOMAIN q = 1 .. Len(q) /\ \A i \in 1 .. Len(q) : q[i] \in Msg
  BY LenProperties, ElementOfSeq
<1> QED BY <1>1 DEF Msg

LEMMA BeginsPost ==
  ASSUME NEW q \in Seq(Msg), NEW m \in Msg, NEW n, Begins(q, n), m.op # "begin",
         m.op = "append" => m.s <= n
  PROVE  Begins(Append(q, m), n)
<1> DEFINE r == Append(q, m)
<1>1. /\ Len(r) = Len(q) + 1 /\ Len(q) \in Nat
      /\ DOMAIN q = 1 .. Len(q) /\ DOMAIN r = 1 .. Len(q) + 1
      /\ r[Len(q) + 1] = m /\ \A i \in 1 .. Len(q) : r[i] = q[i]
  BY LastOfAppend
<1> HIDE DEF r
<1>2. \A i \in DOMAIN r : (i \in DOMAIN q /\ r[i] = q[i]) \/ r[i] = m
  BY <1>1
<1>3. Begins(r, n)
  BY <1>2 DEF Begins
<1> QED BY <1>3 DEF r

\* The first session that was not begun yet.
LEMMA BeginsStart ==
  ASSUME NEW n \in Nat, n + 1 \in Session,
         NEW q \in Seq(Msg), NEW m \in Msg, Begins(q, n), m.op = "begin", m.s = n + 1,
         handling.op = "begin" => handling.s \in Nat
  PROVE  Begins(Append(q, m), n + 1)
<1> DEFINE r == Append(q, m)
<1>1. /\ Len(r) = Len(q) + 1 /\ Len(q) \in Nat
      /\ DOMAIN q = 1 .. Len(q) /\ DOMAIN r = 1 .. Len(q) + 1
      /\ r[Len(q) + 1] = m /\ \A i \in 1 .. Len(q) : r[i] = q[i]
  BY LastOfAppend
<1> HIDE DEF r
<1>2. \A i \in DOMAIN r : (i \in DOMAIN q /\ r[i] = q[i]) \/ (r[i] = m /\ i = Len(q) + 1)
  BY <1>1
<1>3. \A i \in DOMAIN q : q[i].s \in Nat
  BY QueueFacts
<1>4. \A s \in Session : s > n + 1 => s > n
  BY DEF Session
<1>5. \A i \in DOMAIN q : q[i].op \in {"begin", "append"} => q[i].s <= n + 1 /\ q[i].s # n + 1
  BY <1>3 DEF Begins
<1>6. handling.op = "begin" => handling.s <= n + 1 /\ handling.s # n + 1
  BY DEF Begins
<1>7. Fresh(n + 1)
  BY DEF Begins
<1>8. /\ \A i \in DOMAIN r : r[i].op \in {"begin", "append"} => r[i].s <= n + 1
      /\ \A i \in DOMAIN r : r[i].op = "begin" => Fresh(r[i].s)
  BY <1>2, <1>5, <1>7 DEF Begins
<1>9. \A i, j \in DOMAIN r : r[i].op = "begin" /\ r[j].op = "begin" /\ r[i].s = r[j].s => i = j
  BY <1>2, <1>5 DEF Begins
<1>10. handling.op = "begin" /\ step.at \in {"retain", "delete"} =>
         \A i \in DOMAIN r : r[i].op = "begin" => r[i].s # handling.s
  BY <1>2, <1>6 DEF Begins
<1>11. Begins(r, n + 1)
  BY <1>4, <1>6, <1>8, <1>9, <1>10 DEF Begins
<1> QED BY <1>11 DEF r

\* A batch or a deletion.
LEMMA ClosesPost ==
  ASSUME NEW q \in Seq(Msg), NEW m \in Msg, NEW a, NEW b, Closes(q, a), a.store = "open",
         m.op \in {"append", "finish", "delete"},
         b.store = a.store, b.enabled = a.enabled, b.s = a.s
  PROVE  Closes(Append(q, m), b)
<1> DEFINE r == Append(q, m)
<1>1. /\ Len(r) = Len(q) + 1 /\ Len(q) \in Nat
      /\ DOMAIN q = 1 .. Len(q) /\ DOMAIN r = 1 .. Len(q) + 1
      /\ r[Len(q) + 1] = m /\ \A i \in 1 .. Len(q) : r[i] = q[i]
  BY LastOfAppend
<1> HIDE DEF r
<1>2. /\ \A i \in DOMAIN r : (i \in DOMAIN q /\ r[i] = q[i]) \/ r[i] = m
      /\ \A i \in DOMAIN q : i \in DOMAIN r /\ r[i] = q[i]
  BY <1>1
<1>3. Recorded(b, m.s) = Recorded(a, m.s) /\ \A s : Recorded(b, s) = Recorded(a, s)
  BY DEF Recorded
<1>4. /\ ~(handling.op = "close" \/ step.at = "closed")
      /\ \A i \in DOMAIN r : r[i].op # "close"
  BY <1>2 DEF Closes
<1>5. Closes(r, b)
  BY <1>2, <1>3, <1>4 DEF Closes
<1> QED BY <1>5 DEF r

\* The end of the record, when its recorder stops.
LEMMA ClosesFinish ==
  ASSUME NEW q \in Seq(Msg), NEW m \in Msg, NEW a, NEW b, Closes(q, a),
         a.store \in {"open", "closing"}, a.enabled,
         m.op = "finish", m.s = a.s, b.store = a.store, ~b.enabled,
         step.at = "closed" => Active = {} /\ handling = Idle
  PROVE  /\ a.store = "open" => Closes(Append(q, m), b)
         /\ a.store = "closing" => Closes(q, b)
<1> DEFINE r == Append(q, m)
<1>1. /\ Len(r) = Len(q) + 1 /\ Len(q) \in Nat
      /\ DOMAIN q = 1 .. Len(q) /\ DOMAIN r = 1 .. Len(q) + 1
      /\ r[Len(q) + 1] = m /\ \A i \in 1 .. Len(q) : r[i] = q[i]
  BY LastOfAppend
<1>2. \A s : ~Recorded(b, s)
  BY DEF Recorded
<1>3. \A s : Recorded(a, s) => s = a.s
  BY DEF Recorded
<1>4. ASSUME a.store = "open"
      PROVE  Closes(r, b)
  <2> HIDE DEF r
  <2>1. /\ \A i \in DOMAIN r : (i \in DOMAIN q /\ r[i] = q[i]) \/ r[i] = m
        /\ \A i \in DOMAIN q : i \in DOMAIN r /\ r[i] = q[i] /\ i < Len(r)
        /\ Len(r) \in DOMAIN r /\ r[Len(r)] = m
    BY <1>1
  <2>2. /\ ~(handling.op = "close" \/ step.at = "closed")
        /\ \A i \in DOMAIN r : r[i].op # "close"
    BY <1>4, <2>1 DEF Closes
  <2>3. EndOf(a.s, m)
    BY DEF EndOf
  <2>4. \A s \in Session :
          s \in Active \/ (handling.op = "begin" /\ handling.s = s)
            => EndOf(s, handling) \/ \E i \in DOMAIN r : EndOf(s, r[i])
    BY <1>3, <2>1, <2>3 DEF Closes
  <2>5. \A i \in DOMAIN r : r[i].op = "begin" => \E j \in DOMAIN r : j > i /\ EndOf(r[i].s, r[j])
    <3> SUFFICES ASSUME NEW i \in DOMAIN r, r[i].op = "begin"
                 PROVE  \E j \in DOMAIN r : j > i /\ EndOf(r[i].s, r[j])
      OBVIOUS
    <3>1. i \in DOMAIN q /\ r[i] = q[i]
      BY <2>1
    <3>2. CASE q[i].s = a.s
      BY <1>1, <2>1, <2>3, <3>1, <3>2
    <3>3. CASE q[i].s # a.s
      BY <1>3, <2>1, <3>1, <3>3 DEF Closes
    <3> QED BY <3>2, <3>3
  <2> QED BY <2>1, <2>2, <2>4, <2>5, <1>4 DEF Closes
<1>5. ASSUME a.store = "closing"
      PROVE  Closes(q, b)
  <2>1. handling.op = "close" \/ step.at = "closed" \/ \E i \in DOMAIN q : q[i].op = "close"
    BY <1>5 DEF Closes
  <2>2. CASE step.at = "closed"
    <3>1. handling.op = "idle" /\ Active = {}
      <4>1. Idle.op = "idle"
        BY DEF Idle, Message
      <4>2. handling = Idle /\ Active = {}
        BY <2>2
      <4> QED BY <4>1, <4>2
    <3>2. q = <<>> /\ DOMAIN q = {}
      BY <2>2 DEF Closes
    <3> QED BY <1>5, <2>2, <3>1, <3>2 DEF Closes
  <2>3. CASE handling.op = "close"
    BY <1>5, <2>3 DEF Closes, EndOf
  <2>4. CASE \E i \in DOMAIN q : q[i].op = "close"
    <3>1. PICK c \in DOMAIN q : q[c].op = "close" /\ c = Len(q)
      BY <2>4 DEF Closes
    <3>2. \A s : EndOf(s, q[c])
      BY <3>1 DEF EndOf
    <3>3. \A i \in DOMAIN q : q[i].op = "begin" => c > i
      BY <1>1, <3>1
    <3> QED BY <1>5, <3>1, <3>2, <3>3 DEF Closes
  <2> QED BY <2>1, <2>2, <2>3, <2>4
<1> QED BY <1>4, <1>5 DEF r

LEMMA ClosesStart ==
  ASSUME NEW q \in Seq(Msg), NEW m \in Msg, NEW a, NEW b, Closes(q, a),
         a.store \in {"open", "closing"}, ~a.enabled,
         m.op = "begin", b.s = m.s, b.store = a.store, b.enabled
  PROVE  /\ a.store = "open" => Closes(Append(q, m), b)
         /\ a.store = "closing" => Closes(q, b)
<1> DEFINE r == Append(q, m)
<1>1. /\ Len(r) = Len(q) + 1 /\ Len(q) \in Nat
      /\ DOMAIN q = 1 .. Len(q) /\ DOMAIN r = 1 .. Len(q) + 1
      /\ r[Len(q) + 1] = m /\ \A i \in 1 .. Len(q) : r[i] = q[i]
  BY LastOfAppend
<1>2. \A s : ~Recorded(a, s)
  BY DEF Recorded
<1>3. Recorded(b, m.s)
  BY DEF Recorded
<1>4. ASSUME a.store = "open"
      PROVE  Closes(r, b)
  <2> HIDE DEF r
  <2>1. /\ \A i \in DOMAIN r : (i \in DOMAIN q /\ r[i] = q[i]) \/ r[i] = m
        /\ \A i \in DOMAIN q : i \in DOMAIN r /\ r[i] = q[i]
    BY <1>1
  <2>2. /\ ~(handling.op = "close" \/ step.at = "closed")
        /\ \A i \in DOMAIN r : r[i].op # "close"
    BY <1>4, <2>1 DEF Closes
  <2>3. \A i \in DOMAIN r : r[i].op = "begin" /\ ~Recorded(b, r[i].s)
          => \E j \in DOMAIN r : j > i /\ EndOf(r[i].s, r[j])
    <3> SUFFICES ASSUME NEW i \in DOMAIN r, r[i].op = "begin", ~Recorded(b, r[i].s)
                 PROVE  \E j \in DOMAIN r : j > i /\ EndOf(r[i].s, r[j])
      OBVIOUS
    <3>1. i \in DOMAIN q /\ r[i] = q[i]
      BY <1>3, <2>1
    <3> QED BY <1>2, <2>1, <3>1 DEF Closes
  <2>4. \A s \in Session :
          s \in Active \/ (handling.op = "begin" /\ handling.s = s)
            => EndOf(s, handling) \/ \E i \in DOMAIN r : EndOf(s, r[i])
    BY <1>2, <2>1 DEF Closes
  <2> QED BY <1>4, <2>2, <2>3, <2>4 DEF Closes
<1>5. ASSUME a.store = "closing"
      PROVE  Closes(q, b)
  BY <1>2, <1>5 DEF Closes
<1> QED BY <1>4, <1>5 DEF r

LEMMA ClosesClose ==
  ASSUME NEW q \in Seq(Msg), NEW m \in Msg, NEW a, NEW b, Closes(q, a),
         a.store = "open", m.op = "close",
         b.store = "closing", b.enabled = a.enabled, b.s = a.s
  PROVE  Closes(Append(q, m), b)
<1> DEFINE r == Append(q, m)
<1>1. /\ Len(r) = Len(q) + 1 /\ Len(q) \in Nat
      /\ DOMAIN q = 1 .. Len(q) /\ DOMAIN r = 1 .. Len(q) + 1
      /\ r[Len(q) + 1] = m /\ \A i \in 1 .. Len(q) : r[i] = q[i]
  BY LastOfAppend
<1> HIDE DEF r
<1>2. /\ \A i \in DOMAIN r : (i \in DOMAIN q /\ r[i] = q[i]) \/ (r[i] = m /\ i = Len(r))
      /\ \A i \in DOMAIN q : i \in DOMAIN r /\ r[i] = q[i]
      /\ Len(r) \in DOMAIN r /\ r[Len(r)] = m
  BY <1>1
<1>3. \A s : Recorded(b, s) = Recorded(a, s)
  BY DEF Recorded
<1>4. /\ ~(handling.op = "close" \/ step.at = "closed")
      /\ \A i \in DOMAIN q : q[i].op # "close"
  BY DEF Closes
<1>5. \A s \in Session :
        (s \in Active \/ (handling.op = "begin" /\ handling.s = s)) /\ ~Recorded(b, s)
          => EndOf(s, handling) \/ \E i \in DOMAIN r : EndOf(s, r[i])
  BY <1>2, <1>3 DEF Closes
<1>6. \A i \in DOMAIN r : r[i].op = "begin" /\ ~Recorded(b, r[i].s)
        => \E j \in DOMAIN r : j > i /\ EndOf(r[i].s, r[j])
  BY <1>2, <1>3 DEF Closes
<1>7. Closes(r, b)
  BY <1>2, <1>4, <1>5, <1>6 DEF Closes
<1> QED BY <1>7 DEF r

\* What a message that is no batch, or that is one, does to the order.
LEMMA OrderedPost ==
  ASSUME NEW q \in Seq(Msg), NEW m \in Msg, NEW a, Ordered(q, a), m.op # "append"
  PROVE  Ordered(Append(q, m), a)
<1> DEFINE r == Append(q, m)
<1>1. /\ Len(r) = Len(q) + 1 /\ Len(q) \in Nat
      /\ DOMAIN q = 1 .. Len(q) /\ DOMAIN r = 1 .. Len(q) + 1
      /\ r[Len(q) + 1] = m /\ \A i \in 1 .. Len(q) : r[i] = q[i]
  BY LastOfAppend
<1> HIDE DEF r
<1>2. \A i \in DOMAIN r : (i \in DOMAIN q /\ r[i] = q[i]) \/ r[i] = m
  BY <1>1
<1>3. Ordered(r, a)
  BY <1>2 DEF Ordered
<1> QED BY <1>3 DEF r

\* Fields the order does not look at; a recording that stops.
LEMMA OrderedStays ==
  ASSUME NEW q, NEW a, NEW b, Ordered(q, a), b.seq = a.seq,
         b.enabled => a.enabled /\ b.s = a.s,
         b.pending = a.pending \/ b.pending = <<>>
  PROVE  Ordered(q, b)
<1>1. \A s : Recorded(b, s) => Recorded(a, s)
  BY DEF Recorded
<1>2. CASE b.pending = a.pending
  BY <1>1, <1>2 DEF Ordered
<1>3. CASE b.pending = <<>>
  <2>1. Range(b.pending) = {} /\ Ascends(b.pending) /\ Len(b.pending) = 0
    BY <1>3, EmptyOfAny
  <2>2. \A X : Before(X, Range(b.pending))
    BY <2>1 DEF Before
  <2>3. 0 <= MaxBatch
    BY HistoryAssumption
  <2> QED BY <1>1, <2>1, <2>2, <2>3 DEF Ordered
<1> QED BY <1>2, <1>3

\* The number of a mark or of an event that joins no batch yet.
LEMMA OrderedSkip ==
  ASSUME NEW q, NEW a \in MainState, NEW b \in MainState, Ordered(q, a), b.seq = a.seq + 1,
         b.enabled => a.enabled /\ b.s = a.s, b.pending = a.pending,
         \A s \in Session : Seen(s) \subseteq Int, a.enabled => a.s \in Session,
         q \in Seq(Msg)
  PROVE  Ordered(q, b)
<1>1. \A s : Recorded(b, s) => Recorded(a, s)
  BY DEF Recorded
<1>2. a.seq \in Nat /\ b.seq = a.seq + 1 /\ a.pending \in Seq(Nat)
  BY DEF MainState
<1>3. \A y \in Int : y <= a.seq => y <= b.seq
  BY <1>2
<1>4. \A i \in DOMAIN q : Range(q[i].es) \subseteq Int
  BY QueueFacts, ElementOfSeq DEF Range
<1>5. Range(a.pending) \subseteq Int
  BY <1>2, ElementOfSeq DEF Range
<1>6. \A i \in DOMAIN q : q[i].op = "append" /\ Recorded(b, q[i].s) =>
         \A y \in Range(q[i].es) : y <= b.seq
  BY <1>1, <1>3, <1>4 DEF Ordered
<1>7. b.enabled => \A x \in Seen(b.s) : x <= b.seq
  BY <1>3 DEF Ordered
<1>8. \A z \in Range(b.pending) : 1 <= z /\ z <= b.seq
  BY <1>3, <1>5 DEF Ordered
<1> QED BY <1>1, <1>6, <1>7, <1>8 DEF Ordered

\* A batch follows what was sent before.
NextBatch(q, a, es) ==
  /\ es \in Seq(Nat) /\ es # <<>> /\ Ascends(es) /\ Fits(es)
  /\ \A y \in Range(es) : 1 <= y /\ y <= a.seq
  /\ Before(Seen(a.s), Range(es))
  /\ \A i \in DOMAIN q : q[i].op = "append" /\ q[i].s = a.s => Before(Range(q[i].es), Range(es))

LEMMA OrderedBatch ==
  ASSUME NEW q \in Seq(Msg), NEW m \in Msg, NEW a \in MainState, Ordered(q, a),
         m.op = "append", m.s = a.s, NextBatch(q, a, m.es),
         a.pending = <<>>, a.seq <= MaxEvents + 3
  PROVE  Ordered(Append(q, m), a)
<1> DEFINE r == Append(q, m)
<1>1. /\ Len(r) = Len(q) + 1 /\ Len(q) \in Nat
      /\ DOMAIN q = 1 .. Len(q) /\ DOMAIN r = 1 .. Len(q) + 1
      /\ r[Len(q) + 1] = m /\ \A i \in 1 .. Len(q) : r[i] = q[i]
  BY LastOfAppend
<1> HIDE DEF r
<1>2. /\ \A i \in DOMAIN r : (i \in DOMAIN q /\ r[i] = q[i]) \/ (i = Len(q) + 1 /\ r[i] = m)
      /\ \A i \in DOMAIN q : i < Len(q) + 1 /\ i \in Int
  BY <1>1
<1>3. Range(a.pending) = {}
  BY EmptyOfAny
<1>4. \A X : Before(X, Range(a.pending))
  BY <1>3 DEF Before
<1>5. Range(m.es) \subseteq Event
  <2>1. a.seq \in Nat /\ m.es \in Seq(Nat)
    BY DEF MainState, NextBatch
  <2>2. Range(m.es) \subseteq Nat
    BY <2>1, ElementOfSeq DEF Range
  <2>3. MaxEvents \in Nat
    BY HistoryAssumption
  <2> QED BY <2>1, <2>2, <2>3 DEF NextBatch, Event
<1>6. \A i \in DOMAIN r : r[i].op = "append" =>
       /\ r[i].es # <<>> /\ Ascends(r[i].es) /\ Fits(r[i].es)
       /\ Range(r[i].es) \subseteq Event
       /\ Before(Seen(r[i].s), Range(r[i].es))
       /\ Recorded(a, r[i].s) => /\ Before(Range(r[i].es), Range(a.pending))
                                 /\ \A y \in Range(r[i].es) : y <= a.seq
  BY <1>2, <1>4, <1>5 DEF Ordered, NextBatch
<1>7. \A i, j \in DOMAIN r :
       i < j /\ r[i].op = "append" /\ r[j].op = "append" /\ r[i].s = r[j].s
         => Before(Range(r[i].es), Range(r[j].es))
  <2> SUFFICES ASSUME NEW i \in DOMAIN r, NEW j \in DOMAIN r, i < j,
                      r[i].op = "append", r[j].op = "append", r[i].s = r[j].s
               PROVE  Before(Range(r[i].es), Range(r[j].es))
    OBVIOUS
  <2>1. i \in DOMAIN q /\ r[i] = q[i]
    BY <1>1, <1>2
  <2>2. CASE j \in DOMAIN q
    BY <1>2, <2>1, <2>2, <1>1 DEF Ordered
  <2>3. CASE j \notin DOMAIN q
    BY <1>2, <2>1, <2>3 DEF NextBatch
  <2> QED BY <2>2, <2>3
<1>8. Ordered(r, a)
  BY <1>6, <1>7 DEF Ordered
<1> QED BY <1>8 DEF r

-----------------------------------------------------------------------------
(* The recorder keeps its queue in order *)

LEMMA SeenIs ==
  ASSUME WorkerTypes, NEW s \in Session
  PROVE  Seen(s) \subseteq Int /\ Past(s) \subseteq Int /\ PastEvents(s) \subseteq Nat
         /\ BatchEvents(s) \subseteq Nat
<1>1. /\ disk[s].chunks \in SUBSET Row /\ step.rows \in SUBSET Row /\ step.es \in Seq(Nat)
      /\ writer[s].part \in Nat /\ step.p \in Nat
  BY DiskIs, StepIs
<1>2. \A r \in Row : r[1] \in Nat
  BY DEF Row
<1>3. PastEvents(s) \subseteq Nat
  BY <1>1, <1>2 DEF PastEvents, BatchRows
<1>4. BatchEvents(s) \subseteq Nat
  BY <1>1, ElementOfSeq DEF BatchEvents, Range
<1>5. Top(s) \in Int /\ Top(s) - 1 \in Int
  BY <1>1 DEF Top
<1> QED BY <1>3, <1>4, <1>5 DEF Seen, Past, Reached

\* Fields that say nothing about the queue.
SameQueue(a, b) ==
  /\ b.store = a.store /\ b.waiting = a.waiting /\ b.seq = a.seq /\ b.s = a.s
  /\ b.posts = a.posts /\ b.rejects = a.rejects

LEMMA GoodStays ==
  ASSUME NEW n, NEW k, NEW a, Good(a, n, k), NEW b \in MainState, SameQueue(a, b),
         b.enabled = a.enabled, b.pending = a.pending \/ b.pending = <<>>,
         b.ended => ~b.enabled
  PROVE  Good(b, n, k)
<1>1. MainTypes(b)
  BY DEF MainTypes, Good, SameQueue
<1>2. Queue(b) = Queue(a)
  BY DEF Queue, SameQueue
<1>3. \A s : Recorded(b, s) = Recorded(a, s)
  BY DEF Recorded, SameQueue
<1>4. Closes(Queue(b), b)
  BY <1>2, <1>3 DEF Good, Closes, SameQueue
<1>5. Ordered(Queue(b), b)
  BY <1>2, OrderedStays DEF Good, SameQueue
<1> QED BY <1>1, <1>2, <1>4, <1>5 DEF Good, Waits, SameQueue

\* The recording stops: its finish is sent, or the close is under way.
LEMMA GoodStops ==
  ASSUME WorkerTypes, Control, NEW n, NEW k, NEW a, Good(a, n, k), a.s \in Session,
         NEW b \in MainState, SameQueue(a, b), ~b.enabled, b.pending = <<>>, NEW to \in Ends,
         NEW c, c = Finished(b, to)
  PROVE  /\ Good(c, n, k) /\ c \in MainState
         /\ c.store = b.store /\ c.enabled = b.enabled /\ c.paused = b.paused
         /\ c.file = b.file /\ c.ended = b.ended /\ c.s = b.s /\ c.seq = b.seq
         /\ c.pending = b.pending /\ c.waiting = b.waiting
<1> DEFINE m == [Message("finish", b.s) EXCEPT !.to = to]
<1>1. a.s \in Session /\ b.s = a.s /\ a \in MainState /\ a.store \in {"open", "closing"}
  BY DEF Good, MainTypes, SameQueue
<1>2. m \in Msg /\ m.op = "finish" /\ m.s = b.s
  BY <1>1, FinishIs
<1> HIDE DEF m
<1>3. /\ c \in MainState
      /\ c.store = b.store /\ c.waiting = b.waiting /\ c.enabled = b.enabled
      /\ c.paused = b.paused /\ c.file = b.file /\ c.ended = b.ended /\ c.s = b.s
      /\ c.seq = b.seq /\ c.pending = b.pending
      /\ \/ /\ b.store = "open"
            /\ c.posts = Append(b.posts, m) /\ c.rejects = b.rejects
         \/ /\ b.store # "open"
            /\ c.posts = b.posts /\ c.rejects = Append(b.rejects, ReplyTo(m, FALSE))
  <2>1. c = StoreRequest(b, m)
    BY DEF Finished, m
  <2>2. Requested(b, m, c)
    BY <1>2, <2>1, RequestDoes
  <2> QED BY <1>2, <2>2 DEF Requested
<1>4. c.store = a.store /\ c.seq = a.seq /\ c.s = a.s /\ ~c.enabled /\ c.pending = <<>>
      /\ c.waiting = a.waiting
  BY <1>3 DEF SameQueue
<1>5. step.at = "closed" => Active = {} /\ handling = Idle
  BY DEF Control, StepFollows
<1>6. Queue(a) \in Seq(Msg)
  BY <1>1, QueueTyped
<1>7. /\ Begins(Queue(a), n) /\ Closes(Queue(a), a) /\ Ordered(Queue(a), a) /\ Waits(a, k)
      /\ a.seq <= MaxEvents + 3
  BY DEF Good
<1>8. MainTypes(c)
  BY <1>3, <1>4 DEF MainTypes
<1>9. CASE a.store = "open"
  <2>1. c.posts = Append(a.posts, m) /\ c.rejects = a.rejects
    BY <1>3, <1>9 DEF SameQueue
  <2>2. Queue(c) = Append(Queue(a), m)
    BY <1>1, <1>2, <1>3, <2>1, QueueGrows
  <2>3. Begins(Queue(c), n)
    BY <1>2, <1>6, <1>7, <2>2, BeginsPost
  <2>4. Closes(Queue(c), c)
    <3>1. CASE a.enabled
      BY <1>1, <1>2, <1>4, <1>5, <1>6, <1>7, <1>9, <2>2, <3>1, ClosesFinish
    <3>2. CASE ~a.enabled
      <4>1. c.enabled = a.enabled
        BY <1>1, <1>3, <1>4, <3>2 DEF MainState
      <4> QED BY <1>1, <1>2, <1>4, <1>6, <1>7, <1>9, <2>2, <4>1, ClosesPost
    <3> QED BY <3>1, <3>2
  <2>5. Ordered(Queue(c), c)
    <3>1. Ordered(Queue(c), a)
      BY <1>2, <1>6, <1>7, <2>2, OrderedPost
    <3> QED BY <1>4, <3>1, OrderedStays
  <2>6. Waits(c, k)
    <3>1. Weight(m) = 0 /\ a.posts \in Seq(Msg)
      BY <1>1, <1>2 DEF Weight, MainState
    <3>2. MessageSum(c.posts) = MessageSum(a.posts) + 0 /\ MessageSum(a.posts) \in Nat
      BY <1>2, <2>1, <3>1, MessageSums
    <3> QED BY <1>4, <1>7, <2>1, <3>2 DEF Waits
  <2> QED BY <1>1, <1>3, <1>4, <1>7, <1>8, <2>3, <2>4, <2>5, <2>6 DEF Good
<1>10. CASE a.store = "closing"
  <2>1. c.posts = a.posts /\ c.rejects = Append(a.rejects, ReplyTo(m, FALSE))
    BY <1>3, <1>10 DEF SameQueue
  <2>2. Queue(c) = Queue(a)
    BY <2>1 DEF Queue
  <2>3. Closes(Queue(c), c)
    <3>1. CASE a.enabled
      BY <1>1, <1>2, <1>4, <1>5, <1>6, <1>7, <1>10, <2>2, <3>1, ClosesFinish
    <3>2. CASE ~a.enabled
      <4>1. \A s : Recorded(c, s) = Recorded(a, s)
        BY <1>4, <3>2 DEF Recorded
      <4> QED BY <1>4, <1>7, <2>2, <4>1 DEF Closes
    <3> QED BY <3>1, <3>2
  <2>4. Ordered(Queue(c), c)
    BY <1>4, <1>7, <2>2, OrderedStays
  <2>5. Waits(c, k)
    <3> DEFINE r == ReplyTo(m, FALSE)
    <3>1. r \in Answer /\ ReplyWeight(r) = 0
      <4>1. m.op \in Ops /\ m.s \in Nat /\ Len(m.es) \in Nat
        BY <1>2, LenProperties DEF Msg
      <4> QED BY <1>2, <4>1 DEF ReplyTo, Answer, ReplyWeight
    <3>2. a.rejects \in Seq(Answer)
      BY <1>1 DEF MainState
    <3>3. ReplySum(a.rejects) = 0
      BY <1>7 DEF Waits
    <3>4. ReplySum(c.rejects) = 0
      <4>1. c.rejects = Append(a.rejects, r)
        BY <2>1
      <4> HIDE DEF r
      <4>2. ReplySum(Append(a.rejects, r)) = ReplySum(a.rejects) + ReplyWeight(r)
        BY <3>1, <3>2, ReplySums
      <4> QED BY <3>1, <3>3, <4>1, <4>2
    <3> QED BY <1>4, <1>7, <2>1, <3>4 DEF Waits
  <2> QED BY <1>1, <1>3, <1>4, <1>7, <1>8, <2>2, <2>3, <2>4, <2>5 DEF Good
<1> QED BY <1>1, <1>3, <1>9, <1>10

\* What an operator of the recorder leaves alone.
SameRecord(a, b) ==
  /\ b \in MainState
  /\ b.store = a.store /\ b.s = a.s /\ b.ended = a.ended /\ b.file = a.file
  /\ b.enabled => a.enabled

LEMMA GoodSuspend ==
  ASSUME WorkerTypes, Control, NEW n, NEW k, NEW a, Good(a, n, k)
  PROVE  LET b == Suspend(a)
         IN  /\ Good(b, n, k) /\ SameRecord(a, b) /\ b.seq = a.seq /\ ~b.enabled
             /\ b.waiting = a.waiting
             /\ a.pending = <<>> => b.pending = <<>>
<1>1. a \in MainState /\ (a.ended => ~a.enabled)
  BY DEF Good, MainTypes
<1>2. CASE a.enabled /\ ~a.ended
  <2> DEFINE x == [a EXCEPT !.enabled = FALSE, !.paused = @ /\ a.file, !.pending = <<>>]
  <2>1. Suspend(a) = Finished(x, "failed")
    BY <1>2 DEF Suspend
  <2>2. /\ x \in MainState /\ SameQueue(a, x) /\ ~x.enabled /\ x.pending = <<>>
        /\ x.ended = a.ended /\ x.file = a.file
    <3>1. <<>> \in Seq(Nat) /\ FALSE \in BOOLEAN /\ (a.paused /\ a.file) \in BOOLEAN
      OBVIOUS
    <3> QED BY <1>1, <3>1 DEF MainState, SameQueue
  <2>3. "failed" \in Ends
    BY DEF Ends
  <2> HIDE DEF x
  <2>4. LET c == Finished(x, "failed")
        IN  /\ Good(c, n, k) /\ c \in MainState
            /\ c.store = x.store /\ c.enabled = x.enabled
            /\ c.file = x.file /\ c.ended = x.ended /\ c.s = x.s /\ c.seq = x.seq
            /\ c.pending = x.pending /\ c.waiting = x.waiting
    <3>1. a.s \in Session
      BY <1>2 DEF Good, MainTypes
    <3> QED BY <2>2, <2>3, <3>1, GoodStops
  <2> QED BY <1>2, <2>1, <2>2, <2>4 DEF SameRecord, SameQueue
<1>3. CASE ~(a.enabled /\ ~a.ended)
  <2>1. Suspend(a) = a
    BY <1>3 DEF Suspend
  <2> QED BY <1>1, <1>3, <2>1 DEF SameRecord
<1> QED BY <1>2, <1>3

LEMMA MainEdits ==
  ASSUME NEW a \in MainState
  PROVE  /\ \A v \in Int : LET x == [a EXCEPT !.waiting = v]
                         IN  /\ x \in MainState /\ x.waiting = v /\ x.store = a.store
                             /\ x.enabled = a.enabled /\ x.s = a.s /\ x.seq = a.seq
                             /\ x.pending = a.pending /\ x.posts = a.posts
                             /\ x.rejects = a.rejects /\ x.ended = a.ended
                             /\ x.file = a.file /\ x.paused = a.paused
         /\ \A v \in Nat : LET x == [a EXCEPT !.seq = v]
                         IN  /\ x \in MainState /\ x.waiting = a.waiting /\ x.store = a.store
                             /\ x.enabled = a.enabled /\ x.s = a.s /\ x.seq = v
                             /\ x.pending = a.pending /\ x.posts = a.posts
                             /\ x.rejects = a.rejects /\ x.ended = a.ended
                             /\ x.file = a.file /\ x.paused = a.paused
  BY DEF MainState

LEMMA GoodEnqueue ==
  ASSUME WorkerTypes, NEW n, NEW k \in Int, NEW a, Good(a, n, k), a.enabled, a.pending = <<>>,
         NEW es, Accepts(a, es), NextBatch(Queue(a), a, es)
  PROVE  LET b == Enqueue(a, es)
         IN  Good(b, n, k) /\ SameRecord(a, b) /\ b.seq = a.seq /\ b.pending = <<>>
<1> DEFINE m == [Message("append", a.s) EXCEPT !.es = es]
           x == [a EXCEPT !.waiting = @ + Len(es)]
           b == Enqueue(a, es)
<1>1. /\ a \in MainState /\ a.s \in Session /\ a.s = n /\ a.store = "open" /\ es \in Seq(Nat)
      /\ Len(es) \in Nat /\ a.waiting + Len(es) <= QueueLimit /\ a.waiting \in Int
  BY LenProperties DEF Good, MainTypes, Accepts, NextBatch, MainState
<1>2. m \in Msg /\ m.op = "append" /\ m.s = a.s /\ m.es = es
  BY <1>1, BatchIs
<1> HIDE DEF m
<1>3. x \in MainState /\ x.waiting = a.waiting + Len(es) /\ x.store = a.store
      /\ x.enabled = a.enabled /\ x.s = a.s /\ x.seq = a.seq /\ x.pending = a.pending
      /\ x.posts = a.posts /\ x.rejects = a.rejects /\ x.ended = a.ended /\ x.file = a.file
  <2> DEFINE v == a.waiting + Len(es)
  <2>1. v \in Int /\ x = [a EXCEPT !.waiting = v]
    BY <1>1
  <2> HIDE DEF v, x
  <2>2. QED BY <1>1, <2>1, MainEdits DEF v
<1>4. b = StoreRequest(x, m)
  BY DEF Enqueue, m
<1> HIDE DEF x, b
<1>5. Requested(x, m, b)
  BY <1>2, <1>3, <1>4, RequestDoes
<1>6. /\ b \in MainState /\ b.store = a.store /\ b.enabled = a.enabled /\ b.s = a.s
      /\ b.seq = a.seq /\ b.pending = a.pending /\ b.ended = a.ended /\ b.file = a.file
      /\ b.waiting = a.waiting + Len(es)
      /\ b.posts = Append(a.posts, m) /\ b.rejects = a.rejects
  BY <1>1, <1>2, <1>3, <1>5 DEF Requested
<1>7. Queue(a) \in Seq(Msg) /\ Queue(b) = Append(Queue(a), m)
  BY <1>1, <1>2, <1>6, QueueGrows
<1>8. /\ Begins(Queue(a), n) /\ Closes(Queue(a), a) /\ Ordered(Queue(a), a) /\ Waits(a, k)
      /\ MainTypes(a) /\ a.seq <= MaxEvents + 3
  BY DEF Good
<1>9. Begins(Queue(b), n)
  <2>1. m.s <= n /\ m.op # "begin"
    BY <1>1, <1>2 DEF Session
  <2> QED BY <1>2, <1>7, <1>8, <2>1, BeginsPost
<1>10. Closes(Queue(b), b)
  <2>1. m.op \in {"append", "delete"} /\ b.store = a.store /\ b.enabled = a.enabled /\ b.s = a.s
    BY <1>2, <1>6
  <2> QED BY <1>1, <1>2, <1>7, <1>8, <2>1, ClosesPost
<1>11. Ordered(Queue(b), b)
  <2>1. Ordered(Queue(b), a)
    BY <1>1, <1>2, <1>7, <1>8, OrderedBatch
  <2> QED BY <1>6, <2>1, OrderedStays
<1>12. Waits(b, k)
  <2>1. Weight(m) = Len(es) /\ a.posts \in Seq(Msg)
    BY <1>1, <1>2 DEF Weight, MainState
  <2>2. MessageSum(a.posts) \in Nat /\ MessageSum(b.posts) = MessageSum(a.posts) + Len(es)
    BY <1>2, <1>6, <2>1, MessageSums
  <2> QED BY <1>1, <1>6, <1>8, <2>2 DEF Waits
<1>13. MainTypes(b)
  BY <1>6, <1>8 DEF MainTypes
<1>14. Good(b, n, k)
  BY <1>1, <1>6, <1>8, <1>9, <1>10, <1>11, <1>12, <1>13 DEF Good
<1> QED BY <1>6, <1>14 DEF SameRecord, b

LEMMA GoodPersist ==
  ASSUME WorkerTypes, Control, NEW n, NEW k \in Int, NEW a, Good(a, n, k),
         a.enabled, a.pending = <<>>, NEW es, NextBatch(Queue(a), a, es)
  PROVE  LET b == Persist(a, es)
         IN  Good(b, n, k) /\ SameRecord(a, b) /\ b.seq = a.seq /\ b.pending = <<>>
<1>1. CASE Accepts(a, es)
  BY <1>1, GoodEnqueue DEF Persist
<1>2. CASE ~Accepts(a, es)
  BY <1>2, GoodSuspend DEF Persist
<1> QED BY <1>1, <1>2

LEMMA GoodFlush ==
  ASSUME WorkerTypes, Control, NEW n, NEW k \in Int, NEW a, Good(a, n, k)
  PROVE  LET b == FlushBatch(a)
         IN  Good(b, n, k) /\ SameRecord(a, b) /\ b.seq = a.seq /\ b.pending = <<>>
<1>1. /\ a \in MainState /\ a.pending \in Seq(Nat) /\ (a.ended => ~a.enabled)
      /\ a.pending # <<>> => a.enabled
  BY DEF Good, MainTypes, MainState
<1>2. CASE a.pending = <<>>
  BY <1>1, <1>2 DEF FlushBatch, SameRecord
<1>3. CASE a.pending # <<>>
  <2> DEFINE x == [a EXCEPT !.pending = <<>>]
  <2>1. FlushBatch(a) = Persist(x, a.pending)
    BY <1>3 DEF FlushBatch
  <2>2. /\ x \in MainState /\ SameQueue(a, x) /\ x.enabled = a.enabled /\ x.pending = <<>>
        /\ x.ended = a.ended /\ x.file = a.file /\ x.s = a.s /\ x.seq = a.seq
        /\ x.store = a.store /\ x.posts = a.posts
    <3>1. <<>> \in Seq(Nat)
      OBVIOUS
    <3> QED BY <1>1, <3>1 DEF MainState, SameQueue
  <2> HIDE DEF x
  <2>3. Good(x, n, k)
    BY <1>1, <2>2, GoodStays
  <2>4. NextBatch(Queue(x), x, a.pending)
    <3>1. Queue(x) = Queue(a) /\ Ordered(Queue(a), a)
      BY <2>2, QueueStays DEF Good
    <3>2. Recorded(a, a.s)
      BY <1>1, <1>3 DEF Recorded
    <3> QED BY <1>1, <1>3, <2>2, <3>1, <3>2 DEF Ordered, NextBatch, Fits
  <2>5. LET b == Persist(x, a.pending)
        IN  Good(b, n, k) /\ SameRecord(x, b) /\ b.seq = x.seq /\ b.pending = <<>>
    BY <1>1, <1>3, <2>2, <2>3, <2>4, GoodPersist
  <2> QED BY <2>1, <2>2, <2>5 DEF SameRecord
<1> QED BY <1>2, <1>3

LEMMA OneEvent ==
  ASSUME NEW e \in Nat
  PROVE  /\ <<e>> \in Seq(Nat) /\ <<e>> # <<>> /\ Len(<<e>>) = 1 /\ Range(<<e>>) = {e}
         /\ Ascends(<<e>>) /\ Fits(<<e>>)
<1>1. <<e>> \in Seq(Nat) /\ <<e>> # <<>> /\ Len(<<e>>) = 1 /\ DOMAIN <<e>> = {1} /\ <<e>>[1] = e
  OBVIOUS
<1> QED BY <1>1 DEF Range, Ascends, Fits

LEMMA GoodMark ==
  ASSUME WorkerTypes, Control, NEW n, NEW k \in Int, NEW a, Good(a, n, k),
         a.enabled => a.seq + 1 <= MaxEvents + 3
  PROVE  LET b == Mark(a)
         IN  Good(b, n, k) /\ SameRecord(a, b) /\ b.seq \in {a.seq, a.seq + 1}
             /\ b.pending = <<>>
<1> DEFINE f == FlushBatch(a)
           x == [f EXCEPT !.seq = @ + 1]
           es == <<f.seq + 1>>
<1>1. Good(f, n, k) /\ SameRecord(a, f) /\ f.seq = a.seq /\ f.pending = <<>>
  BY GoodFlush
<1>2. Mark(a) = IF f.enabled /\ ~f.paused /\ ~f.ended THEN Persist(x, es) ELSE f
  BY DEF Mark
<1> HIDE DEF f
<1>3. CASE ~(f.enabled /\ ~f.paused /\ ~f.ended)
  BY <1>1, <1>2, <1>3
<1>4. CASE f.enabled /\ ~f.paused /\ ~f.ended
  <2>1. /\ f \in MainState /\ f.seq \in Nat /\ f.s \in Session /\ f.seq + 1 <= MaxEvents + 3
        /\ Ordered(Queue(f), f)
    BY <1>1, <1>4 DEF Good, MainTypes, SameRecord, MainState
  <2>2. /\ x \in MainState /\ x.seq = f.seq + 1 /\ x.enabled = f.enabled
        /\ x.pending = f.pending /\ x.ended = f.ended /\ x.file = f.file /\ x.s = f.s
        /\ x.store = f.store /\ x.posts = f.posts /\ x.rejects = f.rejects
        /\ x.waiting = f.waiting
    <3> DEFINE v == f.seq + 1
    <3>1. v \in Nat /\ x = [f EXCEPT !.seq = v]
      BY <2>1
    <3> HIDE DEF v, x
    <3>2. QED BY <2>1, <3>1, MainEdits DEF v
  <2>3. es \in Seq(Nat) /\ es # <<>> /\ Range(es) = {f.seq + 1} /\ Ascends(es) /\ Fits(es)
    BY <2>1, OneEvent
  <2> HIDE DEF x, es
  <2>4. Queue(x) = Queue(f) /\ Queue(f) \in Seq(Msg)
    BY <2>1, <2>2, QueueStays, QueueTyped
  <2>5. Ordered(Queue(x), x)
    BY <2>1, <2>2, <2>4, SeenIs, OrderedSkip
  <2>6. Closes(Queue(x), x)
    <3>1. \A s : Recorded(x, s) = Recorded(f, s)
      BY <2>2 DEF Recorded
    <3> QED BY <1>1, <2>2, <2>4, <3>1 DEF Good, Closes
  <2>7. Good(x, n, k)
    BY <1>1, <2>1, <2>2, <2>4, <2>5, <2>6 DEF Good, MainTypes, Waits
  <2>8. NextBatch(Queue(x), x, es)
    <3>1. Recorded(f, f.s)
      BY <1>4 DEF Recorded
    <3>2. Seen(f.s) \subseteq Int /\ \A i \in DOMAIN Queue(f) : Range(Queue(f)[i].es) \subseteq Int
      BY <2>1, <2>4, SeenIs, QueueFacts, ElementOfSeq DEF Range
    <3>3. \A y \in Int : y <= f.seq => y < f.seq + 1
      BY <2>1
    <3>4. 1 <= f.seq + 1 /\ f.seq + 1 <= x.seq
      BY <2>1, <2>2
    <3>5. Before(Seen(x.s), Range(es))
      BY <1>4, <2>1, <2>2, <2>3, <3>2, <3>3 DEF Ordered, Before
    <3>6. \A i \in DOMAIN Queue(x) : Queue(x)[i].op = "append" /\ Queue(x)[i].s = x.s
                                       => Before(Range(Queue(x)[i].es), Range(es))
      BY <2>1, <2>2, <2>3, <2>4, <3>1, <3>2, <3>3 DEF Ordered, Before
    <3> QED BY <2>3, <3>4, <3>5, <3>6 DEF NextBatch
  <2>9. LET b == Persist(x, es)
        IN  Good(b, n, k) /\ SameRecord(x, b) /\ b.seq = x.seq /\ b.pending = <<>>
    <3>1. x.enabled /\ x.pending = <<>>
      BY <1>1, <1>4, <2>2
    <3> QED BY <2>7, <2>8, <3>1, GoodPersist
  <2> QED BY <1>1, <1>2, <1>4, <2>2, <2>9 DEF SameRecord
<1> QED BY <1>3, <1>4

\* A new record: nothing of its session was seen.
LEMMA NothingSeen ==
  ASSUME WorkerTypes, Control, NEW s \in Session, Fresh(s)
  PROVE  Seen(s) = {}
<1>1. s \notin Active /\ disk[s].chunks = {}
  BY FreshIsNew
<1>2. s \notin Writing /\ ~(Batch /\ step.s = s)
  BY <1>1 DEF Control, StepFollows, WriterFollows, Batch
<1> QED BY <1>1, <1>2 DEF Seen, Past, PastEvents, BatchRows, BatchEvents, InHand

LEMMA BeginsMore ==
  ASSUME NEW n \in Nat, NEW q \in Seq(Msg), Begins(q, n),
         handling.op = "begin" => handling.s \in Nat
  PROVE  Begins(q, n + 1)
<1>1. \A i \in DOMAIN q : q[i].s \in Nat
  BY QueueFacts
<1>2. \A x \in Nat : (x <= n => x <= n + 1) /\ (x > n + 1 => x > n)
  OBVIOUS
<1>3. \A s \in Session : s \in Nat
  BY DEF Session
<1> QED BY <1>1, <1>2, <1>3 DEF Begins

LEMMA OrderedFresh ==
  ASSUME NEW q \in Seq(Msg), NEW n \in Nat, Begins(q, n), NEW a, NEW c, Ordered(q, a),
         c.s = n + 1, Seen(n + 1) = {}, c.pending = <<>>
  PROVE  Ordered(q, c)
<1>1. \A i \in DOMAIN q : q[i].op = "append" => ~Recorded(c, q[i].s)
  <2>1. \A i \in DOMAIN q : q[i].op = "append" => q[i].s \in Nat /\ q[i].s <= n
    BY QueueFacts DEF Begins
  <2>2. \A x \in Nat : x <= n => x # n + 1
    OBVIOUS
  <2> QED BY <2>1, <2>2 DEF Recorded
<1>2. \A i \in DOMAIN q : q[i].op = "append" =>
       /\ q[i].es # <<>> /\ Ascends(q[i].es) /\ Fits(q[i].es)
       /\ Range(q[i].es) \subseteq Event
       /\ Before(Seen(q[i].s), Range(q[i].es))
  BY DEF Ordered
<1>3. \A i, j \in DOMAIN q :
       i < j /\ q[i].op = "append" /\ q[j].op = "append" /\ q[i].s = q[j].s
         => Before(Range(q[i].es), Range(q[j].es))
  BY DEF Ordered
<1>4. Len(<<>>) <= MaxBatch /\ Range(<<>>) = {} /\ Ascends(<<>>)
  BY EmptyOfAny, HistoryAssumption
<1>5. c.enabled => Before(Seen(c.s), Range(c.pending)) /\ \A x \in Seen(c.s) : x <= c.seq
  BY DEF Before
<1>6. Ascends(c.pending) /\ Len(c.pending) <= MaxBatch
      /\ \A z \in Range(c.pending) : 1 <= z /\ z <= c.seq
  BY <1>4
<1> QED BY <1>1, <1>2, <1>3, <1>5, <1>6 DEF Ordered

\* Only batches weigh.
LEMMA WaitsPost ==
  ASSUME NEW k, NEW a \in MainState, Waits(a, k), NEW m \in Msg, m.op # "append", NEW x,
         x.waiting = a.waiting, x.posts = a.posts, x.rejects = a.rejects,
         NEW c, Requested(x, m, c)
  PROVE  Waits(c, k)
<1> DEFINE r == ReplyTo(m, FALSE)
<1>1. r \in Answer /\ ReplyWeight(r) = 0 /\ Weight(m) = 0
  <2>1. m.op \in Ops /\ m.s \in Nat /\ Len(m.es) \in Nat
    BY LenProperties DEF Msg
  <2> QED BY <2>1 DEF ReplyTo, Answer, ReplyWeight, Weight
<1>2. a.posts \in Seq(Msg) /\ a.rejects \in Seq(Answer)
  BY DEF MainState
<1>3. c.waiting = a.waiting
      /\ \/ c.posts = Append(a.posts, m) /\ c.rejects = a.rejects
         \/ c.posts = a.posts /\ c.rejects = Append(a.rejects, r)
  BY DEF Requested
<1> HIDE DEF r
<1>4. MessageSum(Append(a.posts, m)) = MessageSum(a.posts) + 0 /\ MessageSum(a.posts) \in Nat
      /\ ReplySum(Append(a.rejects, r)) = ReplySum(a.rejects) + 0 /\ ReplySum(a.rejects) \in Nat
  BY <1>1, <1>2, MessageSums, ReplySums
<1>5. MessageSum(c.posts) = MessageSum(a.posts) /\ ReplySum(c.rejects) = ReplySum(a.rejects)
  <2>1. CASE c.posts = Append(a.posts, m) /\ c.rejects = a.rejects
    BY <1>4, <2>1
  <2>2. CASE c.posts = a.posts /\ c.rejects = Append(a.rejects, r)
    BY <1>4, <2>2
  <2> QED BY <1>3, <2>1, <2>2
<1> QED BY <1>3, <1>5 DEF Waits

LEMMA GoodBegin ==
  ASSUME WorkerTypes, Control, NEW n \in Nat, n + 1 \in Session, NEW k \in Int, NEW a,
         Good(a, n, k), ~a.enabled,
         NEW x \in MainState, x.store = a.store, x.waiting = a.waiting, x.posts = a.posts,
         x.rejects = a.rejects, x.enabled, ~x.ended, x.s = n + 1, x.seq = 0, x.pending = <<>>,
         NEW c, c = StoreRequest(x, Message("begin", n + 1))
  PROVE  Good(c, n + 1, k) /\ SameRecord(x, c) /\ c.seq = 0 /\ c.enabled
<1> DEFINE m == Message("begin", n + 1)
<1>1. m \in Msg /\ m.op = "begin" /\ m.s = n + 1 /\ a \in MainState
      /\ a.store \in {"open", "closing"}
  BY MessageIs DEF Good, MainTypes
<1> HIDE DEF m
<1>2. Requested(x, m, c)
  <2>1. c = StoreRequest(x, m)
    BY DEF m
  <2> QED BY <1>1, <2>1, RequestDoes
<1>3. /\ c \in MainState /\ c.store = a.store /\ c.enabled /\ ~c.ended /\ c.s = n + 1 /\ c.seq = 0
      /\ c.pending = <<>> /\ c.waiting = a.waiting /\ c.file = x.file
      /\ c.ended = x.ended /\ c.store = x.store /\ c.s = x.s
  BY <1>2 DEF Requested
<1>4. MainTypes(c)
  BY <1>3 DEF MainTypes
<1>5. Queue(a) \in Seq(Msg)
  BY <1>1, QueueTyped
<1>6. /\ Begins(Queue(a), n) /\ Closes(Queue(a), a) /\ Ordered(Queue(a), a) /\ Waits(a, k)
      /\ \A s : ~Recorded(a, s)
  BY DEF Good, Recorded
<1>7. handling.op = "begin" => handling.s \in Nat
  BY HandlingIs
<1>8. Seen(n + 1) = {}
  <2>1. n + 1 > n
    OBVIOUS
  <2> QED BY <1>6, <2>1, NothingSeen DEF Begins
<1>9. Ordered(Queue(a), c)
  BY <1>3, <1>5, <1>6, <1>8, OrderedFresh
<1>10. Waits(c, k)
  BY <1>1, <1>2, <1>6, WaitsPost
<1>11. 0 <= MaxEvents + 3
  BY HistoryAssumption
<1>12. CASE a.store = "open"
  <2>1. Queue(c) = Append(Queue(a), m)
    <3>1. c.posts = Append(a.posts, m)
      BY <1>2, <1>12 DEF Requested
    <3> QED BY <1>1, <1>3, <3>1, QueueGrows
  <2>2. Begins(Queue(c), n + 1)
    BY <1>1, <1>5, <1>6, <1>7, <2>1, BeginsStart
  <2>3. Closes(Queue(c), c)
    BY <1>1, <1>3, <1>5, <1>6, <1>12, <2>1, ClosesStart
  <2>4. Ordered(Queue(c), c)
    BY <1>1, <1>5, <1>9, <2>1, OrderedPost
  <2>5. c.store \in {"open", "closing"} /\ (c.enabled => c.s = n + 1) /\ c.seq <= MaxEvents + 3
    BY <1>1, <1>3, <1>11
  <2> QED BY <1>3, <1>4, <1>10, <2>2, <2>3, <2>4, <2>5 DEF Good, SameRecord
<1>13. CASE a.store = "closing"
  <2>1. Queue(c) = Queue(a)
    <3>1. c.posts = a.posts
      BY <1>1, <1>2, <1>13 DEF Requested
    <3> QED BY <3>1, QueueStays
  <2>2. Begins(Queue(c), n + 1)
    BY <1>5, <1>6, <1>7, <2>1, BeginsMore
  <2>3. Closes(Queue(c), c)
    BY <1>1, <1>3, <1>5, <1>6, <1>13, <2>1, ClosesStart
  <2>4. Ordered(Queue(c), c)
    BY <1>9, <2>1
  <2>5. c.store \in {"open", "closing"} /\ (c.enabled => c.s = n + 1) /\ c.seq <= MaxEvents + 3
    BY <1>1, <1>3, <1>11
  <2> QED BY <1>3, <1>4, <1>10, <2>2, <2>3, <2>4, <2>5 DEF Good, SameRecord
<1> QED BY <1>1, <1>12, <1>13

LEMMA GoodStart ==
  ASSUME WorkerTypes, Control, NEW n \in Nat, n + 1 \in Session, NEW k \in Int, NEW a,
         Good(a, n, k), ~a.enabled, ~a.ended
  PROVE  LET b == StartLogging(a, n + 1)
         IN  Good(b, n + 1, k) /\ b.seq <= MaxEvents + 2
<1> DEFINE x == [a EXCEPT !.enabled = TRUE, !.paused = FALSE, !.s = n + 1, !.seq = 0,
                          !.pending = <<>>]
           c == StoreRequest(x, Message("begin", n + 1))
           d == Mark(c)
           e == Mark(d)
           f == [e EXCEPT !.paused = TRUE]
<1>1. StartLogging(a, n + 1) = IF a.paused THEN f ELSE d
  BY DEF StartLogging
<1>2. /\ x \in MainState /\ x.store = a.store /\ x.waiting = a.waiting /\ x.posts = a.posts
      /\ x.rejects = a.rejects /\ x.enabled /\ ~x.ended /\ x.s = n + 1 /\ x.seq = 0
      /\ x.pending = <<>>
  <2>1. <<>> \in Seq(Nat) /\ n + 1 \in Nat /\ 0 \in Nat /\ TRUE \in BOOLEAN /\ FALSE \in BOOLEAN
    OBVIOUS
  <2>2. a \in MainState
    BY DEF Good, MainTypes
  <2> QED BY <2>1, <2>2 DEF MainState
<1> HIDE DEF x
<1>3. Good(c, n + 1, k) /\ SameRecord(x, c) /\ c.seq = 0 /\ c.enabled
  BY <1>2, GoodBegin
<1>4. MaxEvents \in Nat
  BY HistoryAssumption
<1> HIDE DEF c
<1>5. Good(d, n + 1, k) /\ SameRecord(c, d) /\ d.seq \in {0, 1}
  <2>1. c.seq + 1 <= MaxEvents + 3
    BY <1>3, <1>4
  <2>2. Good(d, n + 1, k) /\ SameRecord(c, d) /\ d.seq \in {c.seq, c.seq + 1}
    BY <1>3, <2>1, GoodMark
  <2> QED BY <1>3, <2>2
<1> HIDE DEF d
<1>6. Good(e, n + 1, k) /\ SameRecord(d, e) /\ e.seq \in {0, 1, 2}
  <2>1. d.seq + 1 <= MaxEvents + 3
    BY <1>4, <1>5
  <2>2. Good(e, n + 1, k) /\ SameRecord(d, e) /\ e.seq \in {d.seq, d.seq + 1}
    BY <1>5, <2>1, GoodMark
  <2> QED BY <1>5, <2>2
<1> HIDE DEF e
<1>7. Good(f, n + 1, k) /\ f.seq = e.seq
  <2>1. e \in MainState /\ (e.ended => ~e.enabled)
    BY <1>6 DEF Good, MainTypes
  <2>2. f \in MainState /\ SameQueue(e, f) /\ f.enabled = e.enabled /\ f.pending = e.pending
        /\ f.ended = e.ended
    BY <2>1 DEF MainState, SameQueue
  <2> HIDE DEF f
  <2> QED BY <1>6, <2>1, <2>2, GoodStays DEF SameQueue
<1>8. d.seq <= MaxEvents + 2 /\ f.seq <= MaxEvents + 2
  BY <1>4, <1>5, <1>6, <1>7
<1> HIDE DEF f
<1> QED BY <1>1, <1>5, <1>7, <1>8

LEMMA GoodFinish ==
  ASSUME WorkerTypes, Control, NEW n, NEW k \in Int, NEW a, Good(a, n, k),
         a.enabled => a.seq + 1 <= MaxEvents + 3, NEW to \in Ends
  PROVE  LET b == FinishLogging(a, to)
         IN  Good(b, n, k) /\ ~b.enabled /\ b.ended = a.ended
<1>1. a \in MainState /\ (a.ended => ~a.enabled)
  BY DEF Good, MainTypes
<1>2. CASE ~a.enabled
  BY <1>2 DEF FinishLogging
<1>3. CASE a.enabled
  <2> DEFINE x == [a EXCEPT !.paused = FALSE]
             y == Mark(x)
             z == [y EXCEPT !.enabled = FALSE, !.paused = a.paused /\ a.file]
             c == Finished(z, to)
  <2>1. FinishLogging(a, to) = c
    BY <1>3 DEF FinishLogging
  <2>2. /\ x \in MainState /\ SameQueue(a, x) /\ x.enabled = a.enabled /\ x.pending = a.pending
        /\ x.ended = a.ended /\ x.s = a.s /\ x.seq = a.seq
    BY <1>1 DEF MainState, SameQueue
  <2> HIDE DEF x
  <2>3. Good(x, n, k)
    BY <1>1, <2>2, GoodStays
  <2>4. Good(y, n, k) /\ SameRecord(x, y) /\ y.pending = <<>>
    <3>1. x.enabled => x.seq + 1 <= MaxEvents + 3
      BY <2>2
    <3> QED BY <2>3, <3>1, GoodMark
  <2> HIDE DEF y
  <2>5. y \in MainState /\ y.s = a.s /\ y.ended = a.ended
    BY <2>2, <2>4 DEF SameRecord
  <2>6. z \in MainState /\ SameQueue(y, z) /\ ~z.enabled /\ z.pending = <<>> /\ z.ended = y.ended
    <3>1. (a.paused /\ a.file) \in BOOLEAN /\ FALSE \in BOOLEAN
      OBVIOUS
    <3> QED BY <2>4, <2>5, <3>1 DEF MainState, SameQueue
  <2> HIDE DEF z
  <2>7. a.s \in Session
    BY <1>3 DEF Good, MainTypes
  <2>8. y.s \in Session
    BY <2>5, <2>7
  <2>9. Good(c, n, k) /\ c.enabled = z.enabled /\ c.ended = z.ended
    BY <2>4, <2>6, <2>8, GoodStops
  <2> QED BY <2>1, <2>5, <2>6, <2>9
<1> QED BY <1>2, <1>3

\* One more event of the pending batch.
LEMMA GoodOutput ==
  ASSUME WorkerTypes, Control, NEW n, NEW k \in Int, NEW a, Good(a, n, k), a.enabled,
         a.seq < MaxEvents, Len(a.pending) < MaxBatch,
         NEW b \in MainState, b.seq = a.seq + 1, b.pending = Append(a.pending, a.seq + 1),
         b.store = a.store, b.s = a.s, b.enabled = a.enabled, b.ended = a.ended,
         b.posts = a.posts, b.rejects = a.rejects, b.waiting = a.waiting
  PROVE  Good(b, n, k) /\ b.seq = a.seq + 1
<1> DEFINE e == a.seq + 1
           es == Append(a.pending, e)
<1>1. /\ a \in MainState /\ a.s \in Session /\ a.seq \in Nat /\ a.pending \in Seq(Nat)
      /\ ~a.ended /\ MaxEvents \in Nat /\ MaxBatch \in Nat /\ Len(a.pending) \in Nat
  BY HistoryAssumption, LenProperties DEF Good, MainTypes, MainState
<1>2. /\ es \in Seq(Nat) /\ Len(es) = Len(a.pending) + 1
      /\ DOMAIN a.pending = 1 .. Len(a.pending) /\ DOMAIN es = 1 .. Len(a.pending) + 1
      /\ es[Len(a.pending) + 1] = e /\ \A i \in 1 .. Len(a.pending) : es[i] = a.pending[i]
  BY <1>1, AppendProperties, LenProperties
<1>3. e \in Nat /\ e >= 1 /\ e > a.seq /\ e <= MaxEvents + 3
  BY <1>1
<1>4. b.seq = e /\ b.pending = es
  OBVIOUS
<1> HIDE DEF es, e
<1>5. Queue(b) = Queue(a) /\ Queue(a) \in Seq(Msg)
  BY <1>1, <1>4, QueueStays, QueueTyped
<1>6. \A s : Recorded(b, s) = Recorded(a, s)
  BY <1>4 DEF Recorded
<1>7. Closes(Queue(b), b)
  BY <1>4, <1>5, <1>6 DEF Good, Closes
<1>8. Ordered(Queue(a), a)
  BY DEF Good
<1>9. Range(es) = Range(a.pending) \union {e}
  <2>1. \A i : i \in 1 .. Len(a.pending) + 1
               <=> i \in 1 .. Len(a.pending) \/ i = Len(a.pending) + 1
    BY <1>1
  <2> QED BY <1>2, <2>1 DEF Range
<1>10. /\ \A s \in Session : Seen(s) \subseteq Int
       /\ \A i \in DOMAIN Queue(a) : Range(Queue(a)[i].es) \subseteq Int
       /\ Range(a.pending) \subseteq Int
  <2>1. \A i \in DOMAIN Queue(a) : Queue(a)[i].es \in Seq(Nat)
    BY <1>5, QueueFacts
  <2> QED BY <1>1, <2>1, SeenIs, ElementOfSeq DEF Range
<1>11. \A y \in Int : y <= a.seq => y < e /\ y <= e
  BY <1>1, <1>3
<1>20. /\ \A z \in Range(a.pending) : z \in Int /\ 1 <= z /\ z <= a.seq
       /\ \A i \in DOMAIN Queue(a) : Queue(a)[i].op = "append" /\ Recorded(a, Queue(a)[i].s) =>
            /\ Before(Range(Queue(a)[i].es), Range(a.pending))
            /\ \A y \in Range(Queue(a)[i].es) : y \in Int /\ y <= a.seq
  BY <1>8, <1>10 DEF Ordered
<1>12. \A i \in DOMAIN Queue(b) : Queue(b)[i].op = "append" /\ Recorded(b, Queue(b)[i].s) =>
         /\ Before(Range(Queue(b)[i].es), Range(b.pending))
         /\ \A y \in Range(Queue(b)[i].es) : y <= b.seq
  <2> SUFFICES ASSUME NEW i \in DOMAIN Queue(a), Queue(a)[i].op = "append",
                      Recorded(a, Queue(a)[i].s)
               PROVE  /\ Before(Range(Queue(a)[i].es), Range(b.pending))
                      /\ \A y \in Range(Queue(a)[i].es) : y <= b.seq
    BY <1>5, <1>6
  <2>1. /\ Before(Range(Queue(a)[i].es), Range(a.pending))
        /\ \A y \in Range(Queue(a)[i].es) : y \in Int /\ y <= a.seq
    BY <1>20
  <2>2. \A y \in Range(Queue(a)[i].es) : y < e /\ y <= e
    BY <1>11, <2>1
  <2> QED BY <1>4, <1>9, <2>1, <2>2 DEF Before
<1>13. Before(Seen(b.s), Range(b.pending)) /\ \A x \in Seen(b.s) : x <= b.seq
  BY <1>1, <1>4, <1>8, <1>9, <1>10, <1>11 DEF Ordered, Before
<1>14. Ascends(b.pending)
  <2>1. \A i \in 1 .. Len(a.pending) : a.pending[i] \in Int /\ a.pending[i] <= a.seq
    BY <1>2, <1>20 DEF Range
  <2>2. \A i, j \in 1 .. Len(a.pending) : i < j => es[i] < es[j]
    BY <1>2, <1>8 DEF Ordered, Ascends
  <2>3. \A i \in 1 .. Len(a.pending) : es[i] < es[Len(a.pending) + 1]
    BY <1>2, <1>11, <2>1
  <2>4. \A i, j \in 1 .. Len(a.pending) + 1 : i < j =>
          i \in 1 .. Len(a.pending)
          /\ (j \in 1 .. Len(a.pending) \/ j = Len(a.pending) + 1)
    BY <1>1
  <2> QED BY <1>2, <1>4, <2>2, <2>3, <2>4 DEF Ascends
<1>15. Len(b.pending) <= MaxBatch
  BY <1>1, <1>2, <1>4
<1>16. \A z \in Range(b.pending) : 1 <= z /\ z <= b.seq
  <2>1. e \in Int /\ 1 <= e /\ e <= e
    BY <1>3
  <2> QED BY <1>4, <1>9, <1>11, <1>20, <2>1
<1>17. Ordered(Queue(b), b)
  BY <1>4, <1>5, <1>8, <1>12, <1>13, <1>14, <1>15, <1>16 DEF Ordered
<1>18. MainTypes(b)
  BY <1>1, <1>4 DEF MainTypes
<1>19. Good(b, n, k)
  BY <1>3, <1>4, <1>5, <1>7, <1>17, <1>18 DEF Good, Waits
<1> QED BY <1>4, <1>19 DEF e

\* Any other request for which nothing is recorded: a deletion.
LEMMA GoodDelete ==
  ASSUME WorkerTypes, Control, NEW n, NEW k \in Int, NEW a, Good(a, n, k), a.store = "open",
         NEW s \in Session, NEW b, b = StoreRequest(a, Message("delete", s))
  PROVE  Good(b, n, k) /\ b.seq = a.seq /\ b.enabled = a.enabled
<1> DEFINE m == Message("delete", s)
<1>1. m \in Msg /\ m.op = "delete" /\ a \in MainState
  <2>1. s \in Nat
    BY DEF Session
  <2> QED BY <2>1, MessageIs DEF Good, MainTypes
<1> HIDE DEF m
<1>2. Requested(a, m, b)
  <2>1. b = StoreRequest(a, m)
    BY DEF m
  <2> QED BY <1>1, <2>1, RequestDoes
<1>3. /\ b \in MainState /\ b.store = a.store /\ b.enabled = a.enabled /\ b.ended = a.ended
      /\ b.s = a.s /\ b.seq = a.seq /\ b.pending = a.pending /\ b.posts = Append(a.posts, m)
  BY <1>1, <1>2 DEF Requested
<1>4. Queue(a) \in Seq(Msg) /\ Queue(b) = Append(Queue(a), m)
  BY <1>1, <1>3, QueueGrows
<1>5. /\ Begins(Queue(a), n) /\ Closes(Queue(a), a) /\ Ordered(Queue(a), a) /\ Waits(a, k)
      /\ MainTypes(a)
  BY DEF Good
<1>6. Begins(Queue(b), n)
  BY <1>1, <1>4, <1>5, BeginsPost
<1>7. Closes(Queue(b), b)
  BY <1>1, <1>3, <1>4, <1>5, ClosesPost
<1>8. Ordered(Queue(b), b)
  <2>1. Ordered(Queue(b), a)
    BY <1>1, <1>4, <1>5, OrderedPost
  <2> QED BY <1>3, <2>1, OrderedStays
<1>9. Waits(b, k)
  BY <1>1, <1>2, <1>5, WaitsPost
<1>10. MainTypes(b)
  BY <1>3, <1>5 DEF MainTypes
<1>11. Good(b, n, k)
  BY <1>3, <1>6, <1>7, <1>8, <1>9, <1>10 DEF Good
<1> QED BY <1>3, <1>11

LEMMA GoodClose ==
  ASSUME WorkerTypes, Control, NEW n, NEW k \in Int, NEW a, Good(a, n, k), a.store = "open",
         NEW b, b = StoreRequest([a EXCEPT !.store = "closing"], Message("close", 0))
  PROVE  Good(b, n, k) /\ b.seq = a.seq /\ b.enabled = a.enabled
<1> DEFINE m == Message("close", 0)
           x == [a EXCEPT !.store = "closing"]
<1>1. m \in Msg /\ m.op = "close" /\ a \in MainState
  BY MessageIs DEF Good, MainTypes
<1>2. /\ x \in MainState /\ x.store = "closing" /\ x.enabled = a.enabled /\ x.ended = a.ended
      /\ x.s = a.s /\ x.seq = a.seq /\ x.pending = a.pending /\ x.posts = a.posts
      /\ x.rejects = a.rejects /\ x.waiting = a.waiting
  BY <1>1 DEF MainState
<1> HIDE DEF x, m
<1>3. Requested(x, m, b)
  <2>1. b = StoreRequest(x, m)
    BY DEF m, x
  <2> QED BY <1>1, <1>2, <2>1, RequestDoes
<1>4. /\ b \in MainState /\ b.store = "closing" /\ b.enabled = a.enabled /\ b.ended = a.ended
      /\ b.s = a.s /\ b.seq = a.seq /\ b.pending = a.pending /\ b.posts = Append(a.posts, m)
  BY <1>1, <1>2, <1>3 DEF Requested
<1>5. Queue(a) \in Seq(Msg) /\ Queue(b) = Append(Queue(a), m)
  BY <1>1, <1>4, QueueGrows
<1>6. /\ Begins(Queue(a), n) /\ Closes(Queue(a), a) /\ Ordered(Queue(a), a) /\ Waits(a, k)
      /\ MainTypes(a)
  BY DEF Good
<1>7. Begins(Queue(b), n)
  BY <1>1, <1>5, <1>6, BeginsPost
<1>8. Closes(Queue(b), b)
  BY <1>1, <1>4, <1>5, <1>6, ClosesClose
<1>9. Ordered(Queue(b), b)
  <2>1. Ordered(Queue(b), a)
    BY <1>1, <1>5, <1>6, OrderedPost
  <2> QED BY <1>4, <2>1, OrderedStays
<1>10. Waits(b, k)
  BY <1>1, <1>2, <1>3, <1>6, WaitsPost
<1>11. MainTypes(b)
  BY <1>4, <1>6 DEF MainTypes
<1>12. Good(b, n, k)
  BY <1>4, <1>6, <1>7, <1>8, <1>9, <1>10, <1>11 DEF Good
<1> QED BY <1>4, <1>12

\* A reply gives its bytes back.
LEMMA GoodPaid ==
  ASSUME NEW n, NEW k \in Int, NEW a, Good(a, n, k), NEW w \in Nat,
         NEW b, b = [a EXCEPT !.waiting = a.waiting - w]
  PROVE  Good(b, n, k - w) /\ b.seq = a.seq /\ b.enabled = a.enabled
<1>1. a \in MainState /\ a.posts \in Seq(Msg) /\ MainTypes(a) /\ a.waiting \in Int
  BY DEF Good, MainTypes, MainState
<1>2. /\ b \in MainState /\ b.store = a.store /\ b.enabled = a.enabled /\ b.ended = a.ended
      /\ b.s = a.s /\ b.seq = a.seq /\ b.pending = a.pending /\ b.posts = a.posts
      /\ b.rejects = a.rejects /\ b.waiting = a.waiting - w
  <2> DEFINE v == a.waiting - w
  <2>1. v \in Int
    BY <1>1
  <2> HIDE DEF v
  <2>2. b = [a EXCEPT !.waiting = v]
    BY DEF v
  <2>3. QED BY <1>1, <2>1, <2>2, MainEdits DEF v
<1>3. Queue(b) = Queue(a)
  BY <1>2, QueueStays
<1>4. \A s : Recorded(b, s) = Recorded(a, s)
  BY <1>2 DEF Recorded
<1>5. Closes(Queue(b), b)
  BY <1>2, <1>3, <1>4 DEF Good, Closes
<1>6. Ordered(Queue(b), b)
  BY <1>2, <1>3, OrderedStays DEF Good
<1>7. MainTypes(b)
  BY <1>1, <1>2 DEF MainTypes
<1>8. Waits(b, k - w)
  <2>1. MessageSum(a.posts) \in Nat /\ QueueLimit \in Nat
    BY <1>1, MessageSums, HistoryAssumption
  <2>2. a.waiting = k + MessageSum(a.posts) /\ a.waiting <= QueueLimit /\ ReplySum(a.rejects) = 0
    BY DEF Good, Waits
  <2> QED BY <1>1, <1>2, <2>1, <2>2 DEF Waits
<1>9. Good(b, n, k - w)
  BY <1>2, <1>3, <1>5, <1>6, <1>7, <1>8 DEF Good
<1> QED BY <1>2, <1>9

-----------------------------------------------------------------------------
(* The invariant, and the handlers of the main thread *)

\* The bytes that wait when no handler of the main thread runs.
Outstanding == MessageSum(inbox) + Weight(handling) + ReplySum(replies)

Running ==
  AppRunning => Good(main, begun, Outstanding) /\ (main.enabled => main.seq <= MaxEvents + 2)

LEMMA OutstandingIs ==
  ASSUME WorkerTypes
  PROVE  /\ Weight(handling) \in Nat /\ MessageSum(inbox) \in Nat /\ ReplySum(replies) \in Nat
         /\ Outstanding \in Int
<1>1. inbox \in Seq(Msg) /\ replies \in Seq(Answer)
  BY DEF WorkerTypes
<1>2. Weight(handling) \in Nat
  BY HandlingIs, LenProperties DEF Weight
<1> QED BY <1>1, <1>2, MessageSums, ReplySums DEF Outstanding

LEMMA DidKeeps ==
  ASSUME HistoryTypes, Control, NEW n \in 0 .. NSessions, NEW b, MainTypes(b),
         b.store \in {"open", "closing", "closed"}, Begins(Queue(b), n), Did(b), begun' = n,
         AppRunning \/ (step.at = "idle" /\ Active = {} /\ b.store # "closed"),
         NEW rs \in Seq(Answer), replies' = rs \o b.rejects
  PROVE  HistoryTypes' /\ Control' /\ Begins(inbox, begun)'
<1>1. b \in MainState /\ b.posts \in Seq(Msg) /\ b.rejects \in Seq(Answer)
  BY DEF MainTypes, MainState
<1>2. /\ main' = [b EXCEPT !.posts = <<>>, !.rejects = <<>>] /\ inbox' = Queue(b)
      /\ disk' = disk /\ writer' = writer /\ handling' = handling /\ step' = step
      /\ starts' = starts
  BY DEF Did, Queue
<1>3. /\ main' \in MainState /\ main'.posts = <<>> /\ main'.rejects = <<>>
      /\ main'.enabled = b.enabled /\ main'.s = b.s /\ main'.pending = b.pending
      /\ main'.ended = b.ended /\ main'.store = b.store
  <2>1. <<>> \in Seq(Msg) /\ <<>> \in Seq(Answer)
    OBVIOUS
  <2> QED BY <1>1, <1>2, <2>1 DEF MainState
<1>4. inbox' \in Seq(Msg) /\ replies' \in Seq(Answer)
  <2>1. Queue(b) \in Seq(Msg)
    BY <1>1, QueueTyped DEF HistoryTypes
  <2> QED BY <1>1, <1>2, <2>1, ConcatProperties
<1>5. WorkerTypes'
  BY <1>2, <1>4 DEF HistoryTypes, WorkerTypes
<1>6. MainTypes(main)'
  BY <1>3 DEF MainTypes
<1>7. HistoryTypes'
  BY <1>2, <1>3, <1>5, <1>6 DEF HistoryTypes
<1>8. Active' = Active /\ EndedSessions' = EndedSessions /\ Writing' = Writing
      /\ \A s \in Session : Fresh(s)' = Fresh(s)
  BY <1>2 DEF Active, EndedSessions, Writing, Fresh
<1>9. StepFollows'
  BY <1>2, <1>8 DEF Control, StepFollows
<1>10. WriterFollows'
  <2>1. AppRunning' => AppRunning \/ Active = {}
    OBVIOUS
  <2>2. \A s \in Writing : s \in Active /\ writer[s].part \in DOMAIN disk[s].partial
    BY DEF Control, WriterFollows
  <2>3. /\ step.at \in {"write", "seal", "trim", "forget", "commit"} => step.s \in Writing
        /\ step.at \in {"open", "unlink", "enter", "rotate", "finish"} => step.s \notin Writing
    BY DEF Control, WriterFollows
  <2>4. AppRunning' => \A s \in Active :
           s \in Writing \/ handling.op = "close"
           \/ (step.s = s /\ step.at \in {"open", "unlink", "enter", "rotate", "finish"})
    BY <2>1 DEF Control, WriterFollows
  <2>5. writer' = writer /\ disk' = disk /\ step' = step /\ handling' = handling
    BY <1>2
  <2> QED BY <1>8, <2>2, <2>3, <2>4, <2>5 DEF WriterFollows
<1>11. Starting'
  <2>1. main'.store # "starting"
    BY <1>3
  <2>2. step.at # "recover" /\ (step.at \in {"unlink", "enter"} => handling # Idle)
    BY DEF Control, Starting, AppRunning
  <2> QED BY <1>2, <2>1, <2>2 DEF Starting
<1>12. Begins(inbox, begun)'
  BY <1>2 DEF Begins, Fresh
<1> QED BY <1>7, <1>9, <1>10, <1>11, <1>12 DEF Control

LEMMA DidRuns ==
  ASSUME HistoryTypes, NEW n, NEW b, NEW rs \in Seq(Answer), NEW k,
         k = MessageSum(inbox) + Weight(handling) + ReplySum(rs),
         Good(b, n, k), b.enabled => b.seq <= MaxEvents + 2,
         Did(b), begun' = n, replies' = rs \o b.rejects
  PROVE  Running'
<1>1. b \in MainState /\ b.posts \in Seq(Msg) /\ b.rejects \in Seq(Answer) /\ WorkerTypes
      /\ inbox \in Seq(Msg)
  BY DEF Good, MainTypes, MainState, HistoryTypes, WorkerTypes
<1>2. /\ main' = [b EXCEPT !.posts = <<>>, !.rejects = <<>>] /\ inbox' = Queue(b)
      /\ disk' = disk /\ writer' = writer /\ handling' = handling /\ step' = step
      /\ inbox' = inbox \o b.posts
  BY DEF Did, Queue
<1>3. /\ main' \in MainState /\ main'.posts = <<>> /\ main'.rejects = <<>>
      /\ main'.enabled = b.enabled /\ main'.s = b.s /\ main'.pending = b.pending
      /\ main'.ended = b.ended /\ main'.store = b.store /\ main'.seq = b.seq
      /\ main'.waiting = b.waiting
  <2>1. <<>> \in Seq(Msg) /\ <<>> \in Seq(Answer)
    OBVIOUS
  <2> QED BY <1>1, <1>2, <2>1 DEF MainState
<1>4. Queue(main)' = Queue(b)
  <2>1. Queue(b) \in Seq(Msg)
    BY <1>1, QueueTyped
  <2> QED BY <1>2, <1>3, <2>1, ConcatEmptySeq DEF Queue
<1>5. MainTypes(main)'
  BY <1>3 DEF Good, MainTypes
<1>6. Active' = Active /\ EndedSessions' = EndedSessions /\ Writing' = Writing
      /\ \A s \in Session : Fresh(s)' = Fresh(s)
  BY <1>2 DEF Active, EndedSessions, Writing, Fresh
<1>7. Begins(Queue(main), begun)'
  <2>1. Begins(Queue(b), n)
    BY DEF Good
  <2>2. disk' = disk /\ handling' = handling /\ step' = step /\ begun' = n
    BY <1>2
  <2>3. (\A s \in Session : s > begun => Fresh(s))'
    BY <2>1, <2>2 DEF Begins, Fresh
  <2>4. (\A i \in DOMAIN Queue(main) :
          /\ Queue(main)[i].op \in {"begin", "append"} => Queue(main)[i].s <= begun
          /\ Queue(main)[i].op = "begin" => Fresh(Queue(main)[i].s))'
    BY <1>4, <2>1, <2>2 DEF Begins, Fresh
  <2>5. (\A i, j \in DOMAIN Queue(main) : Queue(main)[i].op = "begin" /\ Queue(main)[j].op = "begin"
          /\ Queue(main)[i].s = Queue(main)[j].s => i = j)'
    BY <1>4, <2>1 DEF Begins
  <2>6. (handling.op = "begin" => handling.s <= begun)'
    BY <2>1, <2>2 DEF Begins
  <2>7. (handling.op = "begin" /\ step.at \in {"retain", "delete"} =>
          /\ Fresh(handling.s)
          /\ \A i \in DOMAIN Queue(main) : Queue(main)[i].op = "begin"
               => Queue(main)[i].s # handling.s)'
    BY <1>4, <2>1, <2>2 DEF Begins, Fresh
  <2> QED BY <2>3, <2>4, <2>5, <2>6, <2>7 DEF Begins
<1>8. \A s : Recorded(main, s)' = Recorded(b, s)
  BY <1>3 DEF Recorded
<1>9. Closes(Queue(main), main)'
  <2>1. Closes(Queue(b), b)
    BY DEF Good
  <2> QED BY <1>2, <1>3, <1>4, <1>6, <1>8, <2>1 DEF Closes
<1>10. \A s : Seen(s)' = Seen(s)
  BY <1>2, <1>6 DEF Seen, Past, PastEvents, BatchRows, BatchEvents, InHand, Batch, Count, Top,
                    Reached
<1>11. Ordered(Queue(main), main)'
  <2>1. Ordered(Queue(b), b)
    BY DEF Good
  <2> QED BY <1>3, <1>4, <1>8, <1>10, <2>1 DEF Ordered
<1>12. Waits(main, Outstanding)'
  <2>1. MessageSum(inbox \o b.posts) = MessageSum(inbox) + MessageSum(b.posts)
        /\ MessageSum(inbox) \in Nat /\ MessageSum(b.posts) \in Nat /\ MessageSum(<<>>) = 0
    BY <1>1, MessageSums
  <2>2. ReplySum(rs \o b.rejects) = ReplySum(rs) + ReplySum(b.rejects)
        /\ ReplySum(rs) \in Nat /\ ReplySum(b.rejects) \in Nat /\ ReplySum(<<>>) = 0
    BY <1>1, ReplySums
  <2>3. Weight(handling) \in Nat
    BY <1>1, OutstandingIs
  <2>4. /\ b.waiting = k + MessageSum(b.posts) /\ b.waiting <= QueueLimit
        /\ ReplySum(b.rejects) = 0
    BY DEF Good, Waits
  <2>5. Outstanding' = MessageSum(inbox \o b.posts) + Weight(handling) + ReplySum(rs \o b.rejects)
    BY <1>2 DEF Outstanding, MessageSum, ReplySum
  <2>6. MessageSum(main.posts)' = 0 /\ ReplySum(main.rejects)' = 0
    BY <1>3, <2>1, <2>2 DEF MessageSum, ReplySum
  <2>7. main'.waiting = Outstanding' + 0 /\ main'.waiting <= QueueLimit
    BY <1>3, <2>1, <2>2, <2>3, <2>4, <2>5
  <2> QED BY <2>6, <2>7 DEF Waits
<1>13. Good(main, begun, Outstanding)'
  <2>1. b.store \in {"open", "closing"} /\ (b.enabled => b.s = n) /\ b.seq <= MaxEvents + 3
    BY DEF Good
  <2> QED BY <1>3, <1>5, <1>7, <1>9, <1>11, <1>12, <2>1 DEF Good
<1> QED BY <1>3, <1>13 DEF Running

RunInv == HistoryTypes /\ Control /\ Begins(inbox, begun) /\ Running

LEMMA Handled ==
  ASSUME RunInv, NEW n \in 0 .. NSessions, NEW b, Good(b, n, Outstanding),
         b.enabled => b.seq <= MaxEvents + 2, Handles(b), begun' = n
  PROVE  RunInv'
<1>1. AppRunning /\ Did(b) /\ replies' = replies \o b.rejects /\ replies \in Seq(Answer)
  BY DEF Handles, RunInv, HistoryTypes, WorkerTypes
<1>2. HistoryTypes' /\ Control' /\ Begins(inbox, begun)'
  BY <1>1, DidKeeps DEF RunInv, Good
<1>3. Running'
  <2>1. Outstanding = MessageSum(inbox) + Weight(handling) + ReplySum(replies)
    BY DEF Outstanding
  <2> QED BY <1>1, <2>1, DidRuns DEF RunInv
<1> QED BY <1>2, <1>3 DEF RunInv

\* What a handler starts from.
LEMMA RunFacts ==
  ASSUME RunInv
  PROVE  /\ WorkerTypes /\ Control /\ Outstanding \in Int /\ begun \in 0 .. NSessions
         /\ begun \in Nat /\ NSessions \in Nat /\ main \in MainState
         /\ MaxEvents \in Nat
         /\ AppRunning => /\ Good(main, begun, Outstanding)
                          /\ main.enabled => main.seq <= MaxEvents + 2
                                             /\ main.seq + 1 <= MaxEvents + 3
<1>1. WorkerTypes /\ Control /\ begun \in 0 .. NSessions /\ main \in MainState
  BY DEF RunInv, HistoryTypes, MainTypes
<1>2. Outstanding \in Int
  BY <1>1, OutstandingIs
<1>3. NSessions \in Nat /\ MaxEvents \in Nat
  BY WorkerAssumption, HistoryAssumption
<1>4. AppRunning => /\ Good(main, begun, Outstanding)
                    /\ main.enabled => main.seq <= MaxEvents + 2
  BY DEF RunInv, Running
<1>5. main.seq \in Nat
  BY <1>1 DEF MainState
<1> QED BY <1>1, <1>2, <1>3, <1>4, <1>5

LEMMA EnableKeeps ==
  ASSUME RunInv, Enable
  PROVE  RunInv'
<1> DEFINE b == StartLogging(main, begun + 1)
<1>1. ~main.enabled /\ ~main.ended /\ begun < NSessions /\ AppRunning /\ Handles(b)
      /\ begun' = begun + 1
  BY DEF Enable, Handles
<1>2. begun + 1 \in Session /\ begun + 1 \in 0 .. NSessions
  BY <1>1, RunFacts DEF Session
<1>3. Good(b, begun + 1, Outstanding) /\ b.seq <= MaxEvents + 2
  BY <1>1, <1>2, RunFacts, GoodStart
<1> HIDE DEF b
<1> QED BY <1>1, <1>2, <1>3, Handled

LEMMA DisableKeeps ==
  ASSUME RunInv, Disable
  PROVE  RunInv'
<1> DEFINE b == FinishLogging(main, "completed")
<1>1. AppRunning /\ Handles(b) /\ begun' = begun
  BY DEF Disable, Handles
<1>2. "completed" \in Ends
  BY DEF Ends
<1>3. Good(b, begun, Outstanding) /\ ~b.enabled
  BY <1>1, <1>2, RunFacts, GoodFinish
<1> HIDE DEF b
<1> QED BY <1>1, <1>3, RunFacts, Handled

\* Marks of a pause and of its end.
LEMMA PauseKeeps ==
  ASSUME RunInv, Pause \/ ResumeRecording
  PROVE  RunInv'
<1>1. AppRunning /\ begun' = begun /\ main.seq < MaxEvents /\ Good(main, begun, Outstanding)
      /\ main \in MainState /\ main.seq \in Nat /\ (main.ended => ~main.enabled)
  <2>1. AppRunning /\ begun' = begun /\ main.seq < MaxEvents
    BY DEF Pause, ResumeRecording, Handles
  <2>2. Good(main, begun, Outstanding) /\ main \in MainState
    BY <2>1, RunFacts
  <2> QED BY <2>1, <2>2 DEF Good, MainTypes, MainState
<1>2. CASE Pause
  <2> DEFINE y == Mark(main)
             b == [y EXCEPT !.paused = TRUE]
  <2>1. Handles(b)
    BY <1>2 DEF Pause
  <2>2. Good(y, begun, Outstanding) /\ y.seq \in {main.seq, main.seq + 1}
    <3>1. main.seq + 1 <= MaxEvents + 3
      BY <1>1, RunFacts
    <3> QED BY <1>1, <3>1, RunFacts, GoodMark
  <2> HIDE DEF y
  <2>3. y \in MainState /\ (y.ended => ~y.enabled)
    BY <2>2 DEF Good, MainTypes
  <2>4. b \in MainState /\ SameQueue(y, b) /\ b.enabled = y.enabled /\ b.pending = y.pending
        /\ b.ended = y.ended /\ b.seq = y.seq
    BY <2>3 DEF MainState, SameQueue
  <2> HIDE DEF b
  <2>5. Good(b, begun, Outstanding)
    BY <2>2, <2>3, <2>4, GoodStays
  <2>6. b.seq <= MaxEvents + 2
    BY <1>1, <2>2, <2>4, RunFacts
  <2> QED BY <1>1, <2>1, <2>5, <2>6, RunFacts, Handled
<1>3. CASE ResumeRecording
  <2> DEFINE x == [main EXCEPT !.paused = FALSE]
             b == Mark(x)
  <2>1. Handles(b)
    BY <1>3 DEF ResumeRecording
  <2>2. x \in MainState /\ SameQueue(main, x) /\ x.enabled = main.enabled
        /\ x.pending = main.pending /\ x.ended = main.ended /\ x.seq = main.seq
    BY <1>1 DEF MainState, SameQueue
  <2> HIDE DEF x
  <2>3. Good(x, begun, Outstanding)
    BY <1>1, <2>2, GoodStays
  <2>4. Good(b, begun, Outstanding) /\ b.seq \in {x.seq, x.seq + 1}
    <3>1. x.seq + 1 <= MaxEvents + 3
      BY <1>1, <2>2, RunFacts
    <3> QED BY <2>3, <3>1, RunFacts, GoodMark
  <2> HIDE DEF b
  <2>5. b.seq <= MaxEvents + 2
    BY <1>1, <2>2, <2>4, RunFacts
  <2> QED BY <1>1, <2>1, <2>4, <2>5, RunFacts, Handled
<1> QED BY <1>2, <1>3

\* The file of the terminal.
LEMMA FileKeeps ==
  ASSUME RunInv, StartFile \/ EndFile
  PROVE  RunInv'
<1>1. AppRunning /\ begun' = begun /\ Good(main, begun, Outstanding) /\ main \in MainState
      /\ (main.ended => ~main.enabled) /\ (main.enabled => main.seq <= MaxEvents + 2)
  <2>1. AppRunning /\ begun' = begun
    BY DEF StartFile, EndFile, Handles
  <2>2. Good(main, begun, Outstanding) /\ main \in MainState
        /\ (main.enabled => main.seq <= MaxEvents + 2)
    BY <2>1, RunFacts
  <2> QED BY <2>1, <2>2 DEF Good, MainTypes
<1>2. PICK b : /\ b = [main EXCEPT !.file = TRUE] \/ b = StopFile(main)
               /\ Handles(b)
  BY DEF StartFile, EndFile
<1>3. b \in MainState /\ SameQueue(main, b) /\ b.enabled = main.enabled
      /\ b.pending = main.pending /\ b.ended = main.ended
  <2>1. CASE b = [main EXCEPT !.file = TRUE]
    BY <1>1, <2>1 DEF MainState, SameQueue
  <2>2. CASE b = StopFile(main)
    <3>1. (main.paused /\ main.enabled) \in BOOLEAN
      OBVIOUS
    <3>2. b = [main EXCEPT !.file = FALSE, !.paused = main.paused /\ main.enabled]
      BY <2>2 DEF StopFile
    <3> QED BY <1>1, <3>1, <3>2 DEF MainState, SameQueue
  <2> QED BY <1>2, <2>1, <2>2
<1>4. Good(b, begun, Outstanding)
  BY <1>1, <1>3, GoodStays
<1>5. b.enabled => b.seq <= MaxEvents + 2
  BY <1>1, <1>3 DEF SameQueue
<1> QED BY <1>1, <1>2, <1>4, <1>5, RunFacts, Handled

LEMMA OutputKeeps ==
  ASSUME RunInv, Output
  PROVE  RunInv'
<1> DEFINE a == [main EXCEPT !.seq = @ + 1, !.pending = Append(@, main.seq + 1)]
<1>1. /\ main.enabled /\ main.seq < MaxEvents /\ Len(main.pending) < MaxBatch /\ begun' = begun
      /\ AppRunning /\ (Handles(FlushBatch(a)) \/ Handles(a))
  <2>1. PICK large \in BOOLEAN : Handles(IF large THEN FlushBatch(a) ELSE a)
    BY DEF Output
  <2>2. Handles(FlushBatch(a)) \/ Handles(a)
    BY <2>1
  <2> QED BY <2>2 DEF Output, Handles
<1>6. /\ main \in MainState /\ main.seq + 1 \in Nat
      /\ Append(main.pending, main.seq + 1) \in Seq(Nat)
  <2>1. main \in MainState
    BY RunFacts
  <2>2. main.seq + 1 \in Nat /\ main.pending \in Seq(Nat)
    BY <2>1 DEF MainState
  <2> QED BY <2>1, <2>2, AppendProperties
<1>7. /\ a \in MainState /\ a.seq = main.seq + 1 /\ a.pending = Append(main.pending, main.seq + 1)
      /\ a.store = main.store /\ a.s = main.s /\ a.enabled = main.enabled
      /\ a.ended = main.ended /\ a.posts = main.posts /\ a.rejects = main.rejects
      /\ a.waiting = main.waiting
  BY <1>6 DEF MainState
<1> HIDE DEF a
<1>2. Good(a, begun, Outstanding) /\ a.seq = main.seq + 1
  <2>1. /\ WorkerTypes /\ Control /\ Outstanding \in Int /\ Good(main, begun, Outstanding)
    BY <1>1, RunFacts
  <2>2. main.enabled /\ main.seq < MaxEvents /\ Len(main.pending) < MaxBatch
    BY <1>1
  <2> QED BY <1>7, <2>1, <2>2, GoodOutput
<1>3. a.seq <= MaxEvents + 2
  <2>1. main.seq \in Nat
    BY RunFacts DEF MainState
  <2> QED BY <1>1, <1>2, <2>1, RunFacts
<1>4. CASE Handles(a)
  BY <1>1, <1>2, <1>3, <1>4, RunFacts, Handled
<1>5. CASE Handles(FlushBatch(a))
  <2> DEFINE b == FlushBatch(a)
  <2>1. Good(b, begun, Outstanding) /\ b.seq = a.seq
    BY <1>2, RunFacts, GoodFlush
  <2> HIDE DEF b
  <2>2. Handles(b) /\ b.seq <= MaxEvents + 2
    BY <1>3, <1>5, <2>1 DEF b
  <2> QED BY <1>1, <2>1, <2>2, RunFacts, Handled
<1> QED BY <1>1, <1>4, <1>5

LEMMA FlushKeeps ==
  ASSUME RunInv, FlushTimer
  PROVE  RunInv'
<1> DEFINE b == FlushBatch(main)
<1>1. Handles(b) /\ AppRunning /\ begun' = begun
  BY DEF FlushTimer, Handles
<1>2. Good(b, begun, Outstanding) /\ b.seq = main.seq /\ SameRecord(main, b)
  BY <1>1, RunFacts, GoodFlush
<1>3. b.enabled => b.seq <= MaxEvents + 2
  BY <1>1, <1>2, RunFacts DEF SameRecord
<1> HIDE DEF b
<1> QED BY <1>1, <1>2, <1>3, RunFacts, Handled

LEMMA EndRecordingKeeps ==
  ASSUME RunInv, EndRecording
  PROVE  RunInv'
<1>1. PICK to \in {"completed", "disconnected"} :
        Handles([StopFile(FinishLogging(main, to)) EXCEPT !.ended = TRUE])
  BY DEF EndRecording
<1> DEFINE y == FinishLogging(main, to)
           x == StopFile(y)
           b == [x EXCEPT !.ended = TRUE]
<1>2. AppRunning /\ begun' = begun /\ Handles(b) /\ to \in Ends
  BY <1>1 DEF EndRecording, Handles, Ends
<1>3. Good(y, begun, Outstanding) /\ ~y.enabled
  BY <1>2, RunFacts, GoodFinish
<1> HIDE DEF y
<1>4. y \in MainState
  BY <1>3 DEF Good, MainTypes
<1>5. x \in MainState /\ SameQueue(y, x) /\ x.enabled = y.enabled /\ x.pending = y.pending
  <2>1. (y.paused /\ y.enabled) \in BOOLEAN
    OBVIOUS
  <2>2. x = [y EXCEPT !.file = FALSE, !.paused = y.paused /\ y.enabled]
    BY DEF StopFile
  <2> HIDE DEF x
  <2> QED BY <1>4, <2>1, <2>2 DEF MainState, SameQueue
<1> HIDE DEF x
<1>6. b \in MainState /\ SameQueue(y, b) /\ b.enabled = y.enabled /\ b.pending = y.pending
  BY <1>5 DEF MainState, SameQueue
<1> HIDE DEF b
<1>7. Good(b, begun, Outstanding) /\ ~b.enabled
  BY <1>3, <1>6, GoodStays
<1> QED BY <1>2, <1>7, RunFacts, Handled

LEMMA DeleteRecordKeeps ==
  ASSUME RunInv, NEW s \in Session, DeleteRecord(s)
  PROVE  RunInv'
<1> DEFINE b == StoreRequest(main, Message("delete", s))
<1>1. main.store = "open" /\ Handles(b) /\ AppRunning /\ begun' = begun
  BY DEF DeleteRecord, Handles
<1>2. Good(b, begun, Outstanding) /\ b.seq = main.seq /\ b.enabled = main.enabled
  BY <1>1, RunFacts, GoodDelete
<1>3. b.enabled => b.seq <= MaxEvents + 2
  BY <1>1, <1>2, RunFacts
<1> HIDE DEF b
<1> QED BY <1>1, <1>2, <1>3, RunFacts, Handled

LEMMA CloseKeeps ==
  ASSUME RunInv, Close
  PROVE  RunInv'
<1> DEFINE b == StoreRequest([main EXCEPT !.store = "closing"], Message("close", 0))
<1>1. main.store = "open" /\ Handles(b) /\ AppRunning /\ begun' = begun
  BY DEF Close, Handles
<1>2. Good(b, begun, Outstanding) /\ b.seq = main.seq /\ b.enabled = main.enabled
  BY <1>1, RunFacts, GoodClose
<1>3. b.enabled => b.seq <= MaxEvents + 2
  BY <1>1, <1>2, RunFacts
<1> HIDE DEF b
<1> QED BY <1>1, <1>2, <1>3, RunFacts, Handled

\* A reply: what it says first, its bytes after.
LEMMA HandleReplyKeeps ==
  ASSUME RunInv, HandleReply
  PROVE  RunInv'
<1> DEFINE r == Head(replies)
           rs == Tail(replies)
           w == ReplyWeight(r)
           k == MessageSum(inbox) + Weight(handling) + ReplySum(rs)
<1>1. /\ AppRunning /\ begun' = begun /\ WorkerTypes /\ Control /\ Outstanding \in Int
      /\ Good(main, begun, Outstanding) /\ main \in MainState /\ main.rejects = <<>>
      /\ main.enabled => main.seq <= MaxEvents + 2
      /\ replies \in Seq(Answer) /\ replies # <<>> /\ begun \in 0 .. NSessions
  <2>1. AppRunning /\ begun' = begun /\ replies # <<>>
    BY DEF HandleReply
  <2>2. replies \in Seq(Answer) /\ main.rejects = <<>>
    BY DEF RunInv, HistoryTypes, WorkerTypes
  <2> QED BY <2>1, <2>2, RunFacts
<1>2. r \in Answer /\ rs \in Seq(Answer) /\ w \in Nat /\ ReplySum(replies) = w + ReplySum(rs)
      /\ ReplySum(rs) \in Nat /\ ReplySum(replies) \in Nat
  <2>1. r \in Answer /\ rs \in Seq(Answer)
    BY <1>1, HeadTailProperties
  <2> QED BY <1>1, <2>1, ReplySums, WeightIs
<1>3. PICK a : /\ a = Suspend(main) \/ a = main
               /\ Did([a EXCEPT !.waiting = GiveBack(a, r),
                               !.store = IF r.op = "close" THEN "closed" ELSE @])
               /\ replies' = rs \o a.rejects
  BY DEF HandleReply
<1>4. k = Outstanding - w /\ k \in Int
  <2>1. MessageSum(inbox) \in Nat /\ Weight(handling) \in Nat
    BY <1>1, OutstandingIs
  <2> QED BY <1>2, <2>1 DEF Outstanding
<1> HIDE DEF r, rs, w, k
<1>5. /\ Good(a, begun, Outstanding) /\ a \in MainState
      /\ a.enabled => a.seq <= MaxEvents + 2
  <2>1. CASE a = main
    BY <1>1, <2>1
  <2>2. CASE a = Suspend(main)
    <3>1. Good(a, begun, Outstanding) /\ ~a.enabled
      BY <1>1, <2>2, GoodSuspend
    <3> QED BY <3>1 DEF Good, MainTypes
  <2> QED BY <1>3, <2>1, <2>2
<1>6. GiveBack(a, r) = a.waiting - w /\ a.waiting \in Int /\ a.waiting - w \in Int
  <2>1. a.waiting \in Int
    BY <1>5 DEF MainState
  <2>2. w = IF r.op = "append" THEN r.n ELSE 0
    BY DEF w, ReplyWeight
  <2> QED BY <1>2, <2>1, <2>2 DEF GiveBack
<1>7. CASE r.op # "close"
  <2> DEFINE b == [a EXCEPT !.waiting = a.waiting - w]
  <2>1. Good(b, begun, Outstanding - w) /\ b.seq = a.seq /\ b.enabled = a.enabled
    BY <1>1, <1>2, <1>5, GoodPaid
  <2>2. [a EXCEPT !.waiting = GiveBack(a, r), !.store = IF r.op = "close" THEN "closed" ELSE @]
        = b
    <3>1. a = [a EXCEPT !.store = a.store]
      BY <1>5 DEF MainState
    <3> QED BY <1>5, <1>6, <1>7, <3>1 DEF MainState
  <2>3. b.rejects = a.rejects
    BY <1>5 DEF MainState
  <2> HIDE DEF b
  <2>4. Did(b) /\ replies' = rs \o b.rejects
    BY <1>3, <2>2, <2>3
  <2>5. Good(b, begun, k)
    BY <1>4, <2>1
  <2>6. Running'
    BY <1>1, <1>2, <1>5, <2>1, <2>4, <2>5, DidRuns DEF RunInv, k
  <2>7. HistoryTypes' /\ Control' /\ Begins(inbox, begun)'
    BY <1>1, <1>2, <2>4, <2>5, DidKeeps DEF RunInv, Good
  <2> QED BY <2>6, <2>7 DEF RunInv
<1>8. CASE r.op = "close"
  <2> DEFINE b == [a EXCEPT !.waiting = a.waiting - w, !.store = "closed"]
  <2>1. [a EXCEPT !.waiting = GiveBack(a, r), !.store = IF r.op = "close" THEN "closed" ELSE @]
        = b
    BY <1>6, <1>8
  <2>2. /\ b \in MainState /\ b.rejects = a.rejects /\ b.posts = a.posts /\ b.store = "closed"
        /\ b.enabled = a.enabled /\ b.s = a.s /\ b.pending = a.pending /\ b.ended = a.ended
    BY <1>5, <1>6 DEF MainState
  <2> HIDE DEF b
  <2>3. Did(b) /\ replies' = rs \o b.rejects
    BY <1>3, <2>1, <2>2
  <2>4. MainTypes(b)
    BY <1>5, <2>2 DEF Good, MainTypes
  <2>5. Begins(Queue(b), begun)
    BY <1>5, <2>2, QueueStays DEF Good
  <2>6. HistoryTypes' /\ Control' /\ Begins(inbox, begun)'
    BY <1>1, <1>2, <2>2, <2>3, <2>4, <2>5, DidKeeps DEF RunInv
  <2>7. ~AppRunning'
    <3>1. main' = [b EXCEPT !.posts = <<>>, !.rejects = <<>>]
      BY <2>3 DEF Did
    <3> QED BY <2>2, <3>1 DEF AppRunning, MainState
  <2> QED BY <2>6, <2>7 DEF RunInv, Running
<1> QED BY <1>7, <1>8

\* The store opens when the recovery is done.
LEMMA ReadyKeeps ==
  ASSUME RunInv, Ready
  PROVE  RunInv'
<1> DEFINE b == [main EXCEPT !.store = "open"]
<1>1. /\ main.store = "starting" /\ step.at = "idle" /\ Did(b) /\ begun' = begun
      /\ replies' = replies /\ inbox = <<>> /\ replies = <<>> /\ handling = Idle /\ main = NewMain
      /\ Active = {} /\ WorkerTypes /\ Control /\ begun \in 0 .. NSessions
      /\ Begins(inbox, begun)
  BY RunFacts DEF Ready, RunInv, Control, Starting
<1>2. /\ b.store = "open" /\ b.waiting = 0 /\ ~b.enabled /\ ~b.ended /\ b.s = 0 /\ b.seq = 0
      /\ b.pending = <<>> /\ b.posts = <<>> /\ b.rejects = <<>> /\ b \in MainState
  <2>1. main \in MainState
    BY RunFacts
  <2>2. /\ b \in MainState /\ b.store = "open" /\ b.waiting = main.waiting
        /\ b.enabled = main.enabled /\ b.ended = main.ended /\ b.s = main.s /\ b.seq = main.seq
        /\ b.pending = main.pending /\ b.posts = main.posts /\ b.rejects = main.rejects
    BY <2>1 DEF MainState
  <2> HIDE DEF b
  <2> QED BY <1>1, <2>2 DEF NewMain
<1> HIDE DEF b
<1>3. Queue(b) = <<>> /\ inbox = <<>>
  <2>1. <<>> \o <<>> = <<>>
    OBVIOUS
  <2> QED BY <1>1, <1>2, <2>1 DEF Queue
<1>4. MainTypes(b)
  BY <1>2 DEF MainTypes
<1>5. Good(b, begun, 0)
  <2>1. Begins(Queue(b), begun)
    BY <1>1, <1>3
  <2>2. Closes(Queue(b), b)
    <3>1. handling.op = "idle" /\ step.at # "closed"
      BY <1>1 DEF Idle, Message
    <3>2. DOMAIN <<>> = {}
      BY EmptyOfAny
    <3> QED BY <1>1, <1>2, <1>3, <3>1, <3>2 DEF Closes
  <2>3. Ordered(Queue(b), b)
    <3>1. DOMAIN <<>> = {} /\ Len(<<>>) = 0 /\ Range(<<>>) = {} /\ Ascends(<<>>)
          /\ Len(<<>>) <= MaxBatch
      BY EmptyOfAny, HistoryAssumption
    <3> QED BY <1>2, <1>3, <3>1 DEF Ordered
  <2>4. Waits(b, 0)
    <3>1. <<>> \in Seq(Msg) /\ <<>> \in Seq(Answer)
      OBVIOUS
    <3>2. MessageSum(<<>>) = 0 /\ ReplySum(<<>>) = 0
      BY <3>1, MessageSums, ReplySums
    <3> QED BY <1>2, <3>2, HistoryAssumption DEF Waits
  <2>5. 0 <= MaxEvents + 3
    BY HistoryAssumption
  <2> QED BY <1>2, <1>4, <2>1, <2>2, <2>3, <2>4, <2>5 DEF Good
<1>6. replies' = replies \o b.rejects /\ replies \in Seq(Answer)
  <2>1. <<>> = <<>> \o <<>>
    OBVIOUS
  <2> QED BY <1>1, <1>2, <2>1 DEF WorkerTypes
<1>7. Running'
  <2>1. 0 = MessageSum(inbox) + Weight(handling) + ReplySum(replies)
    <3>1. <<>> \in Seq(Msg) /\ <<>> \in Seq(Answer)
      OBVIOUS
    <3>2. MessageSum(<<>>) = 0 /\ ReplySum(<<>>) = 0
      BY <3>1, MessageSums, ReplySums
    <3>3. Weight(handling) = 0
      BY <1>1 DEF Weight, Idle, Message
    <3> QED BY <1>1, <3>2, <3>3
  <2> QED BY <1>1, <1>2, <1>5, <1>6, <2>1, DidRuns DEF RunInv
<1>8. HistoryTypes' /\ Control' /\ Begins(inbox, begun)'
  BY <1>1, <1>2, <1>3, <1>4, <1>6, DidKeeps DEF RunInv
<1> QED BY <1>7, <1>8 DEF RunInv

\* The application starts over what it left.
LEMMA StartsOver ==
  ASSUME HistoryTypes', main' = NewMain, inbox' = <<>>, replies' = <<>>, handling' = Idle,
         writer' = [s \in Session |-> NoWriter], step' \in {Doing("idle"), Doing("recover")},
         Active' = {} \/ step' = Doing("recover"), \A s \in Session : s > begun' => Fresh(s)'
  PROVE  RunInv'
<1>1. handling'.op = "idle" /\ Writing' = {} /\ step'.at \in {"idle", "recover"}
      /\ DOMAIN inbox' = {} /\ main'.store = "starting" /\ ~AppRunning'
  <2>1. DOMAIN <<>> = {}
    BY EmptyOfAny
  <2>2. \A x \in {"idle", "recover"} : Doing(x).at = x
    BY DEF Doing
  <2>3. NewMain.store = "starting" /\ Idle.op = "idle"
    BY DEF NewMain, Idle, Message
  <2>4. Writing' = {}
    BY DEF Writing
  <2> QED BY <2>1, <2>2, <2>3, <2>4 DEF AppRunning
<1>2. StepFollows'
  BY <1>1 DEF StepFollows
<1>3. WriterFollows'
  BY <1>1 DEF WriterFollows
<1>4. Starting'
  <2>1. step'.at = "idle" => Active' = {}
    BY DEF Doing
  <2> QED BY <1>1, <2>1 DEF Starting
<1>5. Begins(inbox, begun)'
  BY <1>1 DEF Begins
<1> QED BY <1>1, <1>2, <1>3, <1>4, <1>5 DEF RunInv, Control, Running

\* What the variables of a run start with.
LEMMA NewIsTyped ==
  /\ MainTypes(NewMain) /\ NewMain.posts = <<>> /\ NewMain.rejects = <<>>
  /\ Doing("idle") \in StepState /\ Doing("recover") \in StepState
  /\ [s \in Session |-> NoWriter] \in [Session -> WriterState]
  /\ NewRecord \in Record /\ IsFiniteSet(NewRecord.parts)
<1>1. <<>> \in Seq(Nat) /\ <<>> \in Seq(Msg) /\ <<>> \in Seq(Answer)
  OBVIOUS
<1>2. NewMain \in MainState
  BY <1>1 DEF NewMain, MainState
<1>3. MainTypes(NewMain)
  BY <1>2 DEF NewMain, MainTypes
<1>4. Doing("idle") \in StepState /\ Doing("recover") \in StepState
  BY <1>1 DEF Doing, StepState, Phases, Row
<1>5. NewRecord \in Record
  <2>1. <<>> \in Files
    BY NoFiles
  <2> QED BY <2>1 DEF NewRecord, Record, Statuses, Row
<1> QED BY <1>3, <1>4, <1>5, FS_EmptySet DEF NoWriter, WriterState, NewRecord, NewMain

LEMMA RestartKeeps ==
  ASSUME RunInv, Restart
  PROVE  RunInv'
<1>1. /\ main' = NewMain /\ starts' = starts + 1 /\ inbox' = <<>> /\ replies' = <<>>
      /\ writer' = [s \in Session |-> NoWriter] /\ handling' = Idle
      /\ step' = Doing(IF Active = {} THEN "idle" ELSE "recover")
      /\ disk' = disk /\ begun' = begun
  BY DEF Restart, WorkerStart
<1>2. <<>> \in Seq(Msg) /\ <<>> \in Seq(Answer)
  OBVIOUS
<1>3. step' \in {Doing("idle"), Doing("recover")} /\ (Active' = {} \/ step' = Doing("recover"))
  BY <1>1 DEF Active
<1>4. WorkerTypes'
  BY <1>1, <1>2, <1>3, NewIsTyped DEF RunInv, HistoryTypes, WorkerTypes
<1>5. HistoryTypes'
  BY <1>1, <1>4, NewIsTyped DEF RunInv, HistoryTypes
<1>6. \A s \in Session : s > begun' => Fresh(s)'
  BY <1>1 DEF RunInv, Begins, Fresh
<1> QED BY <1>1, <1>3, <1>5, <1>6, StartsOver

\* The first start is one over an empty disk.
LEMMA InitFacts ==
  ASSUME HistoryInit
  PROVE  RunInv
<1>1. /\ main = NewMain /\ starts = 1 /\ begun = 0 /\ inbox = <<>> /\ replies = <<>>
      /\ writer = [s \in Session |-> NoWriter] /\ handling = Idle /\ step = Doing("idle")
      /\ disk = [s \in Session |-> NewRecord]
  BY DEF HistoryInit, WorkerInit
<1>2. <<>> \in Seq(Msg) /\ <<>> \in Seq(Answer)
  OBVIOUS
<1>3. WorkerTypes
  BY <1>1, <1>2, NewIsTyped DEF WorkerTypes
<1>4. HistoryTypes
  BY <1>1, <1>3, NewIsTyped, WorkerAssumption DEF HistoryTypes
<1>5. /\ handling.op = "idle" /\ Writing = {} /\ step.at = "idle" /\ DOMAIN inbox = {}
      /\ main.store = "starting" /\ ~AppRunning /\ \A s \in Session : Fresh(s)
  <2>1. DOMAIN <<>> = {}
    BY EmptyOfAny
  <2>2. Doing("idle").at = "idle"
    BY DEF Doing
  <2>3. NewMain.store = "starting" /\ Idle.op = "idle"
    BY DEF NewMain, Idle, Message
  <2>4. Writing = {} /\ \A s \in Session : Fresh(s)
    BY <1>1 DEF Writing, Fresh
  <2> QED BY <1>1, <2>1, <2>2, <2>3, <2>4 DEF AppRunning
<1>6. Active = {}
  BY <1>1 DEF Active, NewRecord
<1>7. StepFollows /\ WriterFollows /\ Starting
  BY <1>1, <1>5, <1>6 DEF StepFollows, WriterFollows, Starting
<1>8. Begins(inbox, begun)
  BY <1>5 DEF Begins
<1> QED BY <1>4, <1>5, <1>7, <1>8 DEF RunInv, Control, Running

-----------------------------------------------------------------------------
(* The order of the events a session has seen *)

StepOrder ==
  /\ \A s \in Session : writer[s].count <= PartSize /\ (s \in Writing => writer[s].part >= 1)
  /\ step.at = "write" => writer[step.s].count < PartSize
  /\ step.at = "seal" /\ handling.op = "append" => writer[step.s].count = PartSize
  /\ step.at \in {"trim", "forget"} => writer[step.s].count = 0
  /\ step.at = "open" => disk[step.s] = [NewRecord EXCEPT !.status = "active", !.part = 1]
  /\ Batch => Ascends(step.es) /\ Range(step.es) \subseteq Event
              /\ Before(Past(step.s), Range(step.es))

\* A step of the worker sees nothing new.
Covers == \A s \in Session : \A x \in Seen(s)' : x <= 0 \/ \E z \in Seen(s) : x <= z

LEMMA OtherSession ==
  ASSUME NEW s \in Session, OnlyIn(s), NEW t \in Session, t # s, Batch => step.s = s,
         Batch' => step'.s = s
  PROVE  PastEvents(t)' = PastEvents(t) /\ Past(t)' = Past(t) /\ Seen(t)' = Seen(t)
<1>1. disk'[t] = disk[t] /\ writer'[t] = writer[t]
  BY DEF OnlyIn
<1>2. (t \in Writing)' = (t \in Writing)
  BY <1>1 DEF Writing
<1>3. ~(Batch /\ step.s = t) /\ ~(Batch' /\ step'.s = t)
  OBVIOUS
<1>4. InHand(t)' = InHand(t) /\ InHand(t) = (t \in Writing)
  BY <1>2, <1>3 DEF InHand
<1>5. InHand(t) => Reached(t)' = Reached(t)
  BY <1>1, <1>2, <1>4 DEF Reached, Count, Top
<1>6. BatchRows(t)' = {} /\ BatchRows(t) = {} /\ BatchEvents(t)' = {} /\ BatchEvents(t) = {}
  BY <1>3 DEF BatchRows, BatchEvents
<1>7. PastEvents(t)' = PastEvents(t)
  BY <1>1, <1>6 DEF PastEvents
<1> QED BY <1>4, <1>5, <1>6, <1>7 DEF Past, Seen

\* Steps that are of no batch.
LEMMA QuietKeeps ==
  ASSUME WorkerTypes, WorkerTypes', StepOrder, ~Batch, ~Batch',
         \A t \in Session :
           /\ disk'[t].chunks \subseteq disk[t].chunks
           /\ \/ writer'[t] = writer[t] \/ writer'[t] = NoWriter
              \/ writer'[t].part = 1 /\ writer'[t].count = 0,
         step'.at \notin {"write", "trim", "forget"},
         step'.at = "seal" => handling'.op # "append",
         step'.at = "open" => disk'[step'.s] = [NewRecord EXCEPT !.status = "active", !.part = 1]
  PROVE  StepOrder' /\ Covers
<1>1. \A t \in Session :
        /\ writer[t].count <= PartSize /\ (t \in Writing => writer[t].part >= 1)
        /\ writer[t].part \in Nat /\ writer[t].count \in Nat
  BY DiskIs DEF StepOrder
<1>2. PartSize \in Nat \ {0}
  BY WorkerAssumption
<1>3. \A t \in Session : writer'[t].count <= PartSize /\ ((t \in Writing)' => writer'[t].part >= 1)
  BY <1>1, <1>2 DEF NoWriter, Writing
<1>4. StepOrder'
  BY <1>3 DEF StepOrder
<1>5. ASSUME NEW t \in Session
      PROVE  \A x \in Seen(t)' : x <= 0 \/ \E z \in Seen(t) : x <= z
  <2>1. BatchRows(t) = {} /\ BatchRows(t)' = {} /\ BatchEvents(t)' = {}
        /\ InHand(t) = (t \in Writing) /\ InHand(t)' = (t \in Writing)'
    BY DEF BatchRows, BatchEvents, InHand
  <2>2. PastEvents(t)' \subseteq PastEvents(t) /\ PastEvents(t) \subseteq Nat
    BY <2>1, SeenIs DEF PastEvents
  <2>3. ASSUME InHand(t)'
        PROVE  Reached(t)' = 0 \/ (InHand(t) /\ Reached(t)' = Reached(t))
    <3>1. (t \in Writing)' /\ writer'[t] # NoWriter
      BY <2>1, <2>3 DEF Writing
    <3>2. CASE writer'[t] = writer[t]
      <4>1. t \in Writing
        BY <3>1, <3>2 DEF Writing
      <4> QED BY <2>1, <3>1, <3>2, <4>1 DEF Reached, Count, Top
    <3>3. CASE writer'[t].part = 1 /\ writer'[t].count = 0
      BY <3>1, <3>3 DEF Reached, Count, Top
    <3> QED BY <3>1, <3>2, <3>3
  <2>4. Reached(t) \in Int
    BY <1>1, StepIs DEF Reached, Count, Top
  <2>5. Seen(t)' = PastEvents(t)' \union (IF InHand(t)' THEN {Reached(t)'} ELSE {})
    BY <2>1 DEF Seen, Past
  <2>6. PastEvents(t) \subseteq Seen(t) /\ (InHand(t) => Reached(t) \in Seen(t))
    BY DEF Seen, Past
  <2>7. \A x \in Int : x <= x
    OBVIOUS
  <2> QED BY <2>2, <2>3, <2>4, <2>5, <2>6, <2>7
<1> QED BY <1>4, <1>5 DEF Covers

\* Steps of a batch.
LEMMA BatchKeeps ==
  ASSUME WorkerTypes, NEW s \in Session, OnlyIn(s), Batch, step.s = s, Batch' => step'.s = s,
         PastEvents(s)' \subseteq Seen(s), BatchEvents(s)' \subseteq Seen(s),
         InHand(s)' => \E z \in Seen(s) : Reached(s)' <= z
  PROVE  Covers
<1>1. ASSUME NEW t \in Session, t # s
      PROVE  \A x \in Seen(t)' : \E z \in Seen(t) : x <= z
  <2>1. Seen(t)' = Seen(t)
    BY <1>1, OtherSession
  <2>2. Seen(t) \subseteq Int
    BY SeenIs
  <2>3. \A x \in Int : x <= x
    OBVIOUS
  <2> QED BY <2>1, <2>2, <2>3
<1>2. \A x \in Seen(s)' : \E z \in Seen(s) : x <= z
  <2>1. Seen(s)' = PastEvents(s)' \union BatchEvents(s)'
                   \union (IF InHand(s)' THEN {Reached(s)'} ELSE {})
    BY DEF Seen, Past
  <2>2. Seen(s) \subseteq Int
    BY SeenIs
  <2>3. \A x \in Int : x <= x
    OBVIOUS
  <2> QED BY <2>1, <2>2, <2>3
<1> QED BY <1>1, <1>2 DEF Covers

\* Which steps are of a batch.
LEMMA OneWriter ==
  ASSUME NEW s \in Session, OnlyIn(s), writer' = writer \/ writer'[s] \in {writer[s], NoWriter}
  PROVE  \A t \in Session : writer'[t] = writer[t] \/ writer'[t] = NoWriter
BY DEF OnlyIn

LEMMA OneRecord ==
  ASSUME NEW s \in Session, OnlyIn(s), disk'[s].chunks \subseteq disk[s].chunks
  PROVE  \A t \in Session : disk'[t].chunks \subseteq disk[t].chunks
BY DEF OnlyIn

LEMMA SealOrders ==
  ASSUME WorkerTypes, Control, StepOrder, NEW s \in Session, Compress(s) \/ Discard(s),
         handling.op # "append"
  PROVE  StepOrder' /\ Covers
<1>1. /\ WorkerTypes' /\ OnlyIn(s) /\ Rows(s) /\ writer'[s] = NoWriter /\ handling' = handling
      /\ step'.at \in {"unlink", "finish", "close", "recover"}
  <2>1. CASE Compress(s)
    BY <2>1, CompressDoes DEF OnlyIn
  <2>2. CASE Discard(s)
    <3>1. /\ WorkerTypes' /\ OnlyIn(s) /\ Rows(s) /\ writer'[s] = NoWriter /\ step' = Sealed(step)
          /\ handling.op \in {"finish", "close"}
      BY <2>2, DiscardDoes
    <3>2. step'.at \in {"finish", "close"}
      BY <3>1, SealedIs
    <3> QED BY <3>1, <3>2 DEF OnlyIn
  <2> QED BY <2>1, <2>2
<1>2. ~Batch /\ ~Batch'
  BY <1>1 DEF Batch
<1>3. \A t \in Session : writer'[t] = writer[t] \/ writer'[t] = NoWriter
  BY <1>1, OneWriter
<1>4. \A t \in Session : disk'[t].chunks \subseteq disk[t].chunks
  BY <1>1, OneRecord DEF Rows
<1> QED BY <1>1, <1>2, <1>3, <1>4, QuietKeeps

LEMMA UnlinkOrders ==
  ASSUME WorkerTypes, Control, StepOrder, Unlink \/ Enter, handling.op # "append"
  PROVE  StepOrder' /\ Covers
<1> DEFINE s == step.s
<1>1. /\ WorkerTypes' /\ OnlyIn(s) /\ disk'[s].chunks = disk[s].chunks /\ writer' = writer
      /\ handling' = handling /\ step'.at \in {"enter", "finish", "close", "recover"}
  <2>1. CASE Unlink
    BY <2>1, UnlinkDoes DEF OnlyIn, Rows
  <2>2. CASE Enter
    <3>1. /\ WorkerTypes' /\ OnlyIn(s) /\ writer' = writer /\ disk'[s].chunks = disk[s].chunks
          /\ step' = Sealed(step) /\ handling.op \in {"append", "finish", "close", "idle"}
      BY <2>2, EnterDoes
    <3>2. step'.at \in {"finish", "close", "recover"}
      BY <3>1, SealedIs
    <3> QED BY <3>1, <3>2 DEF OnlyIn
  <2> QED BY <2>1, <2>2
<1>2. ~Batch /\ ~Batch' /\ s \in Session
  BY <1>1 DEF Batch, OnlyIn
<1>3. \A t \in Session : writer'[t] = writer[t] \/ writer'[t] = NoWriter
  BY <1>1
<1>4. \A t \in Session : disk'[t].chunks \subseteq disk[t].chunks
  BY <1>1, <1>2, OneRecord
<1> QED BY <1>1, <1>2, <1>3, <1>4, QuietKeeps

\* The steps of records: none is of a batch.
LEMMA RecordOrders ==
  ASSUME WorkerTypes, Control, StepOrder,
         \/ OpenPart /\ step.at = "open"
         \/ Insert /\ Fresh(handling.s)
         \/ FinishRecord \/ Delete \/ Disconnect
         \/ \E s \in Session : Trash(s) \/ Recovered(s)
                               \/ \E p \in DOMAIN disk[s].partial : RecoverPart(s, p)
  PROVE  StepOrder' /\ Covers
<1>1. CASE OpenPart /\ step.at = "open"
  <2> DEFINE s == step.s
  <2>1. /\ WorkerTypes' /\ OnlyIn(s) /\ Rows(s) /\ writer'[s].part = step.p
        /\ writer'[s].count = 0 /\ handling.op = "begin" /\ step' = Doing("done")
    BY <1>1, OpenDoes
  <2>2. step.p = 1
    BY <1>1 DEF Control, StepFollows
  <2>3. ~Batch /\ ~Batch' /\ s \in Session /\ handling' = handling /\ step'.at = "done"
    BY <1>1, <2>1, RestIsTyped DEF Batch, OnlyIn, Phases
  <2>4. \A t \in Session : writer'[t] = writer[t]
                           \/ (writer'[t].part = 1 /\ writer'[t].count = 0)
    BY <2>1, <2>2 DEF OnlyIn
  <2>5. \A t \in Session : disk'[t].chunks \subseteq disk[t].chunks
    BY <2>1, <2>3, OneRecord DEF Rows
  <2> QED BY <2>1, <2>3, <2>4, <2>5, QuietKeeps
<1>2. CASE Insert /\ Fresh(handling.s)
  <2> DEFINE s == handling.s
  <2>1. /\ WorkerTypes' /\ OnlyIn(s) /\ writer' = writer /\ disk'[s].chunks = disk[s].chunks
        /\ step.at = "retain" /\ step' = DoingPart("open", s, 1) /\ s \in Session
    BY <1>2, InsertDoes DEF OnlyIn
  <2>2. s \in Nat
    BY <2>1 DEF Session
  <2>3. step'.at = "open" /\ step'.s = s
    BY <2>1, <2>2, RestIsTyped DEF Phases
  <2>4. disk'[s] = [NewRecord EXCEPT !.status = "active", !.part = 1]
    BY <1>2, <2>1 DEF Insert, On, Fresh, WorkerTypes
  <2>5. ~Batch /\ ~Batch'
    BY <2>1, <2>3 DEF Batch
  <2>6. \A t \in Session : disk'[t].chunks \subseteq disk[t].chunks
    BY <2>1, OneRecord
  <2> QED BY <2>1, <2>3, <2>4, <2>5, <2>6, QuietKeeps
<1>3. CASE FinishRecord \/ Delete
  <2> DEFINE s == step.s
  <2>1. /\ WorkerTypes' /\ OnlyIn(s) /\ writer' = writer
        /\ disk'[s].chunks \subseteq disk[s].chunks
        /\ step.at \in {"finish", "delete"} /\ step' \in {Doing("retain"), Doing("idle")}
        /\ s \in Session
    BY <1>3, FinishDoes, DeleteDoes DEF OnlyIn
  <2>2. step'.at \in {"retain", "idle"}
    BY <2>1, RestIsTyped DEF Phases
  <2>3. ~Batch /\ ~Batch'
    BY <2>1, <2>2 DEF Batch
  <2>4. \A t \in Session : disk'[t].chunks \subseteq disk[t].chunks
    BY <2>1, OneRecord
  <2> QED BY <2>1, <2>2, <2>3, <2>4, QuietKeeps
<1>4. CASE Disconnect
  <2>1. /\ WorkerTypes' /\ writer' = writer /\ step.at = "close" /\ step' = Doing("done")
        /\ \A t \in Session : disk'[t].chunks = disk[t].chunks
    BY <1>4, DisconnectDoes
  <2>2. step'.at = "done"
    BY <2>1, RestIsTyped DEF Phases
  <2>3. ~Batch /\ ~Batch'
    BY <2>1, <2>2 DEF Batch
  <2> QED BY <2>1, <2>2, <2>3, QuietKeeps
<1>5. ASSUME NEW s \in Session, Trash(s) \/ Recovered(s)
                               \/ \E p \in DOMAIN disk[s].partial : RecoverPart(s, p)
      PROVE  StepOrder' /\ Covers
  <2>1. /\ WorkerTypes' /\ OnlyIn(s) /\ writer' = writer /\ disk'[s].chunks = disk[s].chunks
        /\ step'.at \in {"delete", "idle", "recover", "unlink"}
        /\ step'.at = "unlink" => handling'.op = "idle"
        /\ step.at \in {"trash", "idle", "retain", "recover"}
    <3>1. CASE Trash(s)
      BY <3>1, TrashDoes DEF Rows
    <3>2. CASE Recovered(s)
      <4>1. /\ WorkerTypes' /\ OnlyIn(s) /\ writer' = writer /\ disk'[s].chunks = disk[s].chunks
            /\ step' = Doing(IF Active = {s} THEN "idle" ELSE "recover") /\ step.at = "recover"
        BY <3>2, RecoveredDoes
      <4>2. step'.at \in {"idle", "recover"}
        BY <4>1, RestIsTyped DEF Phases
      <4> QED BY <4>1, <4>2
    <3>3. CASE \E p \in DOMAIN disk[s].partial : RecoverPart(s, p)
      BY <3>3, RecoverPartDoes, HandlingIs DEF Rows, OnlyIn
    <3> QED BY <1>5, <3>1, <3>2, <3>3
  <2>2. ~Batch /\ ~Batch'
    BY <2>1 DEF Batch
  <2>3. \A t \in Session : disk'[t].chunks \subseteq disk[t].chunks
    BY <2>1, OneRecord
  <2> QED BY <2>1, <2>2, <2>3, QuietKeeps
<1> QED BY <1>1, <1>2, <1>3, <1>4, <1>5

\* What a batch has seen, for its own session.
LEMMA BatchSees ==
  ASSUME WorkerTypes, NEW s \in Session, Batch, step.s = s
  PROVE  /\ InHand(s) /\ BatchRows(s) = step.rows /\ BatchEvents(s) = Range(step.es)
         /\ Reached(s) \in Seen(s) /\ PastEvents(s) \subseteq Seen(s)
         /\ Range(step.es) \subseteq Seen(s) /\ Reached(s) \in Int
         /\ Reached(s) \in Past(s) /\ PastEvents(s) \subseteq Past(s)
<1>1. writer[s].part \in Int /\ step.p \in Int
  BY DiskIs, StepIs
<1> QED BY <1>1 DEF InHand, BatchRows, BatchEvents, Seen, Past, Reached, Top

\* Past() only shrinks, while the events of the batch stay the same.
LEMMA SameBatch ==
  ASSUME WorkerTypes, WorkerTypes', StepOrder, NEW s \in Session, OnlyIn(s), Batch, step.s = s,
         Batch', step'.s = s, step'.es = step.es, step'.rows = step.rows,
         disk'[s].chunks \subseteq disk[s].chunks, Reached(s)' = Reached(s),
         writer'[s].count <= PartSize, (s \in Writing)' => writer'[s].part >= 1,
         step'.at = "write" => writer'[s].count < PartSize,
         step'.at \in {"trim", "forget"} => writer'[s].count = 0,
         step'.at \notin {"seal", "open"}
  PROVE  StepOrder' /\ Covers
<1>1. /\ InHand(s) /\ Reached(s) \in Seen(s) /\ Reached(s) \in Int
      /\ PastEvents(s) \subseteq Seen(s) /\ Range(step.es) \subseteq Seen(s)
      /\ BatchRows(s) = step.rows /\ BatchEvents(s) = Range(step.es)
      /\ Reached(s) \in Past(s) /\ PastEvents(s) \subseteq Past(s)
  BY BatchSees
<1>2. BatchRows(s)' = step.rows /\ BatchEvents(s)' = Range(step.es) /\ InHand(s)'
  BY DEF BatchRows, BatchEvents, InHand
<1>3. PastEvents(s)' \subseteq PastEvents(s)
  BY <1>1, <1>2 DEF PastEvents
<1>4. Covers
  <2>1. Reached(s)' <= Reached(s)
    BY <1>1
  <2> QED BY <1>1, <1>2, <1>3, <2>1, BatchKeeps
<1>5. Past(s)' \subseteq Past(s)
  BY <1>1, <1>3 DEF Past
<1>6. Ascends(step.es) /\ Range(step.es) \subseteq Event /\ Before(Past(s), Range(step.es))
  BY DEF StepOrder
<1>7. Before(Past(s)', Range(step.es))
  BY <1>5, <1>6 DEF Before
<1>8. \A t \in Session : writer'[t].count <= PartSize /\ ((t \in Writing)' => writer'[t].part >= 1)
  <2>1. \A t \in Session : t # s => writer'[t] = writer[t]
    BY DEF OnlyIn
  <2> QED BY <2>1 DEF StepOrder, Writing
<1> QED BY <1>4, <1>6, <1>7, <1>8 DEF StepOrder

LEMMA SealingOrders ==
  ASSUME WorkerTypes, Control, StepOrder, NEW s \in Session, Compress(s) \/ Discard(s),
         handling.op = "append"
  PROVE  StepOrder' /\ Covers
<1>1. step.at = "seal" /\ step.s = s /\ s \in Writing /\ PartSize \in Nat \ {0}
  BY CompressDoes, DiscardDoes, WorkerAssumption
<1>2. writer[s].count = PartSize /\ Batch
  BY <1>1 DEF StepOrder, Batch
<1>3. Compress(s)
  BY <1>1, <1>2 DEF Discard
<1>4. /\ WorkerTypes' /\ OnlyIn(s) /\ Rows(s) /\ writer'[s] = NoWriter
      /\ step'.at = "unlink" /\ step'.s = s /\ step'.p = writer[s].part
      /\ step'.es = step.es /\ step'.rows = step.rows /\ handling' = handling
  BY <1>3, CompressDoes DEF OnlyIn
<1>5. Batch' /\ ~(s \in Writing)'
  BY <1>4 DEF Batch, Writing
<1>6. Reached(s)' = Reached(s)
  BY <1>1, <1>2, <1>4, <1>5 DEF Reached, Count, Top
<1>7. writer'[s].count <= PartSize
  BY <1>1, <1>4 DEF NoWriter
<1> QED BY <1>1, <1>2, <1>4, <1>5, <1>6, <1>7, SameBatch DEF Rows

\* Steps of the worker that leave the writers alone.
LEMMA FilesOrder ==
  ASSUME WorkerTypes, Control, StepOrder,
         \/ Unlink /\ handling.op = "append"
         \/ Enter /\ handling.op = "append"
         \/ Forget
         \/ \E p : RemovePart(p)
  PROVE  StepOrder' /\ Covers
<1> DEFINE s == step.s
<1>1. /\ WorkerTypes' /\ OnlyIn(s) /\ writer' = writer /\ step'.s = s
      /\ disk'[s].chunks \subseteq disk[s].chunks /\ handling.op = "append"
      /\ step'.es = step.es /\ step'.rows = step.rows
      /\ \/ step.at = "unlink" /\ step'.at = "enter" /\ step'.p = step.p
         \/ step.at = "enter" /\ step'.at = "rotate" /\ step'.p = step.p + 1
         \/ step.at = "forget" /\ step'.at \in {"trim", "write"}
         \/ step.at = "trim" /\ step'.at = "forget"
  <2>1. CASE Unlink /\ handling.op = "append"
    BY <2>1, UnlinkDoes DEF Rows
  <2>2. CASE Enter /\ handling.op = "append"
    BY <2>2, EnterDoes, SealedIs
  <2>3. CASE Forget
    BY <2>3, ForgetDoes DEF Control, StepFollows
  <2>4. ASSUME NEW p, RemovePart(p)
        PROVE  /\ WorkerTypes' /\ OnlyIn(s) /\ writer' = writer /\ step'.s = s
               /\ disk'[s].chunks \subseteq disk[s].chunks /\ handling.op = "append"
               /\ step'.es = step.es /\ step'.rows = step.rows
               /\ step.at = "trim" /\ step'.at = "forget"
    BY <2>4, RemovePartDoes DEF Control, StepFollows, Rows
  <2> QED BY <2>1, <2>2, <2>3, <2>4
<1>2. s \in Session /\ handling' = handling
  BY <1>1 DEF OnlyIn
<1>3. Batch /\ Batch' /\ (s \in Writing)' = (s \in Writing)
  BY <1>1, <1>2 DEF Batch, Writing
<1>4. step.at \in {"trim", "forget"} => s \in Writing /\ writer[s].count = 0
  BY DEF StepOrder, Control, WriterFollows
<1>5. step.at \in {"unlink", "enter"} => s \notin Writing
  BY DEF Control, WriterFollows
<1>6. PartSize \in Nat \ {0} /\ step.p \in Nat
  BY WorkerAssumption, StepIs
<1>7. Reached(s)' = Reached(s)
  <2>1. CASE step.at \in {"trim", "forget"}
    BY <1>1, <1>3, <1>4, <2>1 DEF Reached, Count, Top
  <2>2. CASE step.at = "unlink"
    BY <1>1, <1>3, <1>5, <2>2 DEF Reached, Count, Top
  <2>3. CASE step.at = "enter"
    <3>1. (step.p + 1) - 1 = step.p
      BY <1>6
    <3> QED BY <1>1, <1>3, <1>5, <1>6, <2>3, <3>1 DEF Reached, Count, Top
  <2> QED BY <1>1, <2>1, <2>2, <2>3
<1>8. /\ writer'[s].count <= PartSize /\ ((s \in Writing)' => writer'[s].part >= 1)
      /\ step'.at = "write" => writer'[s].count < PartSize
      /\ step'.at \in {"trim", "forget"} => writer'[s].count = 0
      /\ step'.at \notin {"seal", "open"}
  <2>1. writer[s].count <= PartSize /\ (s \in Writing => writer[s].part >= 1)
    BY <1>2 DEF StepOrder
  <2> QED BY <1>1, <1>3, <1>4, <1>6, <2>1
<1> QED BY <1>1, <1>2, <1>3, <1>7, <1>8, SameBatch

LEMMA RotateOrders ==
  ASSUME WorkerTypes, Control, StepOrder, NEW s, s = step.s, OpenPart, step.at = "rotate"
  PROVE  StepOrder' /\ Covers
<1>1. /\ WorkerTypes' /\ OnlyIn(s) /\ Rows(s) /\ writer'[s].part = step.p /\ writer'[s].count = 0
      /\ handling.op = "append" /\ step' = Trimming(step, disk[s].parts)
  BY OpenDoes
<1>2. /\ step'.at \in {"trim", "write"} /\ step'.s = s /\ step'.es = step.es
      /\ step'.rows = step.rows
  BY <1>1, TrimmingIs DEF WorkerTypes
<1>3. s \in Session /\ handling' = handling /\ s \notin Writing /\ step.p # 0 /\ step.p \in Nat
  BY <1>1, StepIs DEF OnlyIn, Control, WriterFollows, StepFollows
<1>4. Batch /\ Batch' /\ (s \in Writing)' /\ PartSize \in Nat \ {0}
  <2>1. writer'[s] # NoWriter
    BY <1>1, <1>3 DEF NoWriter
  <2> QED BY <1>1, <1>2, <1>3, <2>1, WorkerAssumption DEF Batch, Writing
<1>5. Reached(s)' = Reached(s)
  BY <1>1, <1>3, <1>4 DEF Reached, Count, Top
<1>6. step.p >= 1 /\ 0 <= PartSize /\ 0 < PartSize
  BY <1>3, <1>4
<1>7. disk'[s].chunks \subseteq disk[s].chunks
  BY <1>1 DEF Rows
<1> QED BY <1>1, <1>2, <1>3, <1>4, <1>5, <1>6, <1>7, SameBatch

LEMMA CommitOrders ==
  ASSUME WorkerTypes, Control, StepOrder, NEW s, s = step.s, CommitRows
  PROVE  StepOrder' /\ Covers
<1>1. /\ WorkerTypes' /\ OnlyIn(s) /\ writer' = writer
      /\ disk'[s].chunks = disk[s].chunks \union step.rows /\ step.at = "commit"
      /\ handling.op = "append" /\ step' = Doing("retain")
  BY CommitDoes
<1>2. step'.at = "retain" /\ s \in Session /\ Batch /\ ~Batch'
      /\ (s \in Writing)' = (s \in Writing) /\ s \in Writing
  BY <1>1, RestIsTyped DEF Batch, OnlyIn, Phases, Writing, Control, WriterFollows
<1>3. /\ Reached(s) \in Seen(s) /\ PastEvents(s) \subseteq Seen(s) /\ Reached(s) \in Int
      /\ BatchRows(s) = step.rows
  BY <1>2, BatchSees
<1>4. BatchRows(s)' = {} /\ BatchEvents(s)' = {}
  BY <1>2 DEF BatchRows, BatchEvents
<1>5. PastEvents(s)' \subseteq PastEvents(s)
  BY <1>1, <1>3, <1>4 DEF PastEvents
<1>6. Reached(s)' <= Reached(s)
  <2>1. Reached(s)' = Reached(s)
    BY <1>1, <1>2 DEF Reached, Count, Top
  <2> QED BY <1>3, <2>1
<1>7. Covers
  BY <1>1, <1>2, <1>3, <1>4, <1>5, <1>6, BatchKeeps
<1>8. StepOrder'
  <2>1. Writing' = Writing
    BY <1>1 DEF Writing
  <2> QED BY <1>1, <1>2, <2>1 DEF StepOrder
<1> QED BY <1>7, <1>8

\* A batch in order: its first event is before the others.
LEMMA HeadFirst ==
  ASSUME NEW es \in Seq(Nat), es # <<>>, Ascends(es)
  PROVE  /\ Head(es) \in Range(es) /\ Range(Tail(es)) \subseteq Range(es)
         /\ Ascends(Tail(es)) /\ \A y \in Range(Tail(es)) : Head(es) < y
<1>1. /\ Len(es) \in Nat /\ Len(es) >= 1 /\ DOMAIN es = 1 .. Len(es) /\ Head(es) = es[1]
      /\ Tail(es) \in Seq(Nat) /\ Len(Tail(es)) = Len(es) - 1
      /\ DOMAIN Tail(es) = 1 .. Len(es) - 1
      /\ \A i \in 1 .. Len(es) - 1 : Tail(es)[i] = es[i + 1] /\ i + 1 \in 1 .. Len(es)
  BY HeadTailProperties, LenProperties
<1>2. 1 \in DOMAIN es /\ \A i \in 1 .. Len(es) - 1 : 1 < i + 1
  BY <1>1
<1>3. \A i, j \in 1 .. Len(es) - 1 : i < j => i + 1 < j + 1
  BY <1>1
<1>4. Head(es) \in Range(es)
  BY <1>1, <1>2 DEF Range
<1>5. \A y \in Range(Tail(es)) : \E i \in 1 .. Len(es) - 1 : y = es[i + 1] /\ i + 1 \in DOMAIN es
  BY <1>1 DEF Range
<1>6. Range(Tail(es)) \subseteq Range(es)
  BY <1>5 DEF Range
<1>7. \A y \in Range(Tail(es)) : Head(es) < y
  BY <1>1, <1>2, <1>5 DEF Ascends
<1>8. Ascends(Tail(es))
  <2>1. \A i, j \in 1 .. Len(es) - 1 : i < j => es[i + 1] < es[j + 1]
    BY <1>1, <1>3 DEF Ascends
  <2> QED BY <1>1, <2>1 DEF Ascends
<1> QED BY <1>4, <1>6, <1>7, <1>8

LEMMA WriteOrders ==
  ASSUME WorkerTypes, Control, StepOrder, NEW s, s = step.s,
         NEW e, e = Head(step.es), NEW p, p = writer[s].part, Write
  PROVE  StepOrder' /\ Covers
<1>1. /\ WorkerTypes' /\ OnlyIn(s) /\ Rows(s) /\ e \in Nat
      /\ writer'[s].part = p /\ writer'[s].count = writer[s].count + 1
      /\ step'.at = IF step'.es = <<>> THEN "commit"
                    ELSE IF Full(writer'[s]) THEN "seal" ELSE "write"
      /\ step'.s = s /\ step'.es = Tail(step.es) /\ step'.rows = step.rows \union {<<e, p>>}
  BY WriteDoes
<1>2. /\ step.at = "write" /\ handling.op = "append" /\ s \in Writing /\ step.es # <<>>
      /\ s \in Session /\ handling' = handling /\ writer[s].count < PartSize
      /\ p \in Nat /\ p >= 1 /\ writer[s].count \in Nat /\ PartSize \in Nat \ {0}
      /\ step.es \in Seq(Nat)
  <2>1. step.at = "write" /\ s \in Session /\ handling' = handling
    BY <1>1 DEF Write, OnlyIn
  <2>2. handling.op = "append" /\ s \in Writing /\ step.es # <<>>
    BY <2>1 DEF Control, StepFollows, WriterFollows
  <2>3. writer[s].count < PartSize /\ p >= 1
    BY <2>1, <2>2 DEF StepOrder
  <2> QED BY <2>1, <2>2, <2>3, DiskIs, StepIs, WorkerAssumption
<1>3. Batch /\ Batch' /\ (s \in Writing)'
  <2>1. writer'[s] # NoWriter
    BY <1>1, <1>2 DEF NoWriter
  <2>2. step'.at \in {"commit", "seal", "write"}
    BY <1>1
  <2> QED BY <1>2, <2>1, <2>2 DEF Batch, Writing
<1>4. /\ Ascends(step.es) /\ Range(step.es) \subseteq Event /\ Before(Past(s), Range(step.es))
  BY <1>3 DEF StepOrder
<1>5. /\ e \in Range(step.es) /\ Range(Tail(step.es)) \subseteq Range(step.es)
      /\ Ascends(Tail(step.es)) /\ \A y \in Range(Tail(step.es)) : e < y
  BY <1>2, <1>4, HeadFirst
<1>6. /\ Reached(s) \in Seen(s) /\ PastEvents(s) \subseteq Seen(s) /\ Reached(s) \in Int
      /\ Range(step.es) \subseteq Seen(s) /\ Reached(s) \in Past(s)
      /\ PastEvents(s) \subseteq Past(s) /\ BatchRows(s) = step.rows
  BY <1>2, <1>3, BatchSees
<1>7. BatchRows(s)' = step.rows \union {<<e, p>>} /\ BatchEvents(s)' = Range(Tail(step.es))
      /\ InHand(s)' /\ disk'[s].chunks = disk[s].chunks
  BY <1>1, <1>3 DEF BatchRows, BatchEvents, InHand, Rows
<1>8. PastEvents(s)' = PastEvents(s) \union {e}
  <2>1. <<e, p>>[1] = e
    OBVIOUS
  <2>2. {r[1] : r \in step.rows \union {<<e, p>>}} = {r[1] : r \in step.rows} \union {e}
    BY <2>1
  <2> QED BY <1>6, <1>7, <2>2 DEF PastEvents
<1>9. Reached(s)' = p /\ p <= e
  <2>1. Reached(s)' = p
    BY <1>1, <1>2, <1>3 DEF Reached, Count, Top
  <2>2. Reached(s) < e
    BY <1>4, <1>5, <1>6 DEF Before
  <2>3. Reached(s) = p \/ Reached(s) = p - 1
    BY <1>2 DEF Reached, Top
  <2> QED BY <1>1, <1>2, <2>1, <2>2, <2>3
<1>10. Covers
  <2>1. PastEvents(s)' \subseteq Seen(s) /\ BatchEvents(s)' \subseteq Seen(s)
    BY <1>5, <1>6, <1>7, <1>8
  <2>2. \E z \in Seen(s) : Reached(s)' <= z
    BY <1>5, <1>6, <1>9
  <2> QED BY <1>1, <1>2, <1>3, <2>1, <2>2, BatchKeeps
<1>11. Before(Past(s)', Range(Tail(step.es)))
  <2>1. Past(s)' = PastEvents(s) \union {e} \union {p}
    BY <1>7, <1>8, <1>9 DEF Past
  <2>2. \A y \in Range(Tail(step.es)) : e < y /\ y \in Int
    BY <1>4, <1>5 DEF Event
  <2>3. \A y \in Int : e < y => p < y
    BY <1>1, <1>2, <1>9
  <2> QED BY <1>4, <1>5, <1>6, <2>1, <2>2, <2>3 DEF Before
<1>12. \A t \in Session : writer'[t].count <= PartSize /\ ((t \in Writing)' => writer'[t].part >= 1)
  <2>1. \A t \in Session : t # s => writer'[t] = writer[t]
    BY <1>1 DEF OnlyIn
  <2>2. writer'[s].count <= PartSize /\ writer'[s].part >= 1
    BY <1>1, <1>2
  <2> QED BY <2>1, <2>2 DEF StepOrder, Writing
<1>13. /\ step'.at = "write" => writer'[s].count < PartSize
       /\ step'.at = "seal" => writer'[s].count = PartSize
  <2>1. Full(writer'[s]) = (writer'[s].count > 0 /\ writer'[s].count + 1 > PartSize)
    BY DEF Full
  <2>2. step'.at = "seal" => Full(writer'[s])
    BY <1>1
  <2>3. step'.at = "write" => ~Full(writer'[s])
    BY <1>1
  <2>4. writer'[s].count \in Nat /\ writer'[s].count <= PartSize /\ writer'[s].count > 0
    <3>1. \A c, d \in Nat : c < d => c + 1 \in Nat /\ c + 1 <= d /\ c + 1 > 0
      OBVIOUS
    <3>2. PartSize \in Nat
      BY <1>2
    <3>3. LET c == writer[s].count
          IN  c + 1 \in Nat /\ c + 1 <= PartSize /\ c + 1 > 0
      BY <1>2, <3>1, <3>2
    <3>4. writer'[s].count = writer[s].count + 1
      BY <1>1
    <3> QED BY <3>3, <3>4
  <2>5. /\ Full(writer'[s]) => writer'[s].count = PartSize
        /\ ~Full(writer'[s]) => writer'[s].count < PartSize
    <3>1. \A c, d \in Nat : c <= d /\ c > 0 =>
             IF c > 0 /\ c + 1 > d THEN c = d ELSE c < d
      OBVIOUS
    <3>2. PartSize \in Nat
      BY <1>2
    <3> QED BY <2>1, <2>4, <3>1, <3>2
  <2> QED BY <2>2, <2>3, <2>5
<1>14. step'.at \notin {"trim", "forget", "open"}
  BY <1>1
<1>15. Range(step'.es) \subseteq Event
  BY <1>1, <1>4, <1>5
<1> QED BY <1>1, <1>5, <1>10, <1>11, <1>12, <1>13, <1>14, <1>15 DEF StepOrder

LEMMA HandlerOrders ==
  ASSUME WorkerTypes, Control, StepOrder, NEW n, Begins(inbox, n), HandlerStep
  PROVE  StepOrder' /\ Covers
<1>1. CASE OpenPart
  <2>1. step.at \in {"open", "rotate"}
    BY <1>1 DEF OpenPart
  <2> QED BY <1>1, <2>1, RecordOrders, RotateOrders
<1>2. CASE Write BY <1>2, WriteOrders
<1>3. CASE Unlink \/ Enter BY <1>3, UnlinkOrders, FilesOrder
<1>4. CASE Forget \/ \E p : RemovePart(p) BY <1>4, FilesOrder
<1>5. CASE CommitRows BY <1>5, CommitOrders
<1>6. CASE Insert
  <2>1. Fresh(handling.s)
    BY <1>6 DEF Insert, Begins
  <2> QED BY <1>6, <2>1, RecordOrders
<1>7. CASE FinishRecord \/ Delete \/ Disconnect BY <1>7, RecordOrders
<1>8. ASSUME NEW s \in Session, Compress(s) \/ Discard(s)
      PROVE  StepOrder' /\ Covers
  BY <1>8, SealOrders, SealingOrders
<1>9. ASSUME NEW s \in Session,
             Trash(s) \/ Recovered(s) \/ \E p \in DOMAIN disk[s].partial : RecoverPart(s, p)
      PROVE  StepOrder' /\ Covers
  BY <1>9, RecordOrders
<1> QED BY <1>1, <1>2, <1>3, <1>4, <1>5, <1>6, <1>7, <1>8, <1>9 DEF HandlerStep

LEMMA SeenLater ==
  ASSUME WorkerTypes', NEW s \in Session
  PROVE  Seen(s)' \subseteq Int
<1>1. /\ disk'[s] \in Record /\ writer'[s] \in WriterState /\ step' \in StepState
  BY DEF WorkerTypes
<1>2. /\ disk'[s].chunks \in SUBSET Row /\ step'.rows \in SUBSET Row /\ step'.es \in Seq(Nat)
      /\ writer'[s].part \in Nat /\ step'.p \in Nat
  BY <1>1 DEF Record, WriterState, StepState
<1>3. \A r \in Row : r[1] \in Nat
  BY DEF Row
<1>4. PastEvents(s)' \subseteq Nat
  BY <1>2, <1>3 DEF PastEvents, BatchRows
<1>5. BatchEvents(s)' \subseteq Nat
  BY <1>2, ElementOfSeq DEF BatchEvents, Range
<1>6. Top(s)' \in Int /\ Reached(s)' \in Int
  BY <1>2 DEF Top, Reached
<1> QED BY <1>4, <1>5, <1>6 DEF Seen, Past

\* The queue loses at most its first message, whose events count as seen.
LEMMA OrderedMoves ==
  ASSUME WorkerTypes, WorkerTypes', NEW q \in Seq(Msg), NEW a \in MainState, Ordered(q, a),
         a.enabled => a.s \in Session, NEW r \in Seq(Msg), NEW d \in {0, 1},
         \A i \in DOMAIN r : i + d \in DOMAIN q /\ r[i] = q[i + d],
         \A s \in Session : \A x \in Seen(s)' :
           \/ x <= 0
           \/ \E z \in Seen(s) : x <= z
           \/ d = 1 /\ 1 \in DOMAIN q /\ q[1].op = "append" /\ q[1].s = s /\ x \in Range(q[1].es)
  PROVE  Ordered(r, a)'
<1>1. /\ \A i \in DOMAIN q : i \in Nat /\ i >= 1
      /\ \A i \in DOMAIN r : i \in Nat /\ i >= 1
      /\ \A i \in DOMAIN q : q[i].op = "append" => q[i].s \in Session
  BY QueueFacts
<1>2. \A s \in Session : Seen(s) \subseteq Int /\ Seen(s)' \subseteq Int
  BY SeenIs, SeenLater
<1>3. \A s \in Session : \A y \in Int : y >= 1 /\ (\A z \in Seen(s) : z < y) =>
        \A x \in Seen(s)' : x < y \/ (d = 1 /\ 1 \in DOMAIN q /\ q[1].op = "append"
                                      /\ q[1].s = s /\ x \in Range(q[1].es))
  <2> SUFFICES ASSUME NEW s \in Session, NEW y \in Int, y >= 1, \A z \in Seen(s) : z < y,
                      NEW x \in Seen(s)'
               PROVE  x < y \/ (d = 1 /\ 1 \in DOMAIN q /\ q[1].op = "append"
                                /\ q[1].s = s /\ x \in Range(q[1].es))
    OBVIOUS
  <2>1. x \in Int /\ Seen(s) \subseteq Int
    BY <1>2
  <2>2. CASE x <= 0
    BY <2>1, <2>2
  <2>3. ASSUME NEW z \in Seen(s), x <= z
        PROVE  x < y
    BY <2>1, <2>3
  <2> QED BY <2>2, <2>3
<1>4. Event \subseteq Int /\ \A y \in Event : y >= 1
  BY DEF Event
<1>5. ASSUME NEW i \in DOMAIN r, r[i].op = "append"
      PROVE  /\ r[i].es # <<>> /\ Ascends(r[i].es) /\ Fits(r[i].es)
             /\ Range(r[i].es) \subseteq Event
             /\ Before(Seen(r[i].s)', Range(r[i].es))
             /\ Recorded(a, r[i].s) => /\ Before(Range(r[i].es), Range(a.pending))
                                       /\ \A y \in Range(r[i].es) : y <= a.seq
  <2> DEFINE m == r[i]
  <2>1. i + d \in DOMAIN q /\ m = q[i + d] /\ (d = 1 => i + d > 1)
    BY <1>1
  <2> HIDE DEF m
  <2>2. /\ m.es # <<>> /\ Ascends(m.es) /\ Fits(m.es)
        /\ Range(m.es) \subseteq Event
        /\ Before(Seen(m.s), Range(m.es))
        /\ Recorded(a, m.s) => /\ Before(Range(m.es), Range(a.pending))
                                  /\ \A y \in Range(m.es) : y <= a.seq
        /\ m.s \in Session
    BY <1>1, <1>5, <2>1 DEF Ordered, m
  <2>3. d = 1 /\ 1 \in DOMAIN q /\ q[1].op = "append" /\ q[1].s = m.s
          => Before(Range(q[1].es), Range(m.es))
    BY <1>5, <2>1 DEF Ordered, m
  <2>4. ASSUME NEW x \in Seen(m.s)', NEW y \in Range(m.es)
        PROVE  x < y
    <3>1. y \in Int /\ y >= 1 /\ \A z \in Seen(m.s) : z < y
      BY <1>4, <2>2 DEF Before
    <3> QED BY <1>3, <2>2, <2>3, <3>1 DEF Before
  <2>5. Before(Seen(m.s)', Range(m.es))
    BY <2>4 DEF Before
  <2> QED BY <2>2, <2>5 DEF m
<1>6. ASSUME NEW i \in DOMAIN r, NEW j \in DOMAIN r, i < j, r[i].op = "append",
             r[j].op = "append", r[i].s = r[j].s
      PROVE  Before(Range(r[i].es), Range(r[j].es))
  <2>1. i + d \in DOMAIN q /\ j + d \in DOMAIN q /\ i + d < j + d
        /\ r[i] = q[i + d] /\ r[j] = q[j + d]
    BY <1>1, <1>6
  <2> QED BY <1>6, <2>1 DEF Ordered
<1>7. ASSUME a.enabled
      PROVE  Before(Seen(a.s)', Range(a.pending)) /\ \A x \in Seen(a.s)' : x <= a.seq
  <2>1. a.s \in Session /\ a.seq \in Nat
    BY <1>7 DEF MainState
  <2>2. /\ \A z \in Range(a.pending) : z \in Int /\ 1 <= z /\ \A x \in Seen(a.s) : x < z
        /\ \A x \in Seen(a.s) : x <= a.seq
    <3>1. Range(a.pending) \subseteq Int
      BY ElementOfSeq DEF MainState, Range
    <3> QED BY <1>7, <3>1 DEF Ordered, Before
  <2>3. d = 1 /\ 1 \in DOMAIN q /\ q[1].op = "append" /\ q[1].s = a.s =>
          /\ Before(Range(q[1].es), Range(a.pending))
          /\ \A y \in Range(q[1].es) : y <= a.seq
    BY <1>7 DEF Ordered, Recorded
  <2>4. Before(Seen(a.s)', Range(a.pending))
    BY <1>3, <2>1, <2>2, <2>3 DEF Before
  <2>5. \A x \in Seen(a.s)' : x <= a.seq
    <3> SUFFICES ASSUME NEW x \in Seen(a.s)'
                 PROVE  x <= a.seq
      OBVIOUS
    <3>1. x \in Int /\ Seen(a.s) \subseteq Int
      BY <1>2, <2>1
    <3>2. a.seq + 1 \in Int /\ a.seq + 1 >= 1 /\ \A z \in Seen(a.s) : z < a.seq + 1
      BY <2>1, <2>2, <3>1
    <3>3. x < a.seq + 1 \/ (d = 1 /\ 1 \in DOMAIN q /\ q[1].op = "append" /\ q[1].s = a.s
                            /\ x \in Range(q[1].es))
      BY <1>3, <2>1, <3>2
    <3> QED BY <2>1, <2>3, <3>1, <3>3
  <2> QED BY <2>4, <2>5
<1>8. Ascends(a.pending) /\ Len(a.pending) <= MaxBatch
      /\ \A z \in Range(a.pending) : 1 <= z /\ z <= a.seq
  BY DEF Ordered
<1> QED BY <1>5, <1>6, <1>7, <1>8 DEF Ordered

-----------------------------------------------------------------------------
(* The worker, as the main thread sees it *)

\* The pieces of Good() that speak about the worker, with no handler running.
LEMMA GoodLater ==
  ASSUME RunInv, AppRunning, main' = main, begun' = begun, inbox' \in Seq(Msg),
         Begins(inbox, begun)', Closes(inbox, main)', Outstanding' = Outstanding,
         Ordered(inbox, main)'
  PROVE  Running'
<1>1. Good(main, begun, Outstanding) /\ main.posts = <<>> /\ main \in MainState
      /\ (main.enabled => main.seq <= MaxEvents + 2)
  BY RunFacts DEF RunInv, HistoryTypes
<1>2. Queue(main)' = inbox'
  BY <1>1, ConcatEmptySeq DEF Queue
<1>3. Begins(Queue(main), begun)' /\ Closes(Queue(main), main)' /\ Ordered(Queue(main), main)'
  BY <1>2 DEF Begins, Closes, Ordered
<1>4. Waits(main, Outstanding)'
  BY <1>1 DEF Good, Waits, MessageSum, ReplySum
<1> QED BY <1>1, <1>3, <1>4 DEF Good, Running, MainTypes

LEMMA IdleQueue ==
  ASSUME RunInv
  PROVE  /\ Queue(main) = inbox /\ inbox \in Seq(Msg) /\ Begins(inbox, begun)
         /\ AppRunning => /\ Closes(inbox, main) /\ Ordered(inbox, main) /\ main \in MainState
                          /\ main.enabled => main.s \in Session
<1>1. inbox \in Seq(Msg) /\ main.posts = <<>> /\ Begins(inbox, begun)
  BY DEF RunInv, HistoryTypes, WorkerTypes
<1>2. Queue(main) = inbox
  BY <1>1, ConcatEmptySeq DEF Queue
<1> QED BY <1>1, <1>2 DEF RunInv, Running, Good, MainTypes

LEMMA OrderedLater ==
  ASSUME NEW r, NEW a, Ordered(r, a)', main' = a, inbox' = r
  PROVE  Ordered(inbox, main)'
BY DEF Ordered

LEMMA HandlerRuns ==
  ASSUME RunInv, StepOrder, HandlerStep, main.store # "closed",
         UNCHANGED <<main, begun, starts>>
  PROVE  RunInv' /\ StepOrder'
<1>1. WorkerTypes /\ Control /\ Begins(inbox, begun) /\ Queue(main) = inbox /\ inbox \in Seq(Msg)
      /\ begun \in Nat
  BY IdleQueue, RunFacts
<1>2. HandlerKeeps /\ StepOrder' /\ Covers
  BY <1>1, HandlerStepKeeps, HandlerOrders
<1>3. /\ WorkerTypes' /\ inbox' = inbox /\ replies' = replies /\ handling' = handling
      /\ Control' /\ step'.at # "closed"
      /\ \A t \in Session : /\ Fresh(t) => Fresh(t)' \/ Inserts(t)
                            /\ t \in Active' => t \in Active \/ Inserts(t)
      /\ step'.at \in {"retain", "delete"} /\ handling.op = "begin"
           => step.at \in {"retain", "delete"}
  BY <1>2 DEF HandlerKeeps, Moves, Control
<1>4. HistoryTypes'
  BY <1>3 DEF RunInv, HistoryTypes, MainTypes
<1>5. Begins(inbox, begun)'
  <2>1. \A t \in Session : Inserts(t) => /\ step.at = "retain" /\ handling.op = "begin"
                                         /\ t = handling.s /\ step'.at = "open"
    BY DEF Inserts
  <2>2. (\A s \in Session : s > begun => Fresh(s))'
    <3>1. \A s \in Session : s > begun => ~Inserts(s)
      <4>1. \A s \in Session : Inserts(s) => s <= begun
        BY <1>1, <2>1 DEF Begins
      <4>2. \A s \in Session : s \in Int
        BY DEF Session
      <4> QED BY <1>1, <4>1, <4>2
    <3> QED BY <1>1, <1>3, <3>1 DEF Begins
  <2>3. \A i \in DOMAIN inbox : inbox[i].op = "begin" => inbox[i].s \in Session
    BY <1>1, QueueFacts
  <2>4. (\A i \in DOMAIN inbox : inbox[i].op = "begin" => Fresh(inbox[i].s))'
    <3>1. ASSUME NEW i \in DOMAIN inbox, inbox[i].op = "begin"
          PROVE  Fresh(inbox[i].s)'
      <4> DEFINE t == inbox[i].s
      <4>1. t \in Session /\ Fresh(t) /\ ~Inserts(t)
        BY <1>1, <2>1, <2>3, <3>1 DEF Begins
      <4>2. inbox'[i].s = t
        BY <1>3
      <4> HIDE DEF t
      <4>3. disk'[t] = NewRecord
        BY <1>3, <4>1 DEF Fresh
      <4> QED BY <4>2, <4>3 DEF Fresh
    <3> QED BY <1>3, <3>1 DEF Fresh
  <2>5. (handling.op = "begin" /\ step.at \in {"retain", "delete"} => Fresh(handling.s))'
    <3>1. ASSUME handling.op = "begin", step'.at \in {"retain", "delete"}
          PROVE  disk'[handling.s] = NewRecord
      <4>1. step.at \in {"retain", "delete"} /\ handling.s \in Session
        BY <1>1, <1>3, <3>1, HandlingIs
      <4>2. Fresh(handling.s) /\ ~Inserts(handling.s)
        BY <1>1, <2>1, <3>1, <4>1 DEF Begins
      <4> QED BY <1>3, <4>1, <4>2 DEF Fresh
    <3> QED BY <1>3, <3>1 DEF Fresh
  <2> QED BY <1>1, <1>3, <2>2, <2>4, <2>5 DEF Begins
<1>6. ASSUME AppRunning
      PROVE  Running'
  <2>1. Closes(inbox, main) /\ Ordered(inbox, main) /\ main \in MainState
        /\ (main.enabled => main.s \in Session)
    BY <1>6, IdleQueue
  <2>2. step.at # "closed"
    BY DEF HandlerStep, OpenPart, Write, Unlink, Enter, Forget, CommitRows, Insert, FinishRecord,
           Delete, Disconnect, Compress, Discard, Trash, Recovered, RecoverPart, RemovePart,
           Finalizing, Recovering
  <2>3. Closes(inbox, main)'
    <3>1. \A s \in Session :
            s \in Active' => s \in Active \/ (handling.op = "begin" /\ handling.s = s)
      BY <1>3 DEF Inserts
    <3>2. \A s : Recorded(main, s)' = Recorded(main, s)
      BY DEF Recorded
    <3> QED BY <1>3, <2>1, <2>2, <3>1, <3>2 DEF Closes
  <2>4. Outstanding' = Outstanding
    BY <1>3 DEF Outstanding, MessageSum, ReplySum
  <2>5. Ordered(inbox, main)'
    <3>1. \A s \in Session : \A x \in Seen(s)' : x <= 0 \/ \E z \in Seen(s) : x <= z
      BY <1>2 DEF Covers
    <3>2. \A i \in DOMAIN inbox : i + 0 \in DOMAIN inbox /\ inbox[i] = inbox[i + 0]
      BY <1>1, QueueFacts
    <3>3. \A q, a : q = inbox /\ a = main => Ordered(q, a)'
      <4> SUFFICES ASSUME NEW q, NEW a, q = inbox, a = main
                   PROVE  Ordered(q, a)'
        OBVIOUS
      <4> QED BY <1>1, <1>3, <2>1, <3>1, <3>2, OrderedMoves
    <3> QED BY <1>3, <3>3, OrderedLater
  <2> QED BY <1>1, <1>3, <1>5, <1>6, <2>3, <2>4, <2>5, GoodLater
<1>7. ~AppRunning => Running'
  BY DEF Running, AppRunning
<1> QED BY <1>2, <1>3, <1>4, <1>5, <1>6, <1>7 DEF RunInv

\* The message loop takes or refuses the first message of the inbox.
LEMMA TailOf ==
  ASSUME NEW q \in Seq(Msg), q # <<>>
  PROVE  /\ Head(q) = q[1] /\ Head(q) \in Msg /\ Tail(q) \in Seq(Msg) /\ 1 \in DOMAIN q
         /\ Len(q) \in Nat /\ Len(Tail(q)) = Len(q) - 1
         /\ \A i \in DOMAIN Tail(q) : i + 1 \in DOMAIN q /\ Tail(q)[i] = q[i + 1] /\ i \in Nat
         /\ \A j \in DOMAIN q : j # 1 => j - 1 \in DOMAIN Tail(q) /\ Tail(q)[j - 1] = q[j] /\ j > 1
<1>1. /\ Len(q) \in Nat /\ Len(q) >= 1 /\ DOMAIN q = 1 .. Len(q) /\ Head(q) = q[1]
      /\ Tail(q) \in Seq(Msg) /\ Len(Tail(q)) = Len(q) - 1 /\ Head(q) \in Msg
      /\ DOMAIN Tail(q) = 1 .. Len(q) - 1
      /\ \A i \in 1 .. Len(q) - 1 : Tail(q)[i] = q[i + 1] /\ i + 1 \in 1 .. Len(q)
  BY HeadTailProperties, LenProperties
<1>2. \A j \in 1 .. Len(q) : j # 1 => j - 1 \in 1 .. Len(q) - 1 /\ (j - 1) + 1 = j /\ j > 1
  BY <1>1
<1> QED BY <1>1, <1>2

LEMMA BeginsTail ==
  ASSUME NEW q \in Seq(Msg), q # <<>>, NEW n, Begins(q, n), handling.op # "begin",
         disk' = disk, handling'.op = "begin" => handling' = Head(q)
  PROVE  Begins(Tail(q), n)'
<1> DEFINE r == Tail(q)
<1>1. /\ Head(q) = q[1] /\ 1 \in DOMAIN q
      /\ \A i \in DOMAIN r : i + 1 \in DOMAIN q /\ r[i] = q[i + 1] /\ i + 1 # 1
      /\ \A i, j \in DOMAIN r : i + 1 = j + 1 => i = j
  BY TailOf
<1> HIDE DEF r
<1>2. /\ \A s \in Session : s > n => Fresh(s)
      /\ \A i \in DOMAIN q : q[i].op \in {"begin", "append"} => q[i].s <= n
      /\ \A i \in DOMAIN q : q[i].op = "begin" => Fresh(q[i].s)
      /\ \A i, j \in DOMAIN q : q[i].op = "begin" /\ q[j].op = "begin" /\ q[i].s = q[j].s => i = j
  BY DEF Begins
<1>3. (\A s \in Session : s > n => Fresh(s))'
  BY <1>2 DEF Fresh
<1>4. \A i \in DOMAIN r : /\ r[i].op \in {"begin", "append"} => r[i].s <= n
                          /\ r[i].op = "begin" => Fresh(r[i].s)'
  BY <1>1, <1>2 DEF Fresh
<1>5. \A i, j \in DOMAIN r : r[i].op = "begin" /\ r[j].op = "begin" /\ r[i].s = r[j].s => i = j
  BY <1>1, <1>2
<1>6. handling'.op = "begin" => /\ handling'.s <= n /\ Fresh(handling.s)'
                                /\ \A i \in DOMAIN r : r[i].op = "begin" => r[i].s # handling'.s
  BY <1>1, <1>2 DEF Fresh
<1>7. Begins(r, n)'
  BY <1>3, <1>4, <1>5, <1>6 DEF Begins
<1> QED BY <1>7 DEF r

LEMMA ClosesTail ==
  ASSUME NEW q \in Seq(Msg), q # <<>>, NEW a, Closes(q, a), handling = Idle, step.at = "idle",
         Active' = Active, step'.at # "closed",
         \/ handling' = Head(q)
         \/ handling' = Idle /\ Head(q).op = "append"
  PROVE  Closes(Tail(q), a)'
<1> DEFINE r == Tail(q)
           m == Head(q)
<1>1. /\ m = q[1] /\ 1 \in DOMAIN q /\ Len(q) \in Nat /\ Len(r) = Len(q) - 1 /\ r \in Seq(Msg)
      /\ \A i \in DOMAIN r : i + 1 \in DOMAIN q /\ r[i] = q[i + 1] /\ i \in Nat
      /\ \A j \in DOMAIN q : j # 1 => j - 1 \in DOMAIN r /\ r[j - 1] = q[j] /\ j > 1
      /\ m \in Msg
  BY TailOf
<1>12. handling' = m \/ (handling' = Idle /\ m.op = "append" /\ Idle.op = "idle")
  BY DEF Idle, Message
<1> HIDE DEF r, m
<1>2. /\ \A s \in Session : s \in Active /\ ~Recorded(a, s) => \E i \in DOMAIN q : EndOf(s, q[i])
      /\ \A i \in DOMAIN q : q[i].op = "begin" /\ ~Recorded(a, q[i].s)
           => \E j \in DOMAIN q : j > i /\ EndOf(q[i].s, q[j])
      /\ \A i \in DOMAIN q : q[i].op = "close" => i = Len(q)
      /\ a.store = "closing" <=> \E i \in DOMAIN q : q[i].op = "close"
  <2>1. handling.op = "idle" /\ \A s : ~EndOf(s, handling)
    BY DEF Idle, Message, EndOf
  <2> QED BY <2>1 DEF Closes
<1>3. \A s : EndOf(s, m) => EndOf(s, handling')
  <2>1. CASE handling' = m
    BY <2>1
  <2>2. CASE m.op = "append"
    BY <2>2 DEF EndOf
  <2> QED BY <1>12, <2>1, <2>2
<1>4. \A s : (\E i \in DOMAIN q : EndOf(s, q[i])) =>
        EndOf(s, handling') \/ \E i \in DOMAIN r : EndOf(s, r[i])
  BY <1>1, <1>3
<1>5. handling'.op = "begin" => handling' = q[1] /\ q[1].op = "begin"
  BY <1>1, <1>12
<1>6. \A s \in Session :
        (s \in Active \/ (handling'.op = "begin" /\ handling'.s = s)) /\ ~Recorded(a, s)
          => EndOf(s, handling') \/ \E i \in DOMAIN r : EndOf(s, r[i])
  BY <1>1, <1>2, <1>4, <1>5
<1>7. \A i \in DOMAIN r : r[i].op = "begin" /\ ~Recorded(a, r[i].s)
         => \E j \in DOMAIN r : j > i /\ EndOf(r[i].s, r[j])
  <2> SUFFICES ASSUME NEW i \in DOMAIN r, r[i].op = "begin", ~Recorded(a, r[i].s)
               PROVE  \E j \in DOMAIN r : j > i /\ EndOf(r[i].s, r[j])
    OBVIOUS
  <2>1. i + 1 \in DOMAIN q /\ r[i] = q[i + 1] /\ i \in Nat
    BY <1>1
  <2>2. PICK j \in DOMAIN q : j > i + 1 /\ EndOf(r[i].s, q[j])
    BY <1>2, <2>1
  <2>3. j \in Nat /\ j # 1
    BY <2>1, <2>2, QueueFacts
  <2>4. j - 1 \in DOMAIN r /\ r[j - 1] = q[j] /\ j - 1 > i
    BY <1>1, <2>1, <2>2, <2>3
  <2> QED BY <2>2, <2>4
<1>8. \A i \in DOMAIN r : r[i].op = "close" => i = Len(r)
  BY <1>1, <1>2
<1>9. handling'.op = "close" => r = <<>>
  <2>1. handling'.op = "close" => m.op = "close"
    BY <1>12
  <2>2. m.op = "close" => Len(r) = 0
    BY <1>1, <1>2
  <2> QED BY <1>1, <2>1, <2>2, EmptySeq
<1>10. a.store = "closing" <=>
         (handling'.op = "close" \/ \E i \in DOMAIN r : r[i].op = "close")
  <2>1. handling'.op = "close" <=> m.op = "close"
    BY <1>12
  <2>2. (\E i \in DOMAIN q : q[i].op = "close")
          <=> (m.op = "close" \/ \E i \in DOMAIN r : r[i].op = "close")
    BY <1>1
  <2> QED BY <1>2, <2>1, <2>2
<1>11. Closes(r, a)'
  <2>1. \A s : Recorded(a, s)' = Recorded(a, s)
    BY DEF Recorded
  <2> QED BY <1>6, <1>7, <1>8, <1>9, <1>10, <2>1 DEF Closes
<1> QED BY <1>11 DEF r

\* What a message brings along.
LEMMA TakeSees ==
  ASSUME RunInv, StepOrder, AppRunning, Take
  PROVE  /\ StepOrder' /\ step'.at # "closed"
         /\ \A s \in Session : \A x \in Seen(s)' :
              x \in Seen(s) \/ (Head(inbox).op = "append" /\ Head(inbox).s = s
                                /\ x \in Range(Head(inbox).es))
<1> DEFINE m == Head(inbox)
<1>1. /\ WorkerTypes /\ WorkerTypes' /\ m \in Msg /\ handling = Idle /\ step.at = "idle"
      /\ inbox # <<>> /\ handling' = m /\ step' = First(m) /\ disk' = disk /\ writer' = writer
      /\ Control /\ Ordered(inbox, main) /\ inbox \in Seq(Msg)
  BY TakeDoes, RunFacts, IdleQueue
<1>2. m = inbox[1] /\ 1 \in DOMAIN inbox
  BY <1>1, TailOf
<1> HIDE DEF m
<1>3. \A t \in Active : t \in Writing
  <2>1. handling.op = "idle"
    BY <1>1, HandlingIs
  <2> QED BY <1>1, <2>1 DEF Control, WriterFollows
<1>4. m.op = "append" =>
        /\ m.s \in Session /\ m.es # <<>> /\ Ascends(m.es) /\ Range(m.es) \subseteq Event
        /\ Before(Seen(m.s), Range(m.es))
  BY <1>1, <1>2, QueueFacts DEF Ordered
<1>5. m.op = "append" /\ m.s \in Active =>
        /\ step'.s = m.s /\ step'.es = m.es /\ step'.rows = {} /\ m.s \in Writing
        /\ step'.at = IF Full(writer[m.s]) THEN "seal" ELSE "write"
  BY <1>1, <1>3, <1>4, FirstIs
<1>6. /\ ~(m.op = "append" /\ m.s \in Active) =>
            step'.at \in {"retain", "done", "seal", "finish", "trash", "close"}
      /\ m.op = "append" /\ m.s \notin Active => step'.at = "done"
      /\ m.op \in Ops
  <2>1. m.op \in Ops
    BY <1>1 DEF Msg
  <2> QED BY <1>1, <2>1, FirstIs DEF Ops
<1>7. ~Batch /\ (Batch' => m.op = "append" /\ m.s \in Active /\ step'.s = m.s /\ m.s \in Writing)
  <2>1. ~Batch
    BY <1>1 DEF Batch
  <2>2. Batch' => m.op = "append" /\ step'.at # "done"
    BY <1>1 DEF Batch
  <2> QED BY <1>5, <1>6, <2>1, <2>2
<1>8. Writing' = Writing
  BY <1>1 DEF Writing
<1>9. ASSUME NEW s \in Session
      PROVE  /\ PastEvents(s)' = PastEvents(s) /\ Past(s)' = Past(s)
             /\ \A x \in BatchEvents(s)' : m.op = "append" /\ m.s = s /\ x \in Range(m.es)
  <2>1. BatchRows(s) = {} /\ BatchRows(s)' = {}
    BY <1>5, <1>7 DEF BatchRows
  <2>2. PastEvents(s)' = PastEvents(s)
    BY <1>1, <2>1 DEF PastEvents
  <2>3. InHand(s)' = InHand(s) /\ (InHand(s) = (s \in Writing))
    BY <1>7, <1>8 DEF InHand
  <2>4. InHand(s) => Reached(s)' = Reached(s)
    BY <1>1, <1>8, <2>3 DEF Reached, Count, Top
  <2>5. \A x \in BatchEvents(s)' : m.op = "append" /\ m.s = s /\ x \in Range(m.es)
    BY <1>5, <1>7 DEF BatchEvents
  <2> QED BY <2>2, <2>3, <2>4, <2>5 DEF Past
<1>10. \A s \in Session : \A x \in Seen(s)' :
         x \in Seen(s) \/ (m.op = "append" /\ m.s = s /\ x \in Range(m.es))
  BY <1>9 DEF Seen
<1>11. step'.at # "closed" /\ step'.at \notin {"trim", "forget", "open"}
  BY <1>5, <1>6
<1>12. \A s \in Session : writer[s].count \in Nat /\ writer[s].count <= PartSize
                          /\ PartSize \in Nat \ {0}
  BY <1>1, DiskIs, WorkerAssumption DEF StepOrder
<1>13. /\ step'.at = "write" => writer[step'.s].count < PartSize
       /\ step'.at = "seal" /\ m.op = "append" => writer[step'.s].count = PartSize
  <2>1. step'.at = "write" => m.op = "append" /\ m.s \in Active
    BY <1>6
  <2>2. step'.at = "seal" /\ m.op = "append" => m.s \in Active
    BY <1>6
  <2>3. ASSUME m.op = "append", m.s \in Active
        PROVE  /\ step'.at = "write" => writer[m.s].count < PartSize
               /\ step'.at = "seal" => writer[m.s].count = PartSize
    <3>1. m.s \in Session
      BY <1>4, <2>3
    <3>2. Full(writer[m.s]) = (writer[m.s].count > 0 /\ writer[m.s].count + 1 > PartSize)
      BY DEF Full
    <3>3. \A c, d \in Nat : c <= d /\ d # 0 => IF c > 0 /\ c + 1 > d THEN c = d ELSE c < d
      OBVIOUS
    <3>4. writer[m.s].count \in Nat /\ writer[m.s].count <= PartSize /\ PartSize \in Nat
          /\ PartSize # 0
      BY <1>12, <3>1
    <3>5. IF Full(writer[m.s]) THEN writer[m.s].count = PartSize
          ELSE writer[m.s].count < PartSize
      BY <3>2, <3>3, <3>4
    <3> QED BY <1>5, <2>3, <3>5
  <2> QED BY <1>5, <2>1, <2>2, <2>3
<1>14. Batch' => Ascends(step'.es) /\ Range(step'.es) \subseteq Event /\ step'.s \in Session
  BY <1>4, <1>5, <1>7
<1>16. ASSUME NEW s \in Session, Batch', s = step'.s
       PROVE  Before(Past(s)', Range(step'.es))
  <2>1. s = m.s /\ m.op = "append" /\ step'.es = m.es
    BY <1>5, <1>7, <1>16
  <2>2. Before(Seen(s), Range(m.es)) /\ Past(s) \subseteq Seen(s) /\ Past(s)' = Past(s)
    BY <1>4, <1>9, <2>1 DEF Seen
  <2> QED BY <2>1, <2>2 DEF Before
<1>15. StepOrder'
  BY <1>1, <1>8, <1>11, <1>13, <1>14, <1>16 DEF StepOrder
<1> QED BY <1>10, <1>11, <1>15 DEF m

\* A message more in the hand of the worker is one less in the inbox.
LEMMA TakeWeighs ==
  ASSUME WorkerTypes, Take \/ Refuse
  PROVE  Outstanding' = Outstanding
<1> DEFINE m == Head(inbox)
<1>1. inbox \in Seq(Msg) /\ inbox # <<>> /\ inbox' = Tail(inbox) /\ handling = Idle
      /\ replies \in Seq(Answer) /\ m \in Msg /\ m.es \in Seq(Nat)
  <2>1. inbox \in Seq(Msg) /\ inbox # <<>> /\ inbox' = Tail(inbox) /\ handling = Idle
        /\ replies \in Seq(Answer)
    BY DEF Take, Refuse, WorkerTypes
  <2>2. m \in Msg
    BY <2>1, TailOf
  <2> QED BY <2>1, <2>2 DEF Msg
<1> HIDE DEF m
<1>2. /\ MessageSum(inbox) = Weight(m) + MessageSum(Tail(inbox)) /\ Weight(m) \in Nat
      /\ MessageSum(Tail(inbox)) \in Nat /\ ReplySum(replies) \in Nat
      /\ MessageSum(inbox)' = MessageSum(Tail(inbox))
  <2>1. Tail(inbox) \in Seq(Msg)
    BY <1>1, TailOf
  <2>2. MessageSum(inbox)' = MessageSum(Tail(inbox))
    BY <1>1 DEF MessageSum
  <2> QED BY <1>1, <2>1, <2>2, MessageSums, ReplySums, WeightIs DEF m
<1>3. Weight(Idle) = 0
  BY DEF Weight, Idle, Message
<1>4. CASE Take
  <2>1. Weight(handling)' = Weight(m) /\ ReplySum(replies)' = ReplySum(replies)
    BY <1>4 DEF Take, Weight, ReplySum, m
  <2> QED BY <1>1, <1>2, <1>3, <2>1 DEF Outstanding
<1>5. CASE Refuse
  <2>1. /\ m.op = "append" /\ replies' = Append(replies, ReplyTo(m, FALSE))
        /\ handling' = handling /\ ReplyTo(m, FALSE) \in Answer
    BY <1>5, RefuseDoes DEF m
  <2>2. ReplyWeight(ReplyTo(m, FALSE)) = Weight(m)
    BY <2>1 DEF ReplyWeight, ReplyTo, Weight
  <2>3. ReplySum(replies)' = ReplySum(replies) + Weight(m)
    <3>1. ReplySum(replies)' = ReplySum(Append(replies, ReplyTo(m, FALSE)))
      BY <2>1 DEF ReplySum
    <3> QED BY <1>1, <2>1, <2>2, <3>1, ReplySums
  <2>4. Weight(handling)' = 0
    BY <1>1, <1>3, <2>1 DEF Weight
  <2> QED BY <1>1, <1>2, <1>3, <2>3, <2>4 DEF Outstanding
<1> QED BY <1>4, <1>5

LEMMA TakeRuns ==
  ASSUME RunInv, StepOrder, Take \/ Refuse, main.store # "closed",
         UNCHANGED <<main, begun, starts>>
  PROVE  RunInv' /\ StepOrder'
<1>1. /\ WorkerTypes /\ WorkerTypes' /\ handling = Idle /\ step.at = "idle" /\ inbox # <<>>
      /\ inbox' = Tail(inbox) /\ disk' = disk /\ writer' = writer /\ inbox \in Seq(Msg)
      /\ Control /\ Begins(inbox, begun)
      /\ handling' = Head(inbox) \/ (handling' = Idle /\ Head(inbox).op = "append")
  BY TakeDoes, RefuseDoes, RunFacts, IdleQueue
<1>2. AppRunning
  <2>1. main.store # "starting"
    BY <1>1 DEF Control, Starting
  <2> QED BY <2>1, RunFacts DEF AppRunning, MainState
<1>3. Control'
  <2>1. main.store \in {"starting", "open", "closing", "closed"}
    BY RunFacts DEF MainState
  <2> QED BY <1>1, <2>1, TakeKeeps, ReplyKeeps DEF Control
<1>4. /\ StepOrder' /\ step'.at # "closed"
      /\ \A s \in Session : \A x \in Seen(s)' :
           \/ x <= 0
           \/ \E z \in Seen(s) : x <= z
           \/ Head(inbox).op = "append" /\ Head(inbox).s = s /\ x \in Range(Head(inbox).es)
  <2>1. \A s \in Session : \A x \in Seen(s) : x <= x
    BY <1>1, SeenIs
  <2>2. CASE Take
    BY <1>2, <2>1, <2>2, TakeSees
  <2>3. CASE Refuse
    <3>1. step' = step /\ handling' = handling
      BY <2>3 DEF Refuse
    <3>2. \A s \in Session : Seen(s)' = Seen(s) /\ Past(s)' = Past(s)
      BY <1>1, <3>1
         DEF Seen, Past, PastEvents, BatchRows, BatchEvents, InHand, Batch, Count, Top, Reached,
             Writing
    <3>3. ~Batch'
      BY <1>1, <3>1 DEF Batch
    <3>4. StepOrder'
      BY <1>1, <3>1, <3>3 DEF StepOrder, Writing
    <3> QED BY <1>1, <2>1, <3>1, <3>2, <3>4
  <2> QED BY <2>2, <2>3
<1>5. HistoryTypes'
  BY <1>1 DEF RunInv, HistoryTypes, MainTypes
<1>6. Begins(inbox, begun)'
  <2>1. handling.op # "begin" /\ (handling'.op = "begin" => handling' = Head(inbox))
    <3>1. Idle.op = "idle"
      BY DEF Idle, Message
    <3> QED BY <1>1, <3>1
  <2>2. \A q, n : q = inbox /\ n = begun => Begins(Tail(q), n)'
    <3> SUFFICES ASSUME NEW q, NEW n, q = inbox, n = begun
                 PROVE  Begins(Tail(q), n)'
      OBVIOUS
    <3> QED BY <1>1, <2>1, BeginsTail
  <2>3. \A q, n : q = inbox /\ n = begun => inbox' = Tail(q) /\ begun' = n
    BY <1>1
  <2> QED BY <2>2, <2>3 DEF Begins
<1>7. Running'
  <2>1. Closes(inbox, main) /\ Ordered(inbox, main) /\ main \in MainState
        /\ (main.enabled => main.s \in Session)
    BY <1>2, IdleQueue
  <2>2. Closes(inbox, main)'
    <3>1. Active' = Active
      BY <1>1 DEF Active
    <3>2. \A q, a : q = inbox /\ a = main => Closes(Tail(q), a)'
      <4> SUFFICES ASSUME NEW q, NEW a, q = inbox, a = main
                   PROVE  Closes(Tail(q), a)'
        OBVIOUS
      <4> QED BY <1>1, <1>4, <2>1, <3>1, ClosesTail
    <3>3. \A q, a : q = inbox /\ a = main => inbox' = Tail(q) /\ main' = a
      BY <1>1
    <3> QED BY <3>2, <3>3 DEF Closes
  <2>3. Ordered(inbox, main)'
    <3>1. \A q, r, a : q = inbox /\ r = Tail(q) /\ a = main => Ordered(r, a)'
      <4> SUFFICES ASSUME NEW q, NEW r, NEW a, q = inbox, r = Tail(q), a = main
                   PROVE  Ordered(r, a)'
        OBVIOUS
      <4>1. /\ q \in Seq(Msg) /\ r \in Seq(Msg) /\ Head(q) = q[1] /\ 1 \in DOMAIN q
            /\ \A i \in DOMAIN r : i + 1 \in DOMAIN q /\ r[i] = q[i + 1]
        BY <1>1, TailOf
      <4>2. \A s \in Session : \A x \in Seen(s)' :
              \/ x <= 0
              \/ \E z \in Seen(s) : x <= z
              \/ 1 = 1 /\ 1 \in DOMAIN q /\ q[1].op = "append" /\ q[1].s = s
                 /\ x \in Range(q[1].es)
        BY <1>4, <4>1
      <4>3. Ordered(q, a) /\ a \in MainState /\ (a.enabled => a.s \in Session)
        BY <2>1
      <4>4. 1 \in {0, 1}
        OBVIOUS
      <4> QED BY <1>1, <4>1, <4>2, <4>3, <4>4, OrderedMoves
    <3>2. \A q, r, a : q = inbox /\ r = Tail(q) /\ a = main => inbox' = r /\ main' = a
      BY <1>1
    <3> QED BY <3>1, <3>2, OrderedLater
  <2>4. Outstanding' = Outstanding
    BY <1>1, TakeWeighs
  <2> QED BY <1>1, <1>2, <1>6, <2>2, <2>3, <2>4, GoodLater DEF WorkerTypes
<1> QED BY <1>3, <1>4, <1>5, <1>6, <1>7 DEF RunInv

LEMMA ReplyWeighs ==
  ASSUME WorkerTypes, PostReply
  PROVE  Outstanding' = Outstanding
<1>1. /\ inbox' = inbox /\ replies \in Seq(Answer) /\ handling' = Idle
      /\ \/ replies' = replies /\ handling.op \in {"begin", "finish", "delete"}
         \/ \E ok \in BOOLEAN : replies' = Append(replies, ReplyTo(handling, ok))
                                /\ ReplyTo(handling, ok) \in Answer
  BY PostReplyDoes DEF WorkerTypes
<1>2. /\ MessageSum(inbox)' = MessageSum(inbox) /\ MessageSum(inbox) \in Nat
      /\ Weight(handling) \in Nat /\ ReplySum(replies) \in Nat
  BY <1>1, OutstandingIs DEF MessageSum
<1>3. Weight(handling)' = 0
  BY <1>1 DEF Weight, Idle, Message
<1>4. CASE replies' = replies /\ handling.op \in {"begin", "finish", "delete"}
  <2>1. Weight(handling) = 0 /\ ReplySum(replies)' = ReplySum(replies)
    BY <1>4 DEF Weight, ReplySum
  <2> QED BY <1>2, <1>3, <2>1 DEF Outstanding
<1>5. ASSUME NEW ok \in BOOLEAN, replies' = Append(replies, ReplyTo(handling, ok)),
             ReplyTo(handling, ok) \in Answer
      PROVE  Outstanding' = Outstanding
  <2>1. ReplyWeight(ReplyTo(handling, ok)) = Weight(handling)
    BY DEF ReplyWeight, ReplyTo, Weight
  <2>2. ReplySum(replies)' = ReplySum(Append(replies, ReplyTo(handling, ok)))
    BY <1>5 DEF ReplySum
  <2>3. ReplySum(replies)' = ReplySum(replies) + Weight(handling)
    BY <1>1, <1>5, <2>1, <2>2, ReplySums
  <2> QED BY <1>2, <1>3, <2>3 DEF Outstanding
<1> QED BY <1>1, <1>4, <1>5

\* The end of a handler.
LEMMA ReplyRuns ==
  ASSUME RunInv, StepOrder, PostReply, main.store # "closed",
         UNCHANGED <<main, begun, starts>>
  PROVE  RunInv' /\ StepOrder'
<1>1. /\ WorkerTypes /\ WorkerTypes' /\ handling # Idle /\ step.at \in {"done", "retain"}
      /\ handling' = Idle /\ inbox' = inbox /\ disk' = disk /\ writer' = writer
      /\ step'.at = (IF handling.op = "close" THEN "closed" ELSE "idle")
      /\ inbox \in Seq(Msg) /\ Control /\ Begins(inbox, begun) /\ handling'.op = "idle"
  <2>1. Idle.op = "idle"
    BY DEF Idle, Message
  <2> QED BY <2>1, PostReplyDoes, RunFacts, IdleQueue
<1>2. AppRunning
  <2>1. main.store # "starting"
    BY <1>1 DEF Control, Starting
  <2> QED BY <2>1, RunFacts DEF AppRunning, MainState
<1>3. Control'
  <2>1. main.store \in {"starting", "open", "closing", "closed"}
    BY RunFacts DEF MainState
  <2> QED BY <1>1, <2>1, ReplyKeeps DEF Control
<1>4. ~Batch /\ ~Batch' /\ Writing' = Writing /\ Active' = Active
  BY <1>1 DEF Batch, Writing, Active
<1>5. \A s \in Session : Seen(s)' = Seen(s)
  <2> SUFFICES ASSUME NEW s \in Session
               PROVE  Seen(s)' = Seen(s)
    OBVIOUS
  <2>1. /\ BatchRows(s) = {} /\ BatchRows(s)' = {} /\ BatchEvents(s) = {} /\ BatchEvents(s)' = {}
        /\ InHand(s) = (s \in Writing) /\ InHand(s)' = (s \in Writing)
    BY <1>4 DEF BatchRows, BatchEvents, InHand
  <2>2. InHand(s) => Reached(s)' = Reached(s)
    BY <1>1, <1>4, <2>1 DEF Reached, Count, Top
  <2> QED BY <1>1, <2>1, <2>2 DEF Seen, Past, PastEvents
<1>6. StepOrder'
  BY <1>1, <1>4 DEF StepOrder
<1>7. HistoryTypes'
  BY <1>1 DEF RunInv, HistoryTypes, MainTypes
<1>8. Begins(inbox, begun)'
  BY <1>1 DEF Begins, Fresh
<1>9. Running'
  <2>1. Closes(inbox, main) /\ Ordered(inbox, main) /\ main \in MainState
        /\ (main.enabled => main.s \in Session)
    BY <1>2, IdleQueue
  <2>2. Closes(inbox, main)'
    <3>1. \A s \in Active : ~EndOf(s, handling)
      BY <1>1 DEF EndOf, Control, StepFollows
    <3>2. \A s : Recorded(main, s)' = Recorded(main, s)
      BY DEF Recorded
    <3>3. \A s \in Active' : ~Recorded(main, s) =>
            \E i \in DOMAIN inbox : EndOf(s, inbox[i])
      BY <1>4, <2>1, <3>1, StepIs, <1>1 DEF Closes
    <3>4. handling'.op # "begin" /\ handling'.op # "close"
      BY <1>1
    <3>5. step'.at = "closed" <=> handling.op = "close"
      BY <1>1
    <3>6. step.at # "closed"
      BY <1>1
    <3> QED BY <1>1, <2>1, <3>2, <3>3, <3>4, <3>5, <3>6 DEF Closes
  <2>3. Ordered(inbox, main)'
    BY <1>1, <1>5, <2>1, QueueFacts DEF Ordered, Recorded
  <2>4. Outstanding' = Outstanding
    BY <1>1, ReplyWeighs
  <2> QED BY <1>1, <1>2, <1>8, <2>2, <2>3, <2>4, GoodLater
<1> QED BY <1>3, <1>6, <1>7, <1>8, <1>9 DEF RunInv

\* The actions of the main thread leave the worker where it is.
LEMMA MainOrders ==
  ASSUME WorkerTypes, StepOrder, disk' = disk, writer' = writer, handling' = handling,
         step' = step
  PROVE  StepOrder'
<1>1. \A s : Past(s)' = Past(s)
  BY DEF Past, PastEvents, BatchRows, InHand, Batch, Count, Top, Reached, Writing
<1>3. Batch' = Batch /\ Writing' = Writing
  BY DEF Batch, Writing
<1> QED BY <1>1, <1>3 DEF StepOrder

-----------------------------------------------------------------------------
(* The invariant of the recorder, the store and the worker *)

HistoryInv == RunInv /\ StepOrder

LEMMA RestartOrders ==
  ASSUME WorkerTypes', writer' = [s \in Session |-> NoWriter], handling' = Idle,
         step'.at \in {"idle", "recover"}
  PROVE  StepOrder'
<1>1. ~Batch'
  BY DEF Batch
<1>2. PartSize \in Nat \ {0} /\ NoWriter.count = 0
  BY WorkerAssumption DEF NoWriter
<1>3. \A s \in Session : writer'[s] = NoWriter /\ s \notin Writing'
  BY DEF Writing
<1> QED BY <1>1, <1>2, <1>3 DEF StepOrder

LEMMA InitKeeps ==
  ASSUME HistoryInit
  PROVE  HistoryInv
<1>1. RunInv /\ writer = [s \in Session |-> NoWriter] /\ handling = Idle /\ step = Doing("idle")
  BY InitFacts DEF HistoryInit, WorkerInit
<1>2. step.at = "idle" /\ handling.op = "idle"
  BY <1>1 DEF Doing, Idle, Message
<1>3. PartSize \in Nat \ {0} /\ NoWriter.count = 0
  BY WorkerAssumption DEF NoWriter
<1>4. ~Batch /\ \A s \in Session : writer[s] = NoWriter /\ s \notin Writing
  BY <1>1, <1>2 DEF Batch, Writing
<1>5. StepOrder
  BY <1>2, <1>3, <1>4 DEF StepOrder
<1> QED BY <1>1, <1>5 DEF HistoryInv

\* The handlers of the main thread.
LEMMA MainKeeps ==
  ASSUME HistoryInv,
         \/ Ready \/ Enable \/ Disable \/ Pause \/ ResumeRecording \/ StartFile \/ EndFile
         \/ Output \/ FlushTimer \/ EndRecording \/ (\E s \in Session : DeleteRecord(s))
         \/ Close \/ HandleReply
  PROVE  HistoryInv' /\ UNCHANGED <<disk, writer, handling, step>>
<1>1. RunInv'
  BY EnableKeeps, DisableKeeps, PauseKeeps, FileKeeps, OutputKeeps, FlushKeeps, EndRecordingKeeps,
     DeleteRecordKeeps, CloseKeeps, HandleReplyKeeps, ReadyKeeps DEF HistoryInv
<1>2. disk' = disk /\ writer' = writer /\ handling' = handling /\ step' = step
  BY DEF Did, Handles, Ready, Enable, Disable, Pause, ResumeRecording, StartFile, EndFile, Output,
         FlushTimer, EndRecording, DeleteRecord, Close, HandleReply
<1>3. StepOrder'
  BY <1>2, MainOrders, RunFacts DEF HistoryInv
<1> QED BY <1>1, <1>2, <1>3 DEF HistoryInv

LEMMA NextKeeps ==
  ASSUME HistoryInv, [HistoryNext]_historyVars
  PROVE  HistoryInv'
<1>1. CASE Works
  <2>1. WorkerNext /\ main.store # "closed" /\ UNCHANGED <<main, begun, starts>>
    BY <1>1 DEF Works
  <2>2. HandlerStep \/ Take \/ Refuse \/ PostReply
    BY <2>1, WorkerSteps
  <2> QED BY <2>1, <2>2, HandlerRuns, TakeRuns, ReplyRuns DEF HistoryInv
<1>2. CASE Restart
  <2>1. RunInv'
    BY <1>2, RestartKeeps DEF HistoryInv
  <2>2. /\ writer' = [s \in Session |-> NoWriter] /\ handling' = Idle
        /\ step'.at \in {"idle", "recover"}
    BY <1>2 DEF Restart, WorkerStart, Doing
  <2> QED BY <2>1, <2>2, RestartOrders DEF HistoryInv, RunInv, HistoryTypes
<1>3. CASE UNCHANGED historyVars
  <2>1. /\ disk' = disk /\ writer' = writer /\ handling' = handling /\ step' = step
        /\ main' = main /\ begun' = begun /\ starts' = starts /\ inbox' = inbox
        /\ replies' = replies
    BY <1>3 DEF historyVars, workerVars
  <2>2. StepOrder'
    BY <2>1, MainOrders, RunFacts DEF HistoryInv
  <2>3. RunInv'
    <3>1. HistoryTypes'
      BY <2>1 DEF HistoryInv, RunInv, HistoryTypes, WorkerTypes, MainTypes
    <3>2. Control'
      BY <2>1 DEF HistoryInv, RunInv, Control, StepFollows, WriterFollows, Starting, AppRunning,
                  Active, EndedSessions, Writing
    <3>3. Begins(inbox, begun)'
      BY <2>1 DEF HistoryInv, RunInv, Begins, Fresh
    <3>4. ASSUME AppRunning'
          PROVE  Good(main, begun, Outstanding)' /\ (main.enabled => main.seq <= MaxEvents + 2)'
      <4>1. Good(main, begun, Outstanding) /\ (main.enabled => main.seq <= MaxEvents + 2)
        BY <2>1, <3>4 DEF HistoryInv, RunInv, Running, AppRunning
      <4>2. Outstanding' = Outstanding /\ Queue(main)' = Queue(main) /\ Active' = Active
        BY <2>1 DEF Outstanding, MessageSum, ReplySum, Queue, Active
      <4>3. \A s : /\ Seen(s)' = Seen(s) /\ Fresh(s)' = Fresh(s)
                   /\ Recorded(main, s)' = Recorded(main, s)
        BY <2>1 DEF Seen, Past, PastEvents, BatchRows, BatchEvents, InHand, Batch, Count, Top,
                    Reached, Writing, Fresh, Recorded
      <4>4. Begins(Queue(main), begun)'
        BY <2>1, <4>1, <4>2, <4>3 DEF Good, Begins, Fresh
      <4>5. Closes(Queue(main), main)'
        BY <2>1, <4>1, <4>2, <4>3 DEF Good, Closes
      <4>6. Ordered(Queue(main), main)'
        BY <2>1, <4>1, <4>2, <4>3 DEF Good, Ordered
      <4>7. Waits(main, Outstanding)'
        BY <2>1, <4>1, <4>2 DEF Good, Waits, MessageSum, ReplySum
      <4> QED BY <2>1, <4>1, <4>4, <4>5, <4>6, <4>7 DEF Good, MainTypes
    <3> QED BY <3>1, <3>2, <3>3, <3>4 DEF RunInv, Running
  <2> QED BY <2>2, <2>3 DEF HistoryInv
<1> QED BY <1>1, <1>2, <1>3, MainKeeps DEF HistoryNext

\* The recorder, the store and the worker stay in step in every reachable state: the
\* types, where a handler may be, which session each message is of, the ends that
\* are on their way, the bytes that wait and the order of the events each session has
\* seen (history-store.ts, session-recorder.ts and history-worker.js).
THEOREM HistoryInvariant == HistorySpec => []HistoryInv
<1>1. HistoryInit => HistoryInv
  BY InitKeeps
<1>2. HistoryInv /\ [HistoryNext]_historyVars => HistoryInv'
  BY NextKeeps
<1> QED BY <1>1, <1>2, PTL DEF HistorySpec

-----------------------------------------------------------------------------
(* What follows from it *)

LEMMA WaitingIs ==
  ASSUME HistoryInv, AppRunning
  PROVE  main.waiting = Outstanding /\ main.waiting <= QueueLimit
<1>1. Good(main, begun, Outstanding) /\ main.posts = <<>> /\ Outstanding \in Int
  BY RunFacts DEF HistoryInv, RunInv, HistoryTypes
<1>2. MessageSum(main.posts) = 0
  <2>1. <<>> \in Seq(Msg)
    OBVIOUS
  <2> QED BY <1>1, <2>1, MessageSums
<1> QED BY <1>1, <1>2 DEF Good, Waits

\* A batch in hand was within the budget when it was accepted, and has not been
\* answered since.
WithinBudget == handling.op = "append" => Len(handling.es) <= QueueLimit

LEMMA BatchWaits == HistoryInv /\ AppRunning => WithinBudget
<1> SUFFICES ASSUME HistoryInv, AppRunning, handling.op = "append"
             PROVE  Len(handling.es) <= QueueLimit
  BY DEF WithinBudget
<1>1. WorkerTypes
  BY DEF HistoryInv, RunInv, HistoryTypes
<1>2. PICK w : w = Weight(handling)
  OBVIOUS
<1>3. PICK a, b : a = MessageSum(inbox) /\ b = ReplySum(replies)
  OBVIOUS
<1>4. w \in Nat /\ a \in Nat /\ b \in Nat /\ a + w + b <= QueueLimit /\ QueueLimit \in Nat
  BY <1>1, <1>2, <1>3, OutstandingIs, WaitingIs, HistoryAssumption DEF Outstanding
<1>5. w <= QueueLimit
  BY <1>4
<1> QED BY <1>2, <1>5 DEF Weight

\* The bytes that wait are those of the batches the worker has not answered,
\* whatever is refused, rejected or lost (append() and handleReply() of
\* history-store.ts).
THEOREM BudgetHolds == HistorySpec => []WriteBudget
<1>1. HistoryInv => WriteBudget
  BY WaitingIs DEF WriteBudget, Outstanding, MessageSum, ReplySum
<1> QED BY <1>1, HistoryInvariant, PTL

\* A record whose recorder is gone does not stay active (Suspend and
\* FinishLogging, closeWorker() and recoverInterruptedSessions() of
\* history-worker.js).
THEOREM EndComes == HistorySpec => []EndIsOnItsWay
<1>1. HistoryInv => EndIsOnItsWay
  <2> SUFFICES ASSUME HistoryInv, AppRunning, NEW s \in Active, ~HasRecorder(s)
               PROVE  \E m \in Range(inbox) \union {handling} : EndOf(s, m)
    BY DEF EndIsOnItsWay
  <2>1. Closes(inbox, main) /\ s \in Session /\ ~Recorded(main, s)
    BY IdleQueue, RunFacts, StepIs DEF HistoryInv, HasRecorder, Recorded
  <2>2. EndOf(s, handling) \/ \E i \in DOMAIN inbox : EndOf(s, inbox[i])
    BY <2>1 DEF Closes
  <2> QED BY <2>2 DEF Range
<1> QED BY <1>1, HistoryInvariant, PTL

-----------------------------------------------------------------------------
(* The files and rows of a session *)

\* The files of a session: whichever step the application dies in, a segment
\* holds no more than the partial file it was made of; the one writer appends to
\* a part behind all others.
FileOrder(s) ==
  /\ s \notin Active => DOMAIN disk[s].partial = {}
  /\ \A p \in DOMAIN disk[s].partial \intersect DOMAIN disk[s].segment :
       disk[s].segment[p] \subseteq disk[s].partial[p]
  /\ s \in Writing =>
       /\ DOMAIN disk[s].partial = {writer[s].part}
       /\ writer[s].count = 0 => disk[s].partial[writer[s].part] = {}
       /\ \A p \in disk[s].parts \union DOMAIN disk[s].segment : p < writer[s].part
  /\ AppRunning /\ s \in Active \ Writing =>
       DOMAIN disk[s].partial \subseteq IF step.at = "unlink" /\ step.s = s THEN {step.p} ELSE {}
  /\ step.at = "unlink" /\ step.s = s =>
       /\ step.p \in DOMAIN disk[s].partial \intersect DOMAIN disk[s].segment
       /\ disk[s].partial[step.p] \subseteq disk[s].segment[step.p]
  /\ Batch /\ step.s = s /\ s \notin Writing =>
       \A p \in disk[s].parts \union DOMAIN disk[s].segment : p <= Top(s)

\* The rows of a session, with those the batch in hand will insert: later events
\* are in later parts, and the parts of a session that goes on are known.
AllRows(s) == disk[s].chunks \union BatchRows(s)
RowOrder(s) ==
  /\ \A x, y \in AllRows(s) : x[1] <= y[1] => x[2] <= y[2]
  /\ \A x \in disk[s].chunks, y \in BatchRows(s) : x[1] < y[1]
  /\ InHand(s) => \A x \in AllRows(s) : x[2] <= Top(s) /\ x[2] \in disk[s].parts \union {Top(s)}

\* The raw frame of every row.
RowFiles(s) ==
  /\ \A x \in disk[s].chunks :
       x[1] \in Stored(s, x[2]) \/ Forgetting(s, x[2]) \/ Deleting(s)
  /\ \A x \in BatchRows(s) : x[1] \in Stored(s, x[2])

\* No batch fills as many parts as are kept, as a batch is limited by the timer or
\* as a write is by the queue: the trim leaves its rows alone.
Room == 1 + (MaxParts - 1) * PartSize
BatchFits == MaxBatch <= Room \/ QueueLimit <= Room
Written == Len(handling.es) - Len(step.es)
BatchRoom ==
  \A s \in Session : Batch /\ step.s = s =>
    /\ Len(step.es) <= Len(handling.es) /\ Len(handling.es) <= Room
    /\ step.at = "rotate" => step.p - 1 \in disk[s].parts
    /\ step.at = "trim" => Cardinality(disk[s].parts) >= MaxParts
    /\ step.at = "forget" => /\ Lowest(disk[s].parts, step.p)
                             /\ \A r \in step.rows : r[2] # step.p
    /\ \A r \in step.rows :
         /\ Written >= 1
         /\ r[2] < Top(s) => Written >= 1 + (Top(s) - r[2] - 1) * PartSize + Count(s)

LEMMA RightSession ==
  ASSUME NEW s \in Session
  PROVE  /\ s \in Writing <=> writer[s] # NoWriter
         /\ s \in Active <=> disk[s].status = "active"
         /\ (s \in Writing)' <=> writer'[s] # NoWriter
         /\ (s \in Active)' <=> disk'[s].status = "active"
BY DEF Writing, Active

\* The sessions a step has nothing to do with.
LEMMA OtherFiles ==
  ASSUME NEW s \in Session, OnlyIn(s), NEW t \in Session, t # s, main' = main,
         Batch \/ step.at = "unlink" => step.s = s, (Batch \/ step.at = "unlink")' => step'.s = s
  PROVE  /\ FileOrder(t) => FileOrder(t)'
         /\ RowOrder(t) => RowOrder(t)'
         /\ RowFiles(t) => RowFiles(t)'
<1>1. disk'[t] = disk[t] /\ writer'[t] = writer[t]
  BY DEF OnlyIn
<1>2. (t \in Writing)' = (t \in Writing) /\ (t \in Active)' = (t \in Active)
      /\ (t \in EndedSessions)' = (t \in EndedSessions)
  BY <1>1 DEF Writing, Active, EndedSessions
<1>3. /\ ~(Batch /\ step.s = t) /\ ~(Batch /\ step.s = t)'
      /\ ~(step.at = "unlink" /\ step.s = t) /\ ~(step.at = "unlink" /\ step.s = t)'
  OBVIOUS
<1>4. /\ BatchRows(t) = {} /\ BatchRows(t)' = {} /\ InHand(t) = (t \in Writing)
      /\ InHand(t)' = (t \in Writing)
  BY <1>2, <1>3 DEF BatchRows, InHand
<1>5. AppRunning' = AppRunning
  BY DEF AppRunning
<1>6. FileOrder(t) => FileOrder(t)'
  BY <1>1, <1>2, <1>3, <1>5 DEF FileOrder
<1>7. RowOrder(t) => RowOrder(t)'
  <2>1. t \in Writing => Top(t)' = Top(t)
    BY <1>1, <1>2 DEF Top
  <2> QED BY <1>1, <1>4, <2>1 DEF RowOrder, AllRows
<1>8. RowFiles(t) => RowFiles(t)'
  <2>1. \A p : Stored(t, p)' = Stored(t, p) /\ Forgetting(t, p)' = Forgetting(t, p)
    BY <1>1 DEF Stored, Forgetting
  <2>2. Deleting(t)' = Deleting(t)
    BY <1>1, <1>2 DEF Deleting
  <2> QED BY <1>1, <1>4, <2>1, <2>2 DEF RowFiles
<1> QED BY <1>6, <1>7, <1>8

LEMMA OpenFiles ==
  ASSUME WorkerTypes, Control, StepOrder, AppRunning, NEW s, s = step.s, OpenPart, FileOrder(s)
  PROVE  FileOrder(s)'
<1>1. /\ WorkerTypes' /\ OnlyIn(s) /\ Rows(s) /\ disk'[s].segment = disk[s].segment
      /\ disk'[s].partial = IF step.p \in DOMAIN disk[s].partial THEN disk[s].partial
                            ELSE With(disk[s].partial, step.p, {})
      /\ writer'[s].part = step.p /\ writer'[s].count = 0
      /\ step.at = "open" => handling.op = "begin" /\ step' = Doing("done")
      /\ step.at = "rotate" => handling.op = "append" /\ step' = Trimming(step, disk[s].parts)
  BY OpenDoes
<1>2. /\ s \in Session /\ step.at \in {"open", "rotate"} /\ s \in Active /\ s \notin Writing
      /\ step.p \in Nat /\ step.p # 0 /\ disk[s].partial \in Files /\ {} \in SUBSET Nat
  BY <1>1, StepIs, DiskIs DEF OpenPart, OnlyIn, Control, StepFollows, WriterFollows
<1>3. DOMAIN disk[s].partial = {}
  BY <1>2 DEF FileOrder
<1>4. disk'[s].partial = With(disk[s].partial, step.p, {})
  BY <1>1, <1>3
<1>5. DOMAIN disk'[s].partial = {step.p} /\ disk'[s].partial[step.p] = {}
  BY <1>3, <1>4 DEF With
<1>6. \A p \in disk[s].parts \union DOMAIN disk[s].segment : p < step.p
  <2>1. CASE step.at = "open"
    <3>1. disk[s].parts = {} /\ disk[s].segment = <<>>
      BY <1>2, <2>1 DEF StepOrder, NewRecord
    <3> QED BY <3>1
  <2>2. CASE step.at = "rotate"
    <3>1. Batch /\ Top(s) = step.p - 1
      BY <1>1, <1>2, <2>2 DEF Batch, Top
    <3>2. \A p \in disk[s].parts \union DOMAIN disk[s].segment : p <= step.p - 1
      BY <1>2, <3>1 DEF FileOrder
    <3>3. disk[s].segment \in Files /\ disk[s].parts \subseteq Nat
      BY <1>2, DiskIs
    <3>4. DOMAIN disk[s].segment \subseteq Nat
      BY <1>2, <3>3, FileFacts
    <3> QED BY <1>2, <3>2, <3>3, <3>4
  <2> QED BY <1>2, <2>1, <2>2
<1>7. (s \in Writing)' /\ (s \in Active)'
  BY <1>1, <1>2, RightSession DEF NoWriter, Rows
<1>8. step'.at # "unlink"
  <2>1. CASE step.at = "open"
    BY <1>1, <2>1, RestIsTyped DEF Phases
  <2>2. CASE step.at = "rotate"
    BY <1>1, <2>2, TrimmingIs DEF WorkerTypes
  <2> QED BY <1>2, <2>1, <2>2
<1>9. step.p \notin DOMAIN disk[s].segment
  BY <1>2, <1>6
<1> QED BY <1>1, <1>5, <1>6, <1>7, <1>8, <1>9 DEF FileOrder, Rows

LEMMA WriteFiles ==
  ASSUME WorkerTypes, Control, NEW s, s = step.s, Write, FileOrder(s)
  PROVE  FileOrder(s)'
<1> DEFINE p == writer[s].part
           e == Head(step.es)
<1>1. /\ WorkerTypes' /\ OnlyIn(s) /\ Rows(s) /\ p \in DOMAIN disk[s].partial /\ e \in Nat
      /\ disk'[s].segment = disk[s].segment
      /\ disk'[s].partial = With(disk[s].partial, p, disk[s].partial[p] \union {e})
      /\ writer'[s].part = p /\ writer'[s].count = writer[s].count + 1
      /\ step'.at = IF step'.es = <<>> THEN "commit"
                    ELSE IF Full(writer'[s]) THEN "seal" ELSE "write"
  BY WriteDoes
<1>2. /\ s \in Session /\ s \in Writing /\ s \in Active /\ p \in Nat /\ writer[s].count \in Nat
      /\ disk[s].partial \in Files /\ disk[s].segment \in Files /\ step'.at # "unlink"
  <2>1. s \in Writing
    BY DEF Write, Control, WriterFollows
  <2> QED BY <1>1, <2>1, StepIs, DiskIs DEF Control, WriterFollows
<1> HIDE DEF p, e
<1>3. disk[s].partial[p] \union {e} \in SUBSET Nat
  BY <1>1, <1>2, FileFacts
<1>4. DOMAIN disk'[s].partial = DOMAIN disk[s].partial
  BY <1>1 DEF With
<1>5. DOMAIN disk[s].partial = {p} /\ \A q \in disk[s].parts \union DOMAIN disk[s].segment : q < p
  BY <1>2 DEF FileOrder, p
<1>6. p \notin DOMAIN disk[s].segment
  BY <1>2, <1>5
<1>7. (s \in Writing)' /\ (s \in Active)' /\ writer'[s].count # 0
  BY <1>1, <1>2, RightSession DEF NoWriter, Rows
<1>8. writer'[s].part = p
  BY <1>1
<1>9. DOMAIN disk'[s].partial = {p} /\ disk'[s].segment = disk[s].segment
      /\ disk'[s].parts = disk[s].parts
  BY <1>1, <1>4, <1>5 DEF Rows
<1>10. \A q \in DOMAIN disk'[s].partial \intersect DOMAIN disk'[s].segment : FALSE
  BY <1>6, <1>9
<1>11. \A q \in disk'[s].parts \union DOMAIN disk'[s].segment : q < writer'[s].part
  BY <1>5, <1>8, <1>9
<1> QED BY <1>2, <1>7, <1>8, <1>9, <1>10, <1>11 DEF FileOrder

LEMMA CompressFiles ==
  ASSUME WorkerTypes, Control, NEW s \in Session, Compress(s), FileOrder(s)
  PROVE  FileOrder(s)'
<1> DEFINE p == writer[s].part
<1>1. /\ WorkerTypes' /\ OnlyIn(s) /\ Rows(s) /\ s \in Writing /\ p \in DOMAIN disk[s].partial
      /\ disk'[s].partial = disk[s].partial
      /\ disk'[s].segment = With(disk[s].segment, p, disk[s].partial[p])
      /\ writer'[s] = NoWriter /\ step'.at = "unlink" /\ step'.s = s /\ step'.p = p
  BY CompressDoes
<1>2. /\ s \in Active /\ p \in Nat /\ disk[s].partial \in Files /\ disk[s].segment \in Files
      /\ disk[s].parts \subseteq Nat
  BY <1>1, DiskIs DEF Control, WriterFollows
<1>3. DOMAIN disk[s].partial = {p} /\ \A q \in disk[s].parts \union DOMAIN disk[s].segment : q < p
  BY <1>1 DEF FileOrder
<1> HIDE DEF p
<1>4. disk[s].partial[p] \in SUBSET Nat
  BY <1>1, <1>2, FileFacts
<1>5. DOMAIN disk'[s].segment = DOMAIN disk[s].segment \union {p}
      /\ disk'[s].segment[p] = disk[s].partial[p]
  BY <1>1 DEF With
<1>6. ~(s \in Writing)' /\ (s \in Active)'
  BY <1>1, <1>2, RightSession DEF Rows
<1>7. Top(s)' = p
  BY <1>1, <1>6 DEF Top
<1>8. \A q \in disk'[s].parts \union DOMAIN disk'[s].segment : q <= p
  <2>1. DOMAIN disk[s].segment \subseteq Nat
    BY <1>2, <1>4, FileFacts
  <2> QED BY <1>1, <1>2, <1>3, <1>5, <2>1 DEF Rows
<1> QED BY <1>1, <1>3, <1>5, <1>6, <1>7, <1>8 DEF FileOrder

LEMMA DiscardFiles ==
  ASSUME WorkerTypes, Control, StepOrder, NEW s \in Session, Discard(s), FileOrder(s)
  PROVE  FileOrder(s)' /\ handling.op # "append"
<1> DEFINE p == writer[s].part
<1>1. /\ WorkerTypes' /\ OnlyIn(s) /\ Rows(s) /\ s \in Writing /\ p \in DOMAIN disk[s].partial
      /\ disk'[s].partial = Without(disk[s].partial, p) /\ writer[s].count = 0
      /\ disk'[s].segment = disk[s].segment /\ writer'[s] = NoWriter /\ step' = Sealed(step)
      /\ \/ step.at = "seal" /\ step.s = s /\ handling.s = s
            /\ handling.op \in {"append", "finish"}
         \/ step.at = "close" /\ handling.op = "close"
  BY DiscardDoes
<1>2. handling.op # "append"
  BY <1>1, WorkerAssumption DEF StepOrder
<1>3. step'.at \in {"finish", "close"}
  BY <1>1, <1>2, SealedIs
<1>4. DOMAIN disk[s].partial = {p}
  BY <1>1 DEF FileOrder
<1>5. DOMAIN disk'[s].partial = {}
  <2>1. disk[s].partial \in Files /\ p \in Nat /\ {} \in SUBSET Nat
    BY DiskIs
  <2> QED BY <1>1, <1>4, <2>1, FileFacts
<1>6. ~(s \in Writing)' /\ ~Batch'
  BY <1>1, <1>2, RightSession DEF Batch, OnlyIn
<1> QED BY <1>1, <1>2, <1>3, <1>5, <1>6 DEF FileOrder

LEMMA UnlinkFiles ==
  ASSUME WorkerTypes, Control, NEW s, s = step.s, main' = main, Unlink \/ Enter, FileOrder(s)
  PROVE  FileOrder(s)'
<1>0. AppRunning' = AppRunning
  BY DEF AppRunning
<1>1. CASE Unlink
  <2>1. /\ WorkerTypes' /\ OnlyIn(s) /\ Rows(s) /\ writer' = writer
        /\ disk'[s].partial = Without(disk[s].partial, step.p)
        /\ disk'[s].segment = disk[s].segment /\ step.at = "unlink"
        /\ step'.at = "enter" /\ step'.s = s /\ step'.p = step.p
    BY <1>1, UnlinkDoes
  <2>2. s \in Session /\ s \in Active /\ s \notin Writing
    BY <2>1, StepIs DEF Control, StepFollows, WriterFollows
  <2>3. ~(s \in Writing)' /\ (s \in Active)'
    BY <2>1, <2>2, RightSession DEF Rows
  <2>4. /\ DOMAIN disk'[s].partial = DOMAIN disk[s].partial \ {step.p}
        /\ \A p \in DOMAIN disk'[s].partial : disk'[s].partial[p] = disk[s].partial[p]
    BY <2>1 DEF Without
  <2>5. AppRunning' => DOMAIN disk'[s].partial = {}
    <3>1. DOMAIN disk[s].partial \subseteq {step.p} \/ ~AppRunning
      BY <2>1, <2>2 DEF FileOrder
    <3> QED BY <1>0, <2>4, <3>1
  <2>6. Batch' => Batch /\ Top(s)' = Top(s)
    BY <2>1, <2>2, <2>3 DEF Batch, Top, OnlyIn
  <2> QED BY <2>1, <2>2, <2>3, <2>4, <2>5, <2>6 DEF FileOrder, Rows
<1>2. CASE Enter
  <2>1. /\ WorkerTypes' /\ OnlyIn(s) /\ KeepsFiles(s) /\ writer' = writer
        /\ disk'[s].status = disk[s].status
        /\ disk'[s].parts = disk[s].parts \union {step.p}
        /\ step.at = "enter" /\ handling.op \in {"append", "finish", "close", "idle"}
        /\ step' = Sealed(step)
    BY <1>2, EnterDoes
  <2>2. s \in Session /\ s \in Active /\ s \notin Writing /\ step.p \in Nat
    BY <2>1, StepIs DEF Control, StepFollows, WriterFollows
  <2>3. ~(s \in Writing)' /\ (s \in Active)'
    BY <2>1, <2>2, RightSession
  <2>4. step'.at \in {"rotate", "finish", "close", "recover"} /\ handling' = handling
        /\ (handling.op = "append" => step'.at = "rotate" /\ step'.p = step.p + 1)
    BY <2>1, SealedIs DEF OnlyIn
  <2>5. Batch' => Batch /\ Top(s) = step.p /\ Top(s)' = step.p
    <3>1. (step.p + 1) - 1 = step.p
      BY <2>2
    <3> QED BY <2>1, <2>2, <2>3, <2>4, <3>1 DEF Batch, Top
  <2>6. step.p <= step.p
    BY <2>2
  <2>7. AppRunning => DOMAIN disk'[s].partial = {}
    BY <2>1, <2>2 DEF FileOrder, KeepsFiles
  <2>8. \A p \in disk[s].parts \union DOMAIN disk[s].segment : Batch => p <= Top(s)
    BY <2>1, <2>2 DEF FileOrder
  <2>9. Batch' => \A p \in disk'[s].parts \union DOMAIN disk'[s].segment : p <= Top(s)'
    BY <2>1, <2>5, <2>6, <2>8 DEF KeepsFiles
  <2>10. /\ disk'[s].partial = disk[s].partial /\ disk'[s].segment = disk[s].segment
         /\ step'.at # "unlink"
    BY <2>1, <2>4 DEF KeepsFiles
  <2> QED BY <1>0, <2>2, <2>3, <2>7, <2>9, <2>10 DEF FileOrder
<1> QED BY <1>1, <1>2

LEMMA TrimFiles ==
  ASSUME WorkerTypes, Control, NEW s, s = step.s,
         main' = main, (\E p : RemovePart(p)) \/ Forget \/ CommitRows, FileOrder(s)
  PROVE  FileOrder(s)'
<1>1. /\ WorkerTypes' /\ OnlyIn(s) /\ writer' = writer /\ disk'[s].status = disk[s].status
      /\ disk'[s].partial = disk[s].partial /\ disk'[s].parts \subseteq disk[s].parts
      /\ \/ disk'[s].segment = disk[s].segment
         \/ \E p : disk'[s].segment = Without(disk[s].segment, p)
      /\ step.at \in {"trim", "forget", "commit"}
      /\ step'.at \in {"trim", "forget", "write", "retain"}
  <2>1. CASE \E p : RemovePart(p)
    <3>1. PICK p : RemovePart(p)
      BY <2>1
    <3> QED BY <3>1, RemovePartDoes DEF Rows
  <2>2. CASE Forget
    BY <2>2, ForgetDoes DEF KeepsFiles
  <2>3. CASE CommitRows
    BY <2>3, CommitDoes, RestIsTyped DEF KeepsFiles, Phases
  <2> QED BY <2>1, <2>2, <2>3
<1>2. s \in Session /\ s \in Active /\ s \in Writing
  BY <1>1, StepIs DEF Control, StepFollows, WriterFollows
<1>3. (s \in Writing)' /\ (s \in Active)'
  BY <1>1, <1>2, RightSession
<1>4. /\ DOMAIN disk'[s].segment \subseteq DOMAIN disk[s].segment
      /\ \A p \in DOMAIN disk'[s].segment : disk'[s].segment[p] = disk[s].segment[p]
  BY <1>1 DEF Without
<1> QED BY <1>1, <1>2, <1>3, <1>4 DEF FileOrder

\* The steps of records.
LEMMA RecordFiles ==
  ASSUME WorkerTypes, Control, NEW s \in Session, handling # Idle => AppRunning,
         \/ Insert /\ Fresh(handling.s) /\ s = handling.s
         \/ FinishRecord /\ s = step.s
         \/ Delete /\ s = step.s
         \/ Disconnect,
         main' = main, FileOrder(s)
  PROVE  FileOrder(s)'
<1>1. /\ WorkerTypes' /\ KeepsFiles(s) /\ writer' = writer /\ disk'[s].parts \subseteq disk[s].parts
      /\ step'.at \in {"open", "retain", "idle", "done"} /\ ~Batch'
      /\ (s \in Active)' \/ DOMAIN disk[s].partial = {}
      /\ s \in Active \/ DOMAIN disk[s].partial = {}
      /\ step.at # "unlink"
  <2>1. CASE Insert /\ Fresh(handling.s) /\ s = handling.s
    <3>1. /\ WorkerTypes' /\ OnlyIn(s) /\ KeepsFiles(s) /\ writer' = writer
          /\ disk'[s].status = "active" /\ disk'[s].parts = disk[s].parts
          /\ step.at = "retain" /\ step' = DoingPart("open", s, 1)
      BY <2>1, InsertDoes
    <3>2. step'.at = "open" /\ (s \in Active)' /\ ~Batch'
      <4>1. s \in Nat /\ 1 \in Nat /\ "open" \in Phases
        BY DEF Session, Phases
      <4>2. DoingPart("open", s, 1).at = "open"
        BY <4>1, RestIsTyped
      <4>3. step'.at = "open"
        BY <3>1, <4>2
      <4>4. (s \in Active)'
        BY <3>1, RightSession
      <4>5. ~Batch'
        BY <4>3 DEF Batch
      <4> QED BY <4>3, <4>4, <4>5
    <3>3. DOMAIN disk[s].partial = {}
      BY <2>1, FreshIsNew
    <3> QED BY <3>1, <3>2, <3>3
  <2>2. CASE FinishRecord /\ s = step.s
    <3>1. /\ WorkerTypes' /\ KeepsFiles(s) /\ writer' = writer /\ disk'[s].parts = disk[s].parts
          /\ step.at = "finish" /\ step' = Doing("retain")
      BY <2>2, FinishDoes
    <3>2. s \notin Writing /\ step'.at = "retain"
      BY <2>2, <3>1, RestIsTyped DEF Control, WriterFollows, Phases
    <3>3. AppRunning /\ step.at # "unlink"
      BY <2>2, <3>1, FinishDoes, HandlingIs
    <3>4. DOMAIN disk[s].partial = {} \/ s \notin Active
      BY <3>2, <3>3 DEF FileOrder
    <3>5. DOMAIN disk[s].partial = {}
      BY <3>4 DEF FileOrder
    <3> QED BY <3>1, <3>2, <3>5 DEF Batch
  <2>3. CASE Delete /\ s = step.s
    <3>1. /\ WorkerTypes' /\ KeepsFiles(s) /\ writer' = writer /\ disk'[s].parts = {}
          /\ s \in EndedSessions /\ step.at = "delete"
          /\ step' \in {Doing("idle"), Doing("retain")}
      BY <2>3, DeleteDoes
    <3>2. s \notin Active /\ step'.at \in {"idle", "retain"}
      BY <3>1, RestIsTyped DEF EndedSessions, Active, Phases
    <3>3. DOMAIN disk[s].partial = {}
      BY <3>2 DEF FileOrder
    <3> QED BY <3>1, <3>2, <3>3 DEF Batch
  <2>4. CASE Disconnect
    <3>1. /\ WorkerTypes' /\ KeepsFiles(s) /\ writer' = writer /\ disk'[s].parts = disk[s].parts
          /\ step.at = "close" /\ Writing = {} /\ step' = Doing("done")
      BY <2>4, DisconnectDoes
    <3>2. step'.at = "done"
      BY <3>1, RestIsTyped DEF Phases
    <3>3. AppRunning /\ step.at # "unlink"
      BY <2>4, <3>1, DisconnectDoes, HandlingIs
    <3>4. DOMAIN disk[s].partial = {} \/ s \notin Active
      BY <3>1, <3>3 DEF FileOrder
    <3>5. DOMAIN disk[s].partial = {}
      BY <3>4 DEF FileOrder
    <3> QED BY <3>1, <3>2, <3>5 DEF Batch
  <2> QED BY <2>1, <2>2, <2>3, <2>4
<1>2. (s \in Writing)' = (s \in Writing)
  BY <1>1, RightSession
<1>3. s \in Writing => s \in Active
  BY DEF Control, WriterFollows
<1>4. AppRunning /\ s \in Active \ Writing => DOMAIN disk[s].partial = {}
  BY <1>1 DEF FileOrder
<1>5. AppRunning' = AppRunning
  BY DEF AppRunning
<1>6. disk'[s].partial = disk[s].partial /\ disk'[s].segment = disk[s].segment
  BY <1>1 DEF KeepsFiles
<1>7. (s \in Active)' /\ AppRunning /\ ~(s \in Writing)' => DOMAIN disk[s].partial = {}
  BY <1>1, <1>2, <1>4
<1> QED BY <1>1, <1>2, <1>3, <1>5, <1>6, <1>7 DEF FileOrder

LEMMA TrashFiles ==
  ASSUME WorkerTypes, Control, NEW s \in Session, Trash(s), FileOrder(s)
  PROVE  FileOrder(s)'
<1>1. /\ WorkerTypes' /\ OnlyIn(s) /\ Rows(s) /\ writer' = writer /\ s \in EndedSessions
      /\ disk'[s].partial = <<>> /\ disk'[s].segment = <<>> /\ step'.at = "delete"
  BY TrashDoes
<1>2. s \notin Active /\ s \notin Writing
  BY <1>1 DEF EndedSessions, Active, Control, WriterFollows
<1>3. ~(s \in Active)' /\ ~(s \in Writing)' /\ ~Batch'
  <2> QED BY <1>1, <1>2, RightSession DEF Rows, Batch
<1> QED BY <1>1, <1>3 DEF FileOrder

LEMMA RecoveryFiles ==
  ASSUME WorkerTypes, Control, NEW s \in Session, main' = main, main.store # "closed",
         Recovered(s) \/ \E p \in DOMAIN disk[s].partial : RecoverPart(s, p), FileOrder(s)
  PROVE  FileOrder(s)'
<1>1. step.at = "recover" /\ s \in Active /\ WorkerTypes' /\ OnlyIn(s) /\ writer' = writer
      /\ handling = Idle
  BY RecoveredDoes, RecoverPartDoes
<1>2. ~AppRunning' /\ s \notin Writing /\ ~(s \in Writing)' /\ ~Batch'
  <2>1. main.store = "starting" /\ Writing = {}
    BY <1>1 DEF Control, Starting
  <2>2. ~Batch'
    BY <1>1, HandlingIs DEF Batch, OnlyIn
  <2> QED BY <1>1, <2>1, <2>2, RightSession DEF AppRunning
<1>3. CASE Recovered(s)
  <2>1. KeepsFiles(s) /\ DOMAIN disk[s].partial = {} /\ step'.at \in {"idle", "recover"}
    BY <1>3, RecoveredDoes, RestIsTyped DEF Phases
  <2> QED BY <1>2, <2>1 DEF FileOrder, KeepsFiles
<1>4. ASSUME NEW p \in DOMAIN disk[s].partial, RecoverPart(s, p)
      PROVE  FileOrder(s)'
  <2>1. Rows(s) /\ (s \in Active)'
    BY <1>1, <1>4, RecoverPartDoes, RightSession DEF Rows
  <2>2. CASE /\ disk'[s].partial = Without(disk[s].partial, p)
             /\ disk'[s].segment = disk[s].segment /\ step' = step
    <3>1. /\ DOMAIN disk'[s].partial \subseteq DOMAIN disk[s].partial
          /\ \A q \in DOMAIN disk'[s].partial : disk'[s].partial[q] = disk[s].partial[q]
      BY <2>2 DEF Without
    <3> QED BY <1>1, <1>2, <2>1, <2>2, <3>1 DEF FileOrder
  <2>3. CASE /\ disk'[s].partial = disk[s].partial
             /\ disk'[s].segment = With(disk[s].segment, p, disk[s].partial[p])
             /\ step'.at = "unlink" /\ step'.s = s /\ step'.p = p
    <3>1. /\ DOMAIN disk'[s].segment = DOMAIN disk[s].segment \union {p}
          /\ \A q \in DOMAIN disk'[s].segment : disk'[s].segment[q] =
               IF q = p THEN disk[s].partial[p] ELSE disk[s].segment[q]
      BY <2>3 DEF With
    <3>2. \A q \in DOMAIN disk[s].partial \intersect DOMAIN disk[s].segment :
            disk[s].segment[q] \subseteq disk[s].partial[q]
      BY DEF FileOrder
    <3>3. \A q \in DOMAIN disk'[s].partial \intersect DOMAIN disk'[s].segment :
            disk'[s].segment[q] \subseteq disk'[s].partial[q]
      BY <2>3, <3>1, <3>2
    <3>4. /\ step'.p \in DOMAIN disk'[s].partial \intersect DOMAIN disk'[s].segment
          /\ disk'[s].partial[step'.p] \subseteq disk'[s].segment[step'.p]
      BY <2>3, <3>1
    <3> QED BY <1>2, <2>1, <3>3, <3>4 DEF FileOrder
  <2> QED BY <1>4, <2>2, <2>3, RecoverPartDoes
<1> QED BY <1>3, <1>4

\* The step is one of session s alone.
Touches(s) ==
  /\ OnlyIn(s)
  /\ Batch \/ step.at = "unlink" => step.s = s
  /\ (Batch \/ step.at = "unlink")' => step'.s = s

LEMMA StepTouches ==
  ASSUME WorkerTypes, Control,
         \/ OpenPart \/ Write \/ Unlink \/ Enter \/ Forget \/ CommitRows \/ FinishRecord \/ Delete
         \/ \E p : RemovePart(p)
  PROVE  Touches(step.s)
<1> DEFINE Stays == step'.s = step.s \/ step'.at \in {"done", "retain", "finish", "close",
                                                       "recover", "idle"}
<1>1. ASSUME OnlyIn(step.s), Stays PROVE Touches(step.s)
  BY <1>1 DEF Touches, Batch
<1>2. CASE OpenPart
  <2>1. OnlyIn(step.s) /\ step.at \in {"open", "rotate"}
    BY <1>2, OpenDoes DEF OpenPart
  <2>2. step.at = "open" => step'.at = "done"
    BY <1>2, OpenDoes, RestIsTyped DEF Phases
  <2>3. step.at = "rotate" => step'.s = step.s
    BY <1>2, OpenDoes, TrimmingIs DEF WorkerTypes
  <2> QED BY <1>1, <2>1, <2>2, <2>3
<1>3. CASE Write
  BY <1>1, <1>3, WriteDoes
<1>4. CASE Unlink
  BY <1>1, <1>4, UnlinkDoes
<1>5. CASE Enter
  <2>1. OnlyIn(step.s) /\ step' = Sealed(step)
        /\ handling.op \in {"append", "finish", "close", "idle"}
    BY <1>5, EnterDoes
  <2>2. Stays
    BY <2>1, SealedIs
  <2> QED BY <1>1, <2>1, <2>2
<1>6. CASE Forget
  BY <1>1, <1>6, ForgetDoes
<1>7. CASE CommitRows
  BY <1>1, <1>7, CommitDoes, RestIsTyped DEF Phases
<1>8. CASE FinishRecord
  BY <1>1, <1>8, FinishDoes, RestIsTyped DEF Phases
<1>9. CASE Delete
  BY <1>1, <1>9, DeleteDoes, RestIsTyped DEF Phases
<1>10. CASE \E p : RemovePart(p)
  <2>1. PICK p : RemovePart(p)
    BY <1>10
  <2> QED BY <1>1, <2>1, RemovePartDoes
<1> QED BY <1>2, <1>3, <1>4, <1>5, <1>6, <1>7, <1>8, <1>9, <1>10

LEMMA SessionTouches ==
  ASSUME WorkerTypes, Control, NEW s \in Session,
         \/ Insert /\ s = handling.s
         \/ Compress(s) \/ Discard(s) \/ Trash(s) \/ Recovered(s)
         \/ \E p \in DOMAIN disk[s].partial : RecoverPart(s, p)
  PROVE  Touches(s)
<1>1. CASE Insert /\ s = handling.s
  <2>1. OnlyIn(s) /\ step.at = "retain" /\ step' = DoingPart("open", s, 1)
    BY <1>1, InsertDoes
  <2>2. step'.s = s
    <3>1. s \in Nat /\ 1 \in Nat /\ "open" \in Phases
      BY DEF Session, Phases
    <3>2. DoingPart("open", s, 1).s = s
      BY <3>1, RestIsTyped
    <3> QED BY <2>1, <3>2
  <2> QED BY <2>1, <2>2 DEF Touches, Batch
<1>2. CASE Compress(s)
  BY <1>2, CompressDoes DEF Touches, Batch
<1>3. CASE Discard(s)
  <2>1. /\ OnlyIn(s) /\ step' = Sealed(step)
        /\ \/ step.at = "seal" /\ step.s = s /\ handling.op \in {"append", "finish"}
           \/ step.at = "close" /\ handling.op = "close"
    BY <1>3, DiscardDoes
  <2>2. step'.s = step.s \/ step'.at \in {"finish", "close"}
    BY <2>1, SealedIs
  <2>3. step.at = "close" => step'.at = "close"
    BY <2>1, SealedIs
  <2> QED BY <2>1, <2>2, <2>3 DEF Touches, Batch
<1>4. CASE Trash(s)
  <2>1. OnlyIn(s) /\ step'.s = s /\ step.at \in {"trash", "idle", "retain"}
    BY <1>4, TrashDoes
  <2> QED BY <2>1 DEF Touches, Batch
<1>5. CASE Recovered(s)
  BY <1>5, RecoveredDoes, RestIsTyped DEF Touches, Batch, Phases
<1>6. CASE \E p \in DOMAIN disk[s].partial : RecoverPart(s, p)
  <2>1. PICK p \in DOMAIN disk[s].partial : RecoverPart(s, p)
    BY <1>6
  <2> QED BY <2>1, RecoverPartDoes DEF Touches, Batch
<1> QED BY <1>1, <1>2, <1>3, <1>4, <1>5, <1>6

LEMMA FilesKeep ==
  ASSUME HistoryInv, HandlerStep, main' = main, main.store # "closed",
         \A s \in Session : FileOrder(s)
  PROVE  \A s \in Session : FileOrder(s)'
<1>1. WorkerTypes /\ Control /\ StepOrder
      /\ (handling.op = "begin" /\ step.at = "retain" => Fresh(handling.s))
  BY DEF HistoryInv, RunInv, HistoryTypes, Begins
<1>2. \A s \in Session : Touches(s) => \A t \in Session : t # s => FileOrder(t)'
  BY OtherFiles DEF Touches
<1>3. \A s \in Session : Touches(s) /\ FileOrder(s)' => \A t \in Session : FileOrder(t)'
  BY <1>2
<1>4. handling # Idle => AppRunning
  BY <1>1 DEF Control, Starting, AppRunning, HistoryInv, RunInv, HistoryTypes, MainTypes, MainState
<1>5. CASE \/ OpenPart \/ Write \/ Unlink \/ Enter \/ Forget \/ CommitRows \/ FinishRecord
           \/ Delete \/ \E p : RemovePart(p)
  <2>0. PICK s : s = step.s
    OBVIOUS
  <2>1. Touches(s) /\ s \in Session
    BY <1>1, <1>5, <2>0, StepTouches DEF Touches, OnlyIn
  <2>2. FileOrder(s)'
    <3>1. CASE OpenPart
      <4>1. AppRunning
        BY <1>1, <1>4, <3>1, HandlingIs, OpenDoes DEF OpenPart
      <4> QED BY <1>1, <2>0, <2>1, <3>1, <4>1, OpenFiles
    <3>2. CASE Write
      BY <1>1, <2>0, <2>1, <3>2, WriteFiles
    <3>3. CASE Unlink \/ Enter
      BY <1>1, <2>0, <2>1, <3>3, UnlinkFiles
    <3>4. CASE Forget \/ CommitRows \/ \E p : RemovePart(p)
      BY <1>1, <2>0, <2>1, <3>4, TrimFiles
    <3>5. CASE FinishRecord \/ Delete
      BY <1>1, <1>4, <2>0, <2>1, <3>5, RecordFiles
    <3> QED BY <1>5, <3>1, <3>2, <3>3, <3>4, <3>5
  <2> QED BY <1>3, <2>1, <2>2
<1>6. CASE Insert
  <2>1. handling.s \in Session /\ handling # Idle /\ Fresh(handling.s)
    BY <1>1, <1>6, InsertDoes, HandlingIs
  <2> QED BY <1>1, <1>3, <1>4, <1>6, <2>1, SessionTouches, RecordFiles
<1>7. CASE Disconnect
  <2>1. AppRunning
    BY <1>1, <1>4, <1>7, DisconnectDoes, HandlingIs
  <2> QED BY <1>1, <1>7, <2>1, RecordFiles
<1>8. ASSUME NEW s \in Session,
             \/ Compress(s) \/ Discard(s) \/ Trash(s) \/ Recovered(s)
             \/ \E p \in DOMAIN disk[s].partial : RecoverPart(s, p)
      PROVE  \A t \in Session : FileOrder(t)'
  <2>1. Touches(s)
    BY <1>1, <1>8, SessionTouches
  <2>2. FileOrder(s)'
    BY <1>1, <1>8, CompressFiles, DiscardFiles, TrashFiles, RecoveryFiles
  <2> QED BY <1>3, <2>1, <2>2
<1> QED BY <1>5, <1>6, <1>7, <1>8 DEF HandlerStep

\* Nothing happens to the files, and the message in hand is none that wrote to them.
LEMMA SameFiles ==
  ASSUME NEW s \in Session, FileOrder(s), disk' = disk, writer' = writer,
         AppRunning' => AppRunning \/ Active = {},
         \/ step' = step /\ handling' = handling
         \/ /\ step.at # "unlink" /\ step'.at # "unlink"
            /\ Batch' => step'.s \in Writing
  PROVE  FileOrder(s)'
<1>1. (s \in Writing)' = (s \in Writing) /\ (s \in Active)' = (s \in Active) /\ Active' = Active
      /\ Writing' = Writing
  BY DEF Writing, Active
<1>2. CASE step' = step /\ handling' = handling
  <2>1. Batch' = Batch /\ Top(s)' = Top(s)
    BY <1>1, <1>2 DEF Batch, Top
  <2> QED BY <1>1, <1>2, <2>1 DEF FileOrder
<1>3. CASE /\ step.at # "unlink" /\ step'.at # "unlink"
           /\ Batch' => step'.s \in Writing
  BY <1>1, <1>3 DEF FileOrder
<1> QED BY <1>2, <1>3

\* Only a handler touches the files.
LEMMA OthersKeep ==
  ASSUME HistoryInv, HistoryNext, ~HandlerStep \/ ~Works, ~Restart
  PROVE  /\ disk' = disk /\ writer' = writer
         /\ AppRunning' => AppRunning \/ Active = {}
         /\ \/ step' = step /\ handling' = handling
            \/ /\ AppRunning /\ AppRunning' /\ Take
               /\ Active \subseteq Writing /\ handling = Idle
               /\ handling' = Head(inbox) /\ step' = First(Head(inbox))
               /\ step.at = "idle" /\ step'.at # "unlink" /\ step'.rows = {}
               /\ Batch' => /\ step'.s \in Writing /\ step'.es = handling'.es
                            /\ step'.at \in {"seal", "write"} /\ Fits(handling'.es)
            \/ /\ handling' = Idle /\ step'.rows = {} /\ step'.at \in {"closed", "idle"}
               /\ step.at \in {"done", "retain"} /\ step'.es = <<>>
<1>1. WorkerTypes /\ Control /\ RunInv /\ StepOrder
  BY DEF HistoryInv, RunInv, HistoryTypes
<1>2. CASE Works /\ ~HandlerStep
  <2>1. Take \/ Refuse \/ PostReply
    BY <1>2 DEF Works, WorkerNext, HandlerStep
  <2>2. disk' = disk /\ writer' = writer /\ main' = main /\ AppRunning' = AppRunning
    BY <1>2, <2>1 DEF Works, Take, Refuse, PostReply, AppRunning
  <2>3. CASE Refuse
    BY <2>2, <2>3 DEF Refuse
  <2>4. CASE PostReply
    <3>1. step'.at \in {"closed", "idle"} /\ step'.rows = {} /\ step'.es = <<>>
      BY <2>4, RestIsTyped DEF PostReply, Phases
    <3> QED BY <2>2, <2>4, <3>1 DEF PostReply
  <2>5. CASE Take
    <3>1. inbox # <<>> /\ handling = Idle /\ step.at = "idle"
          /\ handling' = Head(inbox) /\ step' = First(Head(inbox))
      BY <2>5 DEF Take
    <3>2. AppRunning
      BY <1>1, <1>2, <3>1 DEF Works, Control, Starting, AppRunning, RunInv, HistoryTypes,
                              MainTypes, MainState
    <3>3. Active \subseteq Writing
      <4>1. handling.op = "idle"
        BY <1>1, <3>1, HandlingIs
      <4> QED BY <1>1, <3>1, <3>2, <4>1 DEF Control, WriterFollows
    <3>4. PICK m : m = Head(inbox)
      OBVIOUS
    <3>5. m \in Msg /\ m = inbox[1] /\ 1 \in DOMAIN inbox
      BY <1>1, <3>1, <3>4, TailOf DEF WorkerTypes
    <3>6. m.op = "append" => m.es # <<>> /\ Fits(m.es)
      BY <1>1, <3>2, <3>5, IdleQueue DEF Ordered
    <3>7. PICK r : r = First(m)
      OBVIOUS
    <3>8. /\ r.rows = {} /\ r.at # "unlink"
          /\ m.op = "append" /\ r.at \in {"rotate", "write", "seal", "unlink", "enter", "trim",
                                          "forget", "commit"}
               => r.s \in Writing /\ r.es = m.es /\ r.at \in {"seal", "write"}
      BY <1>1, <3>3, <3>5, <3>6, <3>7, FirstIs DEF Msg, Ops
    <3>9. step' = r /\ handling' = m
      BY <3>1, <3>4, <3>7
    <3>10. Batch' => m.op = "append" /\ r.at \in {"rotate", "write", "seal", "unlink", "enter",
                                                  "trim", "forget", "commit"}
      BY <3>9 DEF Batch
    <3> QED BY <2>2, <2>5, <3>1, <3>2, <3>3, <3>6, <3>8, <3>9, <3>10
  <2> QED BY <2>1, <2>3, <2>4, <2>5
<1>3. CASE ~Works
  <2>1. UNCHANGED <<disk, writer, handling, step>>
    BY <1>3, MainKeeps DEF HistoryNext
  <2>2. AppRunning' => AppRunning \/ Active = {}
    <3>1. CASE Ready
      BY <1>1, <3>1 DEF Ready, Control, Starting
    <3>2. CASE ~Ready
      BY <1>3, <3>2 DEF HistoryNext, Handles, HandleReply, Enable, Disable, Pause,
         ResumeRecording, StartFile, EndFile, Output, FlushTimer, EndRecording, DeleteRecord, Close
    <3> QED BY <3>1, <3>2
  <2> QED BY <2>1, <2>2
<1> QED BY <1>2, <1>3

LEMMA FilesNext ==
  ASSUME HistoryInv, [HistoryNext]_historyVars, \A s \in Session : FileOrder(s)
  PROVE  \A s \in Session : FileOrder(s)'
<1>1. CASE HandlerStep /\ Works
  BY <1>1, FilesKeep DEF Works
<1>2. CASE Restart
  <2>1. /\ disk' = disk /\ ~AppRunning' /\ handling' = Idle
        /\ writer' = [s \in Session |-> NoWriter]
        /\ step' = Doing("idle") \/ step' = Doing("recover")
    BY <1>2 DEF Restart, WorkerStart, AppRunning, NewMain
  <2>2. ~Batch' /\ step'.at # "unlink"
    BY <2>1, RestIsTyped DEF Batch, Idle, Message, Phases
  <2>3. \A s \in Session : ~(s \in Writing)' /\ (s \in Active)' = (s \in Active)
    BY <2>1 DEF Writing, Active
  <2> QED BY <2>1, <2>2, <2>3 DEF FileOrder
<1>3. CASE HistoryNext /\ ~Restart /\ (~HandlerStep \/ ~Works)
  <2>1. /\ disk' = disk /\ writer' = writer
        /\ AppRunning' => AppRunning \/ Active = {}
        /\ \/ step' = step /\ handling' = handling
           \/ /\ step.at # "unlink" /\ step'.at # "unlink"
              /\ Batch' => step'.s \in Writing
    BY <1>3, OthersKeep DEF Batch
  <2> QED BY <2>1, SameFiles
<1>4. CASE UNCHANGED historyVars
  <2>1. disk' = disk /\ writer' = writer /\ step' = step /\ handling' = handling
        /\ AppRunning' = AppRunning
    BY <1>4 DEF historyVars, workerVars, AppRunning
  <2> QED BY <2>1, SameFiles
<1> QED BY <1>1, <1>2, <1>3, <1>4 DEF HistoryNext

\* The files of a part and the parts of a record follow each other in every reachable
\* state, also after a crash between any two steps of a rotation, a trim or a recovery
\* (finalizeWriter(), trimSessionParts() and recoverInterruptedSessions() of
\* history-worker.js).
THEOREM FilesInOrder == HistorySpec => [](\A s \in Session : FileOrder(s))
<1> DEFINE Inv == \A s \in Session : FileOrder(s)
<1>1. HistoryInit => Inv
  <2> SUFFICES ASSUME HistoryInit, NEW s \in Session PROVE FileOrder(s)
    OBVIOUS
  <2>1. DOMAIN disk[s].partial = {} /\ s \notin Writing /\ s \notin Active
    BY NoFiles DEF HistoryInit, WorkerInit, NewRecord, Writing, Active
  <2>2. step.at = "idle"
    BY RestIsTyped DEF HistoryInit, WorkerInit, Phases
  <2> QED BY <2>1, <2>2 DEF FileOrder, Batch
<1>2. HistoryInv /\ [HistoryNext]_historyVars /\ Inv => Inv'
  BY FilesNext
<1>3. HistorySpec => []HistoryInv
  BY HistoryInvariant
<1> HIDE DEF Inv
<1>4. HistorySpec => []Inv
  BY <1>1, <1>2, <1>3, PTL DEF HistorySpec
<1> QED BY <1>4 DEF Inv

-----------------------------------------------------------------------------
(* The rows and the files of their parts *)

LEMMA RowsTyped ==
  ASSUME WorkerTypes, NEW s \in Session
  PROVE  /\ AllRows(s) \subseteq Row /\ disk[s].chunks \subseteq AllRows(s)
         /\ BatchRows(s) \subseteq AllRows(s) /\ Top(s) \in Int /\ Count(s) \in Nat
         /\ \A x \in AllRows(s) : x[1] \in Nat /\ x[2] \in Nat /\ x = <<x[1], x[2]>>
<1>1. BatchRows(s) \subseteq Row /\ disk[s].chunks \subseteq Row
  BY StepIs, DiskIs DEF BatchRows
<1>2. Top(s) \in Int /\ Count(s) \in Nat
  BY StepIs, DiskIs, WorkerAssumption DEF Top, Count
<1> QED BY <1>1, <1>2 DEF AllRows, Row

\* No new rows, and their parts are still known.
LEMMA FewerRows ==
  ASSUME WorkerTypes, WorkerTypes', NEW s \in Session, RowOrder(s),
         AllRows(s)' \subseteq AllRows(s),
         \/ disk'[s].chunks \subseteq disk[s].chunks /\ BatchRows(s)' \subseteq BatchRows(s)
         \/ BatchRows(s)' = {},
         InHand(s)' => /\ InHand(s) /\ Top(s) <= Top(s)'
                       /\ \A x \in AllRows(s)' : x[2] \in disk[s].parts \union {Top(s)}
                            => x[2] \in disk'[s].parts \union {Top(s)'}
  PROVE  RowOrder(s)'
<1>1. \A x, y \in AllRows(s)' : x[1] <= y[1] => x[2] <= y[2]
  BY DEF RowOrder
<1>2. \A x \in disk'[s].chunks, y \in BatchRows(s)' : x[1] < y[1]
  BY DEF RowOrder
<1>3. InHand(s)' => \A x \in AllRows(s)' : /\ x[2] <= Top(s)'
                                           /\ x[2] \in disk'[s].parts \union {Top(s)'}
  <2>1. Top(s) \in Int /\ \A x \in AllRows(s) : x[2] \in Nat
    BY RowsTyped
  <2>2. Top(s)' \in Int
    <3>1. writer'[s].part \in Int /\ step'.p \in Int
      BY DEF WorkerTypes, WriterState, StepState
    <3> QED BY <3>1 DEF Top
  <2>3. \A a, b, c \in Int : a <= b /\ b <= c => a <= c
    OBVIOUS
  <2> QED BY <2>1, <2>2, <2>3 DEF RowOrder
<1> QED BY <1>1, <1>2, <1>3 DEF RowOrder

LEMMA NoRows ==
  ASSUME NEW s \in Session, disk'[s].chunks = {}, BatchRows(s)' = {}
  PROVE  RowOrder(s)' /\ RowFiles(s)'
BY DEF RowOrder, RowFiles, AllRows

\* The files still hold what they held of the parts that have rows.
LEMMA SameRowFiles ==
  ASSUME NEW s \in Session, RowFiles(s),
         disk'[s].chunks \subseteq disk[s].chunks \union BatchRows(s),
         BatchRows(s)' \subseteq BatchRows(s),
         \A x \in disk'[s].chunks \union BatchRows(s)' :
           /\ Stored(s, x[2]) \subseteq Stored(s, x[2])'
           /\ Forgetting(s, x[2]) => Forgetting(s, x[2])',
         Deleting(s) => Deleting(s)' \/ disk'[s].chunks = {}
  PROVE  RowFiles(s)'
BY DEF RowFiles

LEMMA StoredIs ==
  ASSUME NEW s, NEW p, NEW e
  PROVE  /\ e \in Stored(s, p) <=> \/ p \in DOMAIN disk[s].partial /\ e \in disk[s].partial[p]
                                   \/ p \in DOMAIN disk[s].segment /\ e \in disk[s].segment[p]
         /\ e \in Stored(s, p)' <=> \/ p \in DOMAIN disk'[s].partial /\ e \in disk'[s].partial[p]
                                    \/ p \in DOMAIN disk'[s].segment /\ e \in disk'[s].segment[p]
BY DEF Stored

LEMMA SameStored ==
  ASSUME NEW s,
         \A p, e :
           \/ p \in DOMAIN disk[s].partial /\ e \in disk[s].partial[p]
           \/ p \in DOMAIN disk[s].segment /\ e \in disk[s].segment[p]
           <=>
           \/ p \in DOMAIN disk'[s].partial /\ e \in disk'[s].partial[p]
           \/ p \in DOMAIN disk'[s].segment /\ e \in disk'[s].segment[p]
  PROVE  \A p : Stored(s, p)' = Stored(s, p)
<1> TAKE p
<1>1. \A e : e \in Stored(s, p)' <=> e \in Stored(s, p)
  BY StoredIs
<1> QED BY <1>1

\* Without a batch there are no rows on their way.
LEMMA NoBatch ==
  ASSUME NEW s
  PROVE  /\ ~Batch => BatchRows(s) = {} /\ AllRows(s) = disk[s].chunks
         /\ ~Batch' => BatchRows(s)' = {} /\ AllRows(s)' = disk'[s].chunks
         /\ Batch /\ step.s = s => BatchRows(s) = step.rows
         /\ Batch' /\ step'.s = s => BatchRows(s)' = step'.rows
         /\ Batch /\ step.s = s => InHand(s)
         /\ ~Batch /\ s \notin Writing => ~InHand(s)
         /\ ~Batch' /\ ~(s \in Writing)' => ~InHand(s)'
BY DEF BatchRows, AllRows, InHand

\* What a step has to establish of the session it touches.
RowsOf(s) == RowOrder(s) /\ RowFiles(s)

\* The steps that only end things: no batch, no new rows, no file less of a row.
LEMMA QuietRows ==
  ASSUME WorkerTypes, WorkerTypes', NEW s \in Session, RowsOf(s), ~Batch, ~Batch',
         disk'[s].chunks \subseteq disk[s].chunks,
         (s \in Writing)' => s \in Writing /\ writer'[s].part = writer[s].part,
         \/ disk'[s].chunks = {}
         \/ /\ \A p : Stored(s, p)' = Stored(s, p)
            /\ disk[s].parts \subseteq disk'[s].parts
            /\ Deleting(s) => Deleting(s)'
  PROVE  RowsOf(s)'
<1>1. /\ BatchRows(s) = {} /\ BatchRows(s)' = {} /\ AllRows(s) = disk[s].chunks
      /\ AllRows(s)' = disk'[s].chunks
  BY NoBatch
<1>2. CASE disk'[s].chunks = {}
  BY <1>1, <1>2, NoRows DEF RowsOf
<1>3. CASE /\ \A p : Stored(s, p)' = Stored(s, p)
           /\ disk[s].parts \subseteq disk'[s].parts
           /\ Deleting(s) => Deleting(s)'
  <2>1. RowFiles(s)'
    <3>1. \A p : Forgetting(s, p) => Forgetting(s, p)'
      BY <1>3 DEF Forgetting
    <3> QED BY <1>1, <1>3, <3>1, SameRowFiles DEF RowsOf
  <2>2. InHand(s)' => InHand(s) /\ Top(s)' = Top(s)
    BY DEF InHand, Top
  <2>3. Top(s) \in Int
    BY RowsTyped
  <2>4. RowOrder(s)'
    BY <1>1, <1>3, <2>2, <2>3, FewerRows DEF RowsOf
  <2> QED BY <2>1, <2>4 DEF RowsOf
<1> QED BY <1>2, <1>3

\* A batch goes on with the rows it has.
LEMMA BatchRowsKeep ==
  ASSUME WorkerTypes, WorkerTypes', NEW s \in Session, RowsOf(s), Batch, step.s = s,
         Batch', step'.s = s, step'.rows = step.rows, disk'[s].chunks = disk[s].chunks,
         disk[s].status = disk'[s].status, s \in Active,
         \A p : Stored(s, p)' = Stored(s, p),
         Top(s)' >= Top(s),
         disk[s].parts \union {Top(s)} \subseteq disk'[s].parts \union {Top(s)'},
         disk[s].parts \subseteq disk'[s].parts
  PROVE  RowsOf(s)'
<1>1. /\ BatchRows(s) = step.rows /\ BatchRows(s)' = step.rows
      /\ AllRows(s)' = AllRows(s) /\ InHand(s)
  BY NoBatch DEF AllRows
<1>2. RowFiles(s)'
  <2>1. \A p : Forgetting(s, p) => Forgetting(s, p)'
    BY DEF Forgetting
  <2>2. ~Deleting(s)
    BY DEF Deleting, Active, EndedSessions
  <2> QED BY <1>1, <2>1, <2>2, SameRowFiles DEF RowsOf
<1>3. Top(s) <= Top(s)'
  <2>1. Top(s) \in Int /\ Top(s)' \in Int
    <3>1. writer'[s].part \in Int /\ step'.p \in Int
      BY DEF WorkerTypes, WriterState, StepState
    <3> QED BY <3>1, RowsTyped DEF Top
  <2> QED BY <2>1
<1>4. RowOrder(s)'
  BY <1>1, <1>3, FewerRows DEF RowsOf
<1> QED BY <1>2, <1>4 DEF RowsOf

LEMMA SealRows ==
  ASSUME WorkerTypes, Control, StepOrder, NEW s \in Session, Compress(s) \/ Discard(s),
         FileOrder(s), RowsOf(s)
  PROVE  RowsOf(s)'
<1> DEFINE p == writer[s].part
<1>1. /\ WorkerTypes' /\ OnlyIn(s) /\ Rows(s) /\ s \in Writing /\ p \in DOMAIN disk[s].partial
      /\ s \in Active /\ writer'[s] = NoWriter
      /\ \/ step.at = "seal" /\ step.s = s /\ handling.op \in {"append", "finish"}
         \/ step.at = "close" /\ handling.op = "close"
  BY CompressDoes, DiscardDoes DEF Control, WriterFollows
<1>2. ~(s \in Writing)' /\ handling' = handling
  BY <1>1, RightSession DEF OnlyIn
<1>3. p \notin DOMAIN disk[s].segment
  <2>1. p \in Nat
    BY DiskIs
  <2> QED BY <1>1, <2>1 DEF FileOrder
<1>4. \A q : Stored(s, q)' = Stored(s, q)
  <2>1. CASE Compress(s)
    <3>1. /\ disk'[s].partial = disk[s].partial
          /\ disk'[s].segment = With(disk[s].segment, p, disk[s].partial[p])
      BY <2>1, CompressDoes
    <3> QED BY <1>1, <1>3, <3>1, SameStored DEF With
  <2>2. CASE Discard(s)
    <3>1. /\ disk'[s].partial = Without(disk[s].partial, p) /\ writer[s].count = 0
          /\ disk'[s].segment = disk[s].segment
      BY <2>2, DiscardDoes
    <3>2. disk[s].partial[p] = {}
      BY <1>1, <3>1 DEF FileOrder
    <3> QED BY <1>1, <3>1, <3>2, SameStored DEF Without
  <2> QED BY <2>1, <2>2
<1>5. ~Deleting(s)
  BY <1>1 DEF Deleting, Active, EndedSessions
<1>6. CASE handling.op # "append"
  BY <1>1, <1>2, <1>4, <1>5, <1>6, QuietRows DEF Batch, Rows
<1>7. CASE handling.op = "append"
  <2>1. Compress(s)
    BY <1>7, DiscardFiles
  <2>2. step'.at = "unlink" /\ step'.s = s /\ step'.p = p /\ step'.rows = step.rows
        /\ step.at = "seal" /\ step.s = s
    BY <1>1, <1>7, <2>1, CompressDoes
  <2>3. Batch /\ Batch'
    BY <1>2, <1>7, <2>2 DEF Batch
  <2>4. Top(s) = p /\ Top(s)' = p
    BY <1>1, <1>2, <2>2 DEF Top
  <2>5. p >= p
    BY DiskIs
  <2> QED BY <1>1, <1>4, <2>2, <2>3, <2>4, <2>5, BatchRowsKeep DEF Rows
<1> QED BY <1>6, <1>7

LEMMA OpenRows ==
  ASSUME WorkerTypes, Control, StepOrder, BatchRoom, NEW s, s = step.s, OpenPart, RowsOf(s)
  PROVE  RowsOf(s)'
<1>1. /\ WorkerTypes' /\ OnlyIn(s) /\ Rows(s) /\ disk'[s].segment = disk[s].segment
      /\ disk'[s].partial = IF step.p \in DOMAIN disk[s].partial THEN disk[s].partial
                            ELSE With(disk[s].partial, step.p, {})
      /\ writer'[s].part = step.p /\ writer'[s].count = 0
      /\ step.at = "open" => handling.op = "begin" /\ step' = Doing("done")
      /\ step.at = "rotate" => handling.op = "append" /\ step' = Trimming(step, disk[s].parts)
  BY OpenDoes
<1>2. /\ s \in Session /\ step.at \in {"open", "rotate"} /\ s \in Active /\ s \notin Writing
      /\ step.p \in Nat /\ step.p # 0
  BY <1>1, StepIs DEF OpenPart, OnlyIn, Control, StepFollows, WriterFollows
<1>3. CASE step.at = "open"
  <2>1. disk'[s].chunks = {}
    BY <1>1, <1>2, <1>3 DEF StepOrder, NewRecord, Rows
  <2>2. BatchRows(s)' = {}
    <3>1. step'.at = "done"
      BY <1>1, <1>3, RestIsTyped DEF Phases
    <3> QED BY <3>1 DEF BatchRows, Batch
  <2> QED BY <1>2, <2>1, <2>2, NoRows DEF RowsOf
<1>4. CASE step.at = "rotate"
  <2>1. step'.at \in {"trim", "write"} /\ step'.s = s /\ step'.rows = step.rows
    BY <1>1, <1>4, TrimmingIs DEF WorkerTypes
  <2>2. Batch /\ Batch'
    BY <1>1, <1>4, <2>1 DEF Batch, OnlyIn
  <2>3. Top(s) = step.p - 1 /\ Top(s)' = step.p
    <3>1. (s \in Writing)'
      BY <1>1, <1>2, RightSession DEF NoWriter
    <3> QED BY <1>1, <1>2, <1>4, <3>1 DEF Top
  <2>4. step.p - 1 \in disk[s].parts /\ step.p >= step.p - 1
    BY <1>2, <1>4, <2>2 DEF BatchRoom
  <2>5. \A q : Stored(s, q)' = Stored(s, q)
    BY <1>1, SameStored DEF With
  <2> QED BY <1>1, <1>2, <2>1, <2>2, <2>3, <2>4, <2>5, BatchRowsKeep DEF Rows
<1> QED BY <1>2, <1>3, <1>4

LEMMA UnlinkRows ==
  ASSUME WorkerTypes, Control, StepOrder, NEW s, s = step.s, Unlink \/ Enter,
         FileOrder(s), RowsOf(s)
  PROVE  RowsOf(s)'
<1>1. /\ WorkerTypes' /\ OnlyIn(s) /\ disk'[s].status = disk[s].status
      /\ disk'[s].chunks = disk[s].chunks /\ disk[s].parts \subseteq disk'[s].parts
      /\ writer' = writer
      /\ step.at \in {"unlink", "enter"}
      /\ handling.op = "append" =>
           /\ step'.s = s /\ step'.rows = step.rows
           /\ \/ step'.at = "enter" /\ step'.p = step.p
              \/ step'.at = "rotate" /\ step'.p = step.p + 1
  <2>1. CASE Unlink
    BY <2>1, UnlinkDoes DEF Rows
  <2>2. CASE Enter
    BY <2>2, EnterDoes, SealedIs
  <2> QED BY <2>1, <2>2
<1>2. s \in Session /\ s \in Active /\ s \notin Writing /\ step.p \in Nat
      /\ ~(s \in Writing)' /\ handling' = handling
  <2>1. s \in Session /\ s \in Active /\ s \notin Writing
    BY <1>1, StepIs DEF Control, StepFollows, WriterFollows
  <2> QED BY <1>1, <2>1, StepIs, RightSession DEF OnlyIn
<1>3. \A q : Stored(s, q)' = Stored(s, q)
  <2>1. CASE Unlink
    <3>1. /\ disk'[s].partial = Without(disk[s].partial, step.p)
          /\ disk'[s].segment = disk[s].segment /\ step.at = "unlink"
      BY <2>1, UnlinkDoes
    <3>2. /\ step.p \in DOMAIN disk[s].partial \intersect DOMAIN disk[s].segment
          /\ disk[s].partial[step.p] \subseteq disk[s].segment[step.p]
      BY <3>1 DEF FileOrder
    <3> QED BY <3>1, <3>2, SameStored DEF Without
  <2>2. CASE Enter
    <3>1. KeepsFiles(s)
      BY <2>2, EnterDoes
    <3> QED BY <3>1, SameStored DEF KeepsFiles
  <2> QED BY <2>1, <2>2
<1>4. ~Deleting(s)
  BY <1>2 DEF Deleting, Active, EndedSessions
<1>5. CASE handling.op # "append"
  BY <1>1, <1>2, <1>3, <1>4, <1>5, QuietRows DEF Batch
<1>6. CASE handling.op = "append"
  <2>1. Batch /\ Batch'
    BY <1>1, <1>2, <1>6 DEF Batch
  <2>2. Top(s) = step.p /\ Top(s)' = step.p /\ step.p >= step.p
    <3>1. (step.p + 1) - 1 = step.p
      BY <1>2
    <3> QED BY <1>1, <1>2, <1>6, <3>1 DEF Top
  <2>3. disk[s].parts \union {Top(s)} \subseteq disk'[s].parts \union {Top(s)'}
    BY <1>1, <2>2
  <2> QED BY <1>1, <1>2, <1>3, <1>6, <2>1, <2>2, <2>3, BatchRowsKeep
<1> QED BY <1>5, <1>6

LEMMA WriteRows ==
  ASSUME WorkerTypes, Control, StepOrder, NEW s, s = step.s, NEW e, e = Head(step.es),
         NEW p, p = writer[s].part, Write, FileOrder(s), RowsOf(s)
  PROVE  RowsOf(s)'
<1>1. /\ WorkerTypes' /\ OnlyIn(s) /\ Rows(s) /\ p \in DOMAIN disk[s].partial /\ e \in Nat
      /\ disk'[s].segment = disk[s].segment
      /\ disk'[s].partial = With(disk[s].partial, p, disk[s].partial[p] \union {e})
      /\ writer'[s].part = p /\ writer'[s].count = writer[s].count + 1
      /\ step'.at \in {"commit", "seal", "write"}
      /\ step'.s = s /\ step'.rows = step.rows \union {<<e, p>>}
  BY WriteDoes
<1>2. /\ s \in Session /\ s \in Writing /\ s \in Active /\ p \in Nat
      /\ step.es # <<>> /\ handling.op = "append" /\ step.at = "write"
      /\ step.es \in Seq(Nat) /\ writer[s].count \in Nat
  <2>1. s \in Writing
    BY DEF Write, Control, WriterFollows
  <2> QED BY <1>1, <2>1, StepIs, DiskIs DEF Control, StepFollows, WriterFollows, Write, OnlyIn
<1>3. Batch /\ Batch' /\ (s \in Writing)'
  BY <1>1, <1>2, RightSession DEF Batch, OnlyIn, NoWriter
<1>4. Top(s) = p /\ Top(s)' = p
  BY <1>1, <1>2, <1>3 DEF Top
<1>5. /\ BatchRows(s) = step.rows /\ BatchRows(s)' = step.rows \union {<<e, p>>}
      /\ disk'[s].chunks = disk[s].chunks /\ InHand(s)
      /\ AllRows(s)' = AllRows(s) \union {<<e, p>>}
  BY <1>1, <1>3, NoBatch DEF AllRows, Rows
<1>6. \A x \in AllRows(s) : x[1] < e /\ x[1] \in Int /\ x[2] \in Int
  <2>1. Before(Past(s), Range(step.es)) /\ Ascends(step.es)
    BY <1>3 DEF StepOrder
  <2>2. e \in Range(step.es)
    BY <1>2, <2>1, HeadFirst
  <2>3. \A x \in AllRows(s) : x[1] \in Past(s)
    BY DEF AllRows, Past, PastEvents
  <2> QED BY <1>2, <2>1, <2>2, <2>3, RowsTyped DEF Before
<1>7. <<e, p>>[1] = e /\ <<e, p>>[2] = p
  OBVIOUS
<1>8. \A x \in AllRows(s) : x[2] <= p /\ x[2] \in disk[s].parts \union {p}
  BY <1>4, <1>5 DEF RowsOf, RowOrder
<1>9. RowOrder(s)'
  <2>1. \A x, y \in AllRows(s)' : x[1] <= y[1] => x[2] <= y[2]
    <3>1. \A x, y \in AllRows(s) : x[1] <= y[1] => x[2] <= y[2]
      BY DEF RowsOf, RowOrder
    <3>2. \A x \in AllRows(s) : ~(e <= x[1])
      BY <1>1, <1>6
    <3>3. p <= p
      BY <1>2
    <3> QED BY <1>5, <1>7, <1>8, <3>1, <3>2, <3>3
  <2>2. \A x \in disk'[s].chunks, y \in BatchRows(s)' : x[1] < y[1]
    BY <1>5, <1>6, <1>7 DEF RowsOf, RowOrder, AllRows
  <2>3. \A x \in AllRows(s)' : x[2] <= p /\ x[2] \in disk'[s].parts \union {p}
    <3>1. disk'[s].parts = disk[s].parts /\ p <= p
      BY <1>1, <1>2 DEF Rows
    <3> QED BY <1>5, <1>7, <1>8, <3>1
  <2> QED BY <1>4, <2>1, <2>2, <2>3 DEF RowOrder
<1>10. RowFiles(s)'
  <2>1. \A q : Stored(s, q) \subseteq Stored(s, q)' /\ (q # p => Stored(s, q)' = Stored(s, q))
    <3>1. \A q, x : x \in Stored(s, q) => x \in Stored(s, q)'
      BY <1>1, StoredIs DEF With
    <3>2. \A q, x : q # p /\ x \in Stored(s, q)' => x \in Stored(s, q)
      BY <1>1, StoredIs DEF With
    <3>3. \A q : Stored(s, q) \subseteq Stored(s, q)'
      BY <3>1
    <3>4. \A q : q # p => Stored(s, q)' \subseteq Stored(s, q)
      BY <3>2
    <3> QED BY <3>3, <3>4
  <2>2. e \in Stored(s, p)'
    BY <1>1, StoredIs DEF With
  <2>3. p \notin disk[s].parts
    BY <1>2 DEF FileOrder
  <2>4. \A q : Forgetting(s, q) => Forgetting(s, q)'
    BY <1>1, <2>1, <2>3 DEF Forgetting, Rows
  <2>5. ~Deleting(s)
    BY <1>2 DEF Deleting, Active, EndedSessions
  <2>6. \A x \in disk[s].chunks : x[1] \in Stored(s, x[2]) \/ Forgetting(s, x[2])
    BY <2>5 DEF RowsOf, RowFiles
  <2>7. \A x \in BatchRows(s) : x[1] \in Stored(s, x[2])
    BY DEF RowsOf, RowFiles
  <2>8. \A x \in disk'[s].chunks : x[1] \in Stored(s, x[2])' \/ Forgetting(s, x[2])'
    BY <1>5, <2>1, <2>4, <2>6
  <2>9. \A x \in BatchRows(s)' : x[1] \in Stored(s, x[2])'
    BY <1>5, <1>7, <2>1, <2>2, <2>7
  <2> QED BY <2>8, <2>9 DEF RowFiles
<1> QED BY <1>9, <1>10 DEF RowsOf

\* A lowest of many parts is far below what is above all of them.
LEMMA LowestIsLow ==
  ASSUME NEW P \in SUBSET Nat, IsFiniteSet(P), NEW p \in P, Lowest(P, p), NEW t \in Int,
         \A q \in P : q < t
  PROVE  Cardinality(P) <= t - p
<1>1. P \subseteq p .. (t - 1)
  BY DEF Lowest
<1>2. p \in Int /\ t - 1 \in Int /\ p < t
  OBVIOUS
<1>3. IsFiniteSet(p .. (t - 1)) /\ Cardinality(p .. (t - 1)) = (t - 1) - p + 1
  BY <1>2, FS_Interval
<1>4. Cardinality(P) <= Cardinality(p .. (t - 1))
  BY <1>1, <1>3, FS_Subset
<1> QED BY <1>2, <1>3, <1>4

\* The trim takes no part that the batch in hand wrote to.
LEMMA TrimSpares ==
  ASSUME WorkerTypes, Control, BatchRoom, NEW s, s = step.s, FileOrder(s), NEW p, RemovePart(p),
         RowsOf(s)
  PROVE  \A r \in step.rows : r[2] # p
<1>1. /\ p \in Nat /\ Lowest(disk[s].parts, p) /\ step.at = "trim" /\ p \in disk[s].parts
  BY RemovePartDoes DEF Lowest
<1>2. s \in Session /\ s \in Writing /\ handling.op = "append" /\ step.es # <<>>
  BY <1>1, StepIs DEF Control, StepFollows, WriterFollows
<1>3. Batch /\ Top(s) = writer[s].part
  BY <1>1, <1>2 DEF Batch, Top
<1>4. disk[s].parts \in SUBSET Nat /\ IsFiniteSet(disk[s].parts) /\ Top(s) \in Int
      /\ Cardinality(disk[s].parts) \in Int /\ Count(s) \in Nat
  BY <1>2, DiskIs, RowsTyped, FS_CardinalityType
<1>5. Cardinality(disk[s].parts) <= Top(s) - p
  <2>1. \A q \in disk[s].parts : q < Top(s)
    BY <1>2, <1>3 DEF FileOrder
  <2> QED BY <1>1, <1>4, <2>1, LowestIsLow
<1>6. MaxParts <= Top(s) - p /\ MaxParts \in Nat /\ PartSize \in Nat /\ MaxParts >= 1
  BY <1>1, <1>2, <1>3, <1>4, <1>5, WorkerAssumption DEF BatchRoom
<1>7. Written < Room /\ Written \in Int /\ Room \in Int
  <2>1. Len(handling.es) <= Room
    BY <1>2, <1>3 DEF BatchRoom
  <2>2. Len(step.es) \in Nat /\ Len(step.es) > 0 /\ Len(handling.es) \in Nat
    BY <1>2, StepIs, HandlingIs
  <2>3. Room \in Int
    BY <1>6 DEF Room
  <2>4. \A a, b, c \in Int : a <= c /\ b > 0 => a - b < c /\ a - b \in Int
    OBVIOUS
  <2>5. PICK a, b, c : a = Len(handling.es) /\ b = Len(step.es) /\ c = Room
    OBVIOUS
  <2>6. a \in Int /\ b \in Int /\ c \in Int /\ a <= c /\ b > 0
    BY <2>1, <2>2, <2>3, <2>5
  <2>7. a - b < c /\ a - b \in Int
    BY <2>4, <2>6
  <2>8. Written = a - b
    BY <2>5 DEF Written
  <2> QED BY <2>3, <2>5, <2>7, <2>8
<1> SUFFICES ASSUME NEW r \in step.rows, r[2] = p PROVE FALSE
  OBVIOUS
<1>8. Written >= 1 + (Top(s) - p - 1) * PartSize + Count(s)
  <2>1. r[2] < Top(s)
    BY <1>1, <1>4, <1>6
  <2> QED BY <1>2, <1>3, <2>1 DEF BatchRoom
<1>9. (Top(s) - p - 1) * PartSize >= (MaxParts - 1) * PartSize
      /\ (Top(s) - p - 1) * PartSize \in Int /\ (MaxParts - 1) * PartSize \in Int
  <2>1. \A a, b \in Int, c \in Nat : a >= b => a * c >= b * c /\ a * c \in Int /\ b * c \in Int
    OBVIOUS
  <2>2. Top(s) - p - 1 \in Int /\ MaxParts - 1 \in Int /\ Top(s) - p - 1 >= MaxParts - 1
    BY <1>1, <1>4, <1>6
  <2> QED BY <1>6, <2>1, <2>2
<1> QED BY <1>4, <1>7, <1>8, <1>9 DEF Room

LEMMA TrimRows ==
  ASSUME WorkerTypes, Control, StepOrder, BatchRoom, NEW s, s = step.s, FileOrder(s),
         NEW p, RemovePart(p), RowsOf(s)
  PROVE  RowsOf(s)'
<1>1. /\ WorkerTypes' /\ OnlyIn(s) /\ Rows(s) /\ writer' = writer
      /\ p \in Nat /\ p \in disk[s].parts
      /\ disk'[s].partial = disk[s].partial /\ disk'[s].segment = Without(disk[s].segment, p)
      /\ step.at = "trim" /\ step'.at = "forget" /\ step'.s = s /\ step'.rows = step.rows
  BY RemovePartDoes DEF Lowest
<1>2. s \in Session /\ s \in Writing /\ s \in Active /\ handling.op = "append"
  BY <1>1, StepIs DEF Control, StepFollows, WriterFollows
<1>3. Batch /\ Batch' /\ (s \in Writing)'
  BY <1>1, <1>2, RightSession DEF Batch, OnlyIn
<1>4. Top(s)' = Top(s) /\ Top(s) \in Int /\ InHand(s)
  BY <1>1, <1>2, <1>3, RowsTyped DEF Top, InHand
<1>5. /\ BatchRows(s) = step.rows /\ BatchRows(s)' = step.rows
      /\ disk'[s].chunks = disk[s].chunks /\ AllRows(s)' = AllRows(s)
      /\ disk'[s].parts = disk[s].parts
  BY <1>1, <1>3, NoBatch DEF AllRows, Rows
<1>6. RowOrder(s)'
  BY <1>1, <1>2, <1>4, <1>5, FewerRows DEF RowsOf
<1>7. RowFiles(s)'
  <2>1. p \notin DOMAIN disk[s].partial
    <3>1. DOMAIN disk[s].partial = {writer[s].part} /\ p < writer[s].part
      BY <1>1, <1>2 DEF FileOrder
    <3> QED BY <1>1, <3>1
  <2>2. \A q : q # p => Stored(s, q)' = Stored(s, q)
    <3>1. \A q, x : q # p => (x \in Stored(s, q)' <=> x \in Stored(s, q))
      BY <1>1, StoredIs DEF Without
    <3>2. \A q : q # p => \A x : x \in Stored(s, q)' <=> x \in Stored(s, q)
      BY <3>1
    <3> QED BY <3>2
  <2>3. Stored(s, p)' = {}
    <3>1. \A x : x \notin Stored(s, p)'
      BY <1>1, <2>1, StoredIs DEF Without
    <3> QED BY <3>1
  <2>4. Forgetting(s, p)'
    BY <1>1, <1>5, <2>3 DEF Forgetting
  <2>5. \A q : q # p /\ Forgetting(s, q) => Forgetting(s, q)'
    BY <1>5, <2>2 DEF Forgetting
  <2>6. ~Deleting(s)
    BY <1>2 DEF Deleting, Active, EndedSessions
  <2>7. \A x \in disk[s].chunks : x[1] \in Stored(s, x[2])' \/ Forgetting(s, x[2])'
    BY <2>2, <2>4, <2>5, <2>6 DEF RowsOf, RowFiles
  <2>8. \A x \in step.rows : x[1] \in Stored(s, x[2])'
    <3>1. \A x \in step.rows : x[2] # p
      BY TrimSpares
    <3> QED BY <1>5, <2>2, <3>1 DEF RowsOf, RowFiles
  <2> QED BY <1>5, <2>7, <2>8 DEF RowFiles
<1> QED BY <1>6, <1>7 DEF RowsOf

LEMMA ForgetRows ==
  ASSUME WorkerTypes, Control, BatchRoom, NEW s, s = step.s, Forget, RowsOf(s)
  PROVE  RowsOf(s)'
<1> DEFINE p == step.p
<1>1. /\ WorkerTypes' /\ OnlyIn(s) /\ KeepsFiles(s) /\ writer' = writer
      /\ disk'[s].status = disk[s].status
      /\ disk'[s].chunks = {r \in disk[s].chunks : r[2] # p}
      /\ disk'[s].parts = disk[s].parts \ {p}
      /\ step.at = "forget" /\ step'.at \in {"trim", "write"} /\ step'.s = s
      /\ step'.rows = step.rows
  BY ForgetDoes
<1>2. s \in Session /\ s \in Writing /\ s \in Active /\ handling.op = "append"
  BY <1>1, StepIs DEF Control, StepFollows, WriterFollows
<1>3. Batch /\ Batch' /\ (s \in Writing)'
  BY <1>1, <1>2, RightSession DEF Batch, OnlyIn
<1>4. Top(s)' = Top(s) /\ Top(s) \in Int /\ InHand(s)
  BY <1>1, <1>2, <1>3, RowsTyped DEF Top, InHand
<1>5. \A r \in step.rows : r[2] # p
  BY <1>1, <1>2, <1>3 DEF BatchRoom
<1> HIDE DEF p
<1>6. BatchRows(s) = step.rows /\ BatchRows(s)' = step.rows
  BY <1>1, <1>3, NoBatch
<1>7. AllRows(s)' \subseteq AllRows(s) /\ \A x \in AllRows(s)' : x[2] # p
  BY <1>1, <1>5, <1>6 DEF AllRows
<1>8. RowOrder(s)'
  <2>1. disk'[s].chunks \subseteq disk[s].chunks /\ BatchRows(s)' \subseteq BatchRows(s)
    BY <1>1, <1>6
  <2>2. \A x \in AllRows(s)' : x[2] \in disk[s].parts \union {Top(s)}
                               => x[2] \in disk'[s].parts \union {Top(s)'}
    BY <1>1, <1>4, <1>7
  <2> QED BY <1>1, <1>2, <1>4, <1>7, <2>1, <2>2, FewerRows DEF RowsOf
<1>9. RowFiles(s)'
  <2>1. \A q : Stored(s, q)' = Stored(s, q)
    BY <1>1 DEF KeepsFiles, Stored
  <2>2. \A q : q # p /\ Forgetting(s, q) => Forgetting(s, q)'
    BY <1>1, <2>1 DEF Forgetting
  <2>3. ~Deleting(s)
    BY <1>2 DEF Deleting, Active, EndedSessions
  <2> QED BY <1>1, <1>2, <1>6, <1>7, <2>1, <2>2, <2>3, SameRowFiles DEF RowsOf, AllRows
<1> QED BY <1>8, <1>9 DEF RowsOf

LEMMA CommitKeepsRows ==
  ASSUME WorkerTypes, Control, NEW s, s = step.s, CommitRows, RowsOf(s)
  PROVE  RowsOf(s)'
<1>1. /\ WorkerTypes' /\ OnlyIn(s) /\ KeepsFiles(s) /\ writer' = writer
      /\ disk'[s].status = disk[s].status /\ disk'[s].parts = disk[s].parts
      /\ disk'[s].chunks = disk[s].chunks \union step.rows
      /\ step.at = "commit" /\ handling.op = "append" /\ step'.at = "retain"
  BY CommitDoes, RestIsTyped DEF Phases
<1>2. s \in Session /\ s \in Writing /\ s \in Active
  BY <1>1, StepIs DEF Control, StepFollows, WriterFollows
<1>3. Batch /\ ~Batch' /\ (s \in Writing)'
  BY <1>1, <1>2, RightSession DEF Batch
<1>4. Top(s)' = Top(s) /\ Top(s) \in Int /\ InHand(s)
  BY <1>1, <1>2, <1>3, RowsTyped DEF Top, InHand
<1>5. BatchRows(s) = step.rows /\ BatchRows(s)' = {} /\ AllRows(s)' = AllRows(s)
  BY <1>1, <1>3, NoBatch DEF AllRows
<1>6. RowOrder(s)'
  BY <1>1, <1>2, <1>4, <1>5, FewerRows DEF RowsOf
<1>7. RowFiles(s)'
  <2>1. \A q : Stored(s, q)' = Stored(s, q)
    BY <1>1 DEF KeepsFiles, Stored
  <2>2. \A q : Forgetting(s, q) => Forgetting(s, q)'
    BY <1>1, <2>1 DEF Forgetting
  <2>3. ~Deleting(s)
    BY <1>2 DEF Deleting, Active, EndedSessions
  <2> QED BY <1>1, <1>2, <1>5, <2>1, <2>2, <2>3, SameRowFiles DEF RowsOf
<1> QED BY <1>6, <1>7 DEF RowsOf

LEMMA RecordRows ==
  ASSUME WorkerTypes, Control, NEW s \in Session,
         \/ Insert /\ Fresh(handling.s) /\ s = handling.s
         \/ FinishRecord /\ s = step.s
         \/ Delete /\ s = step.s
         \/ Disconnect,
         RowsOf(s)
  PROVE  RowsOf(s)'
<1>1. CASE Insert /\ Fresh(handling.s) /\ s = handling.s
  <2>1. disk'[s].chunks = {} /\ step' = DoingPart("open", s, 1)
    <3>1. disk[s].chunks = {}
      BY <1>1 DEF Fresh, NewRecord
    <3> QED BY <1>1, <3>1, InsertDoes
  <2>2. step'.at = "open"
    <3>1. s \in Nat /\ 1 \in Nat /\ "open" \in Phases
      BY DEF Session, Phases
    <3>2. DoingPart("open", s, 1).at = "open"
      BY <3>1, RestIsTyped
    <3> QED BY <2>1, <3>2
  <2> QED BY <2>1, <2>2, NoRows DEF RowsOf, BatchRows, Batch
<1>2. CASE ~Insert
  <2>1. /\ WorkerTypes' /\ KeepsFiles(s) /\ writer' = writer
        /\ step.at \in {"finish", "delete", "close"} /\ step'.at \in {"retain", "idle", "done"}
        /\ \/ disk'[s].chunks = {}
           \/ /\ disk'[s].chunks = disk[s].chunks /\ disk'[s].parts = disk[s].parts
              /\ s \in Active \/ disk'[s] = disk[s]
    <3>1. CASE FinishRecord /\ s = step.s
      BY <3>1, FinishDoes, RestIsTyped DEF Phases
    <3>2. CASE Delete /\ s = step.s
      BY <3>2, DeleteDoes, RestIsTyped DEF Phases
    <3>3. CASE Disconnect
      BY <3>3, DisconnectDoes, RestIsTyped DEF Phases
    <3> QED BY <1>2, <3>1, <3>2, <3>3
  <2>2. ~Batch /\ ~Batch' /\ Writing' = Writing
    BY <2>1 DEF Batch, Writing
  <2>3. \A p : Stored(s, p)' = Stored(s, p)
    BY <2>1 DEF Stored, KeepsFiles
  <2>4. s \in Active => ~Deleting(s)
    BY DEF Deleting, Active, EndedSessions
  <2>5. disk'[s] = disk[s] => (Deleting(s) => Deleting(s)')
    BY DEF Deleting, EndedSessions
  <2> QED BY <2>1, <2>2, <2>3, <2>4, <2>5, QuietRows
<1> QED BY <1>1, <1>2 DEF Insert, FinishRecord, Delete, Disconnect

LEMMA TrashRows ==
  ASSUME WorkerTypes, Control, NEW s \in Session, Trash(s), RowsOf(s)
  PROVE  RowsOf(s)'
<1>1. /\ WorkerTypes' /\ OnlyIn(s) /\ Rows(s) /\ writer' = writer /\ s \in EndedSessions
      /\ disk'[s].partial = <<>> /\ disk'[s].segment = <<>>
      /\ step.at \in {"trash", "idle", "retain"} /\ step'.at = "delete"
  BY TrashDoes
<1>2. ~Batch /\ ~Batch' /\ s \notin Writing /\ ~(s \in Writing)'
  <2>1. s \notin Writing
    BY <1>1 DEF EndedSessions, Control, WriterFollows, Active
  <2> QED BY <1>1, <2>1, RightSession DEF Batch
<1>3. /\ AllRows(s) = disk[s].chunks /\ AllRows(s)' = disk[s].chunks /\ BatchRows(s)' = {}
      /\ ~InHand(s)' /\ disk'[s].chunks = disk[s].chunks
  BY <1>1, <1>2, NoBatch DEF Rows
<1>4. Deleting(s)'
  BY <1>1, NoFiles DEF Deleting, EndedSessions, Rows
<1>5. RowOrder(s)'
  BY <1>1, <1>3, FewerRows DEF RowsOf
<1>6. RowFiles(s)'
  BY <1>3, <1>4 DEF RowFiles
<1> QED BY <1>5, <1>6 DEF RowsOf

LEMMA RecoveryRows ==
  ASSUME WorkerTypes, Control, NEW s \in Session, FileOrder(s),
         Recovered(s) \/ \E p \in DOMAIN disk[s].partial : RecoverPart(s, p), RowsOf(s)
  PROVE  RowsOf(s)'
<1>1. /\ WorkerTypes' /\ OnlyIn(s) /\ writer' = writer /\ s \in Active /\ handling = Idle
      /\ step.at = "recover" /\ disk'[s].parts = disk[s].parts
      /\ disk'[s].chunks = disk[s].chunks
  BY RecoveredDoes, RecoverPartDoes DEF Rows
<1>2. ~Batch /\ ~Batch' /\ Writing' = Writing
  BY <1>1, HandlingIs DEF Batch, OnlyIn, Writing
<1>3. ~Deleting(s)
  BY <1>1 DEF Deleting, Active, EndedSessions
<1>4. \A q : Stored(s, q)' = Stored(s, q)
  <2>1. CASE Recovered(s)
    BY <2>1, RecoveredDoes DEF Stored, KeepsFiles
  <2>2. ASSUME NEW p \in DOMAIN disk[s].partial, RecoverPart(s, p)
        PROVE  \A q : Stored(s, q)' = Stored(s, q)
    <3>1. CASE /\ disk[s].partial[p] = {} /\ disk'[s].partial = Without(disk[s].partial, p)
               /\ disk'[s].segment = disk[s].segment
      BY <3>1, SameStored DEF Without
    <3>2. CASE /\ disk'[s].partial = disk[s].partial
               /\ disk'[s].segment = With(disk[s].segment, p, disk[s].partial[p])
      <4>1. p \in DOMAIN disk[s].segment => disk[s].segment[p] \subseteq disk[s].partial[p]
        BY DEF FileOrder
      <4> QED BY <3>2, <4>1, SameStored DEF With
    <3> QED BY <2>2, <3>1, <3>2, RecoverPartDoes
  <2> QED BY <2>1, <2>2
<1> QED BY <1>1, <1>2, <1>3, <1>4, QuietRows

-----------------------------------------------------------------------------
(* The room of a batch *)

\* A step that leaves the batch, its rows and its part as they are.
LEMMA SameRoom ==
  ASSUME NEW s \in Session, Batch, step.s = s, BatchRoom, handling' = handling,
         step'.s = s, step'.es = step.es, step'.rows = step.rows,
         Top(s)' = Top(s), Count(s)' = Count(s),
         step'.at = "rotate" => step'.p - 1 \in disk'[s].parts,
         step'.at = "trim" => Cardinality(disk'[s].parts) >= MaxParts,
         step'.at = "forget" => /\ Lowest(disk'[s].parts, step'.p)
                                /\ \A r \in step'.rows : r[2] # step'.p
  PROVE  BatchRoom'
<1>1. Written' = Written /\ Room' = Room
  BY DEF Written, Room
<1> HIDE DEF Room
<1>2. SUFFICES ASSUME Batch' PROVE
        /\ Len(step'.es) <= Len(handling'.es) /\ Len(handling'.es) <= Room
        /\ \A r \in step'.rows :
             /\ Written >= 1
             /\ r[2] < Top(s) => Written >= 1 + (Top(s) - r[2] - 1) * PartSize + Count(s)
  BY <1>1, <1>2 DEF BatchRoom
<1> QED BY DEF BatchRoom

LEMMA NoRoom ==
  ASSUME ~Batch'
  PROVE  BatchRoom'
BY DEF BatchRoom

LEMMA FileRoom ==
  ASSUME WorkerTypes, Control, StepOrder, BatchRoom, NEW s, s = step.s, FileOrder(s), RowsOf(s),
         Unlink \/ Enter \/ Forget \/ \E p : RemovePart(p)
  PROVE  BatchRoom'
<1>1. CASE handling.op # "append"
  <2>1. handling' = handling
    BY UnlinkDoes, EnterDoes, ForgetDoes, RemovePartDoes DEF OnlyIn
  <2> QED BY <1>1, <2>1, NoRoom DEF Batch
<1>2. CASE handling.op = "append"
  <2>1. /\ WorkerTypes' /\ OnlyIn(s) /\ writer' = writer /\ step'.s = s
        /\ step'.es = step.es /\ step'.rows = step.rows
        /\ step.at \in {"unlink", "enter", "forget", "trim"}
        /\ step.at \in {"forget", "trim"} <=> step'.at \in {"forget", "trim", "write"}
        /\ step'.at = "enter" => step'.p = step.p
        /\ step'.at = "rotate" => step.at = "enter" /\ step'.p = step.p + 1
                                  /\ step.p \in disk'[s].parts
        /\ step'.at = "trim" => Cardinality(disk'[s].parts) >= MaxParts
        /\ step'.at = "forget" => \E p : RemovePart(p) /\ step'.p = p /\ Lowest(disk'[s].parts, p)
        /\ step'.at \in {"enter", "rotate", "forget", "trim", "write"}
    <3>1. CASE Unlink
      BY <3>1, UnlinkDoes
    <3>2. CASE Enter
      <4>1. /\ WorkerTypes' /\ OnlyIn(s) /\ writer' = writer /\ step.at = "enter"
            /\ disk'[s].parts = disk[s].parts \union {step.p} /\ step' = Sealed(step)
        BY <3>2, EnterDoes
      <4>2. step'.at = "rotate" /\ step'.s = s /\ step'.p = step.p + 1 /\ step'.es = step.es
            /\ step'.rows = step.rows
        BY <1>2, <4>1, SealedIs
      <4> QED BY <4>1, <4>2
    <3>3. CASE Forget
      BY <3>3, ForgetDoes
    <3>4. ASSUME NEW p, RemovePart(p) PROVE <2>1
      <4>1. /\ WorkerTypes' /\ OnlyIn(s) /\ writer' = writer /\ Lowest(disk[s].parts, p)
            /\ disk'[s].parts = disk[s].parts
            /\ step.at = "trim" /\ step'.at = "forget" /\ step'.s = s /\ step'.p = p
            /\ step'.es = step.es /\ step'.rows = step.rows
        BY <3>4, RemovePartDoes DEF Rows
      <4> QED BY <3>4, <4>1
    <3> QED BY <3>1, <3>2, <3>3, <3>4
  <2>2. s \in Session /\ Batch /\ handling' = handling /\ step.p \in Nat
    BY <1>2, <2>1, StepIs DEF Batch, OnlyIn
  <2>3. /\ (s \in Writing)' = (s \in Writing)
        /\ s \in Writing <=> step.at \in {"forget", "trim"}
    <3>1. (s \in Writing)' = (s \in Writing)
      BY <2>1, <2>2, RightSession
    <3> QED BY <2>1, <3>1 DEF Control, WriterFollows
  <2>4. Top(s)' = Top(s) /\ Count(s)' = Count(s)
    <3>1. CASE s \in Writing
      BY <2>1, <2>3, <3>1 DEF Top, Count
    <3>2. CASE s \notin Writing
      <4>1. (step.p + 1) - 1 = step.p
        BY <2>2
      <4> QED BY <2>1, <2>3, <3>2, <4>1 DEF Top, Count
    <3> QED BY <3>1, <3>2
  <2>5. step'.at = "rotate" => step'.p - 1 \in disk'[s].parts
    <3>1. (step.p + 1) - 1 = step.p
      BY <2>2
    <3> QED BY <2>1, <3>1
  <2>6. step'.at = "forget" => /\ Lowest(disk'[s].parts, step'.p)
                               /\ \A r \in step'.rows : r[2] # step'.p
    BY <2>1, TrimSpares
  <2> QED BY <2>1, <2>2, <2>4, <2>5, <2>6, SameRoom
<1> QED BY <1>1, <1>2

LEMMA SealRoom ==
  ASSUME WorkerTypes, Control, StepOrder, BatchRoom, NEW s \in Session, FileOrder(s),
         Compress(s) \/ Discard(s)
  PROVE  BatchRoom'
<1>0. handling' = handling
  BY CompressDoes, DiscardDoes DEF OnlyIn
<1>1. CASE handling.op # "append"
  BY <1>0, <1>1, NoRoom DEF Batch
<1>2. CASE handling.op = "append"
  <2>1. Compress(s)
    BY <1>2, DiscardFiles
  <2>2. /\ WorkerTypes' /\ OnlyIn(s) /\ s \in Writing /\ writer'[s] = NoWriter
        /\ step'.at = "unlink" /\ step'.s = s /\ step'.p = writer[s].part
        /\ step'.es = step.es /\ step'.rows = step.rows /\ step.at = "seal" /\ step.s = s
    BY <1>2, <2>1, CompressDoes
  <2>3. writer[s].count = PartSize
    BY <1>2, <2>2 DEF StepOrder
  <2>4. ~(s \in Writing)' /\ Batch
    BY <1>2, <2>2, RightSession DEF Batch
  <2>5. Top(s)' = Top(s) /\ Count(s)' = Count(s)
    BY <2>2, <2>3, <2>4 DEF Top, Count
  <2> QED BY <1>0, <2>2, <2>4, <2>5, SameRoom
<1> QED BY <1>1, <1>2

LEMMA OpenRoom ==
  ASSUME WorkerTypes, Control, StepOrder, BatchRoom, NEW s, s = step.s, RowsOf(s), OpenPart
  PROVE  BatchRoom'
<1>1. /\ WorkerTypes' /\ OnlyIn(s) /\ Rows(s)
      /\ writer'[s].part = step.p /\ writer'[s].count = 0
      /\ step.at = "open" => handling.op = "begin" /\ step' = Doing("done")
      /\ step.at = "rotate" => handling.op = "append" /\ step' = Trimming(step, disk[s].parts)
  BY OpenDoes
<1>2. /\ s \in Session /\ step.at \in {"open", "rotate"} /\ s \notin Writing
      /\ step.p \in Nat /\ step.p # 0 /\ handling' = handling
  BY <1>1, StepIs DEF OpenPart, OnlyIn, Control, StepFollows, WriterFollows
<1>3. CASE step.at = "open"
  BY <1>1, <1>2, <1>3, NoRoom DEF Batch
<1>4. CASE step.at = "rotate"
  <2>1. /\ step'.at = IF Cardinality(disk[s].parts) >= MaxParts THEN "trim" ELSE "write"
        /\ step'.s = s /\ step'.rows = step.rows /\ step'.es = step.es
    BY <1>1, <1>4, TrimmingIs DEF WorkerTypes
  <2>2. Batch /\ Batch' /\ Written' = Written /\ Room' = Room
    BY <1>1, <1>2, <1>4, <2>1 DEF Batch, Written, Room
  <2>3. PICK t : t = step.p - 1
    OBVIOUS
  <2>4. (s \in Writing)' /\ t \in Int /\ PartSize \in Nat
    BY <1>1, <1>2, <2>3, RightSession, WorkerAssumption DEF NoWriter
  <2>5. Top(s) = t /\ Top(s)' = t + 1 /\ Count(s) = PartSize /\ Count(s)' = 0
    <3>1. step.p = t + 1
      BY <1>2, <2>3
    <3> QED BY <1>1, <1>2, <1>4, <2>3, <2>4, <3>1 DEF Top, Count
  <2>6. \A r \in step.rows : r[2] <= t /\ r[2] \in Int
    <3>1. step.rows = BatchRows(s) /\ InHand(s)
      BY <1>2, <2>2, NoBatch
    <3> QED BY <1>2, <2>5, <3>1, RowsTyped DEF RowsOf, RowOrder
  <2>7. Written \in Int
    <3>1. Len(handling.es) \in Int /\ Len(step.es) \in Int
      BY StepIs, HandlingIs
    <3> QED BY <3>1 DEF Written
  <2>8. ASSUME NEW r \in step.rows, r[2] < t + 1
        PROVE  Written >= 1 + ((t + 1) - r[2] - 1) * PartSize + 0
    <3>1. Written >= 1
      BY <1>2, <2>2 DEF BatchRoom
    <3>2. PICK q, w : q = r[2] /\ w = Written
      OBVIOUS
    <3>3. q \in Int /\ w \in Int /\ q <= t
      BY <2>6, <2>7, <3>2
    <3>4. CASE q = t
      <4>1. ((t + 1) - q - 1) * PartSize = 0
        BY <2>4, <3>4
      <4> QED BY <2>4, <3>1, <3>2, <3>3, <4>1
    <3>5. CASE q < t
      <4>1. w >= 1 + (t - q - 1) * PartSize + PartSize
        BY <1>2, <2>2, <2>5, <3>2, <3>5 DEF BatchRoom
      <4>2. \A a, b \in Int : (a - 1) * b + b = a * b /\ (a - 1) * b \in Int
        OBVIOUS
      <4>3. (t - q - 1) * PartSize + PartSize = (t - q) * PartSize
            /\ (t - q - 1) * PartSize \in Int
        BY <2>4, <3>3, <4>2
      <4>4. (t + 1) - q - 1 = t - q /\ (t - q) * PartSize \in Int
        BY <2>4, <3>3
      <4> QED BY <2>4, <3>2, <3>3, <4>1, <4>3, <4>4
    <3> QED BY <2>4, <3>3, <3>4, <3>5
  <2>9. Len(step.es) <= Len(handling.es) /\ Len(handling.es) <= Room
    BY <1>2, <2>2 DEF BatchRoom
  <2>10. \A r \in step.rows : Written >= 1
    BY <1>2, <2>2 DEF BatchRoom
  <2>11. step'.at = "trim" => Cardinality(disk'[s].parts) >= MaxParts
    BY <1>1, <2>1 DEF Rows
  <2> HIDE DEF Room
  <2>12. step'.at \in {"trim", "write"}
    BY <2>1
  <2> QED BY <1>2, <2>1, <2>2, <2>5, <2>8, <2>9, <2>10, <2>11, <2>12 DEF BatchRoom
<1> QED BY <1>2, <1>3, <1>4

LEMMA WriteRoom ==
  ASSUME WorkerTypes, Control, StepOrder, BatchRoom, NEW s, s = step.s, RowsOf(s), Write
  PROVE  BatchRoom'
<1> DEFINE p == writer[s].part
<1>1. /\ WorkerTypes' /\ OnlyIn(s) /\ Rows(s)
      /\ writer'[s].part = p /\ writer'[s].count = writer[s].count + 1
      /\ step'.at \in {"commit", "seal", "write"}
      /\ step'.s = s /\ step'.es = Tail(step.es)
      /\ step'.rows = step.rows \union {<<Head(step.es), p>>}
  BY WriteDoes
<1>2. /\ s \in Session /\ s \in Writing /\ p \in Nat /\ writer[s].count \in Nat
      /\ step.es # <<>> /\ handling.op = "append" /\ step.at = "write"
      /\ step.es \in Seq(Nat) /\ handling' = handling /\ handling.es \in Seq(Nat)
  <2>1. s \in Writing
    BY DEF Write, Control, WriterFollows
  <2> QED BY <1>1, <2>1, StepIs, DiskIs, HandlingIs DEF Control, StepFollows, Write, OnlyIn
<1>3. Batch /\ Batch' /\ (s \in Writing)' /\ Room' = Room
  <2>1. writer'[s].count # 0
    BY <1>1, <1>2
  <2> QED BY <1>1, <1>2, <2>1, RightSession DEF Batch, OnlyIn, NoWriter, Room
<1>4. Top(s) = p /\ Top(s)' = p /\ Count(s) = writer[s].count /\ Count(s)' = writer[s].count + 1
  BY <1>1, <1>2, <1>3 DEF Top, Count
<1>5. PICK a, b, c : a = Len(handling.es) /\ b = Len(step.es) /\ c = Len(step'.es)
  OBVIOUS
<1>6. a \in Nat /\ b \in Nat /\ c = b - 1
  BY <1>1, <1>2, <1>5
<1>7. Written = a - b /\ Written' = (a - b) + 1
  <2>1. Written = a - b
    BY <1>5 DEF Written
  <2>2. Written' = a - c
    BY <1>2, <1>5 DEF Written
  <2> QED BY <1>6, <2>1, <2>2
<1>8. /\ b <= a /\ a <= Room
      /\ \A r \in step.rows :
           /\ a - b >= 1
           /\ r[2] < p => a - b >= 1 + (p - r[2] - 1) * PartSize + writer[s].count
  <2> HIDE DEF Room, p
  <2>1. Len(step.es) <= Len(handling.es) /\ Len(handling.es) <= Room
    BY <1>2, <1>3 DEF BatchRoom
  <2>2. \A r \in step.rows :
          /\ Written >= 1
          /\ r[2] < Top(s) => Written >= 1 + (Top(s) - r[2] - 1) * PartSize + Count(s)
    BY <1>2, <1>3 DEF BatchRoom
  <2> QED BY <1>4, <1>5, <1>7, <2>1, <2>2
<1>9. \A r \in step'.rows :
        /\ (a - b) + 1 >= 1
        /\ r[2] < p => (a - b) + 1 >= 1 + (p - r[2] - 1) * PartSize + (writer[s].count + 1)
  <2>1. <<Head(step.es), p>>[2] = p /\ ~(p < p)
    BY <1>2
  <2>2. \A x, y, z \in Int : x >= 1 + y + z => x + 1 >= 1 + y + (z + 1)
    OBVIOUS
  <2>3. ASSUME NEW r \in step.rows, r[2] < p
        PROVE  (a - b) + 1 >= 1 + (p - r[2] - 1) * PartSize + (writer[s].count + 1)
    <3>1. r[2] \in Int
      <4>1. step.rows = BatchRows(s)
        BY <1>2, <1>3, NoBatch
      <4> QED BY <1>2, <4>1, RowsTyped
    <3>2. (p - r[2] - 1) * PartSize \in Int
      BY <1>2, <3>1, WorkerAssumption
    <3>3. a - b \in Int /\ writer[s].count \in Int
      BY <1>2, <1>6
    <3> HIDE DEF p
    <3>4. a - b >= 1 + (p - r[2] - 1) * PartSize + writer[s].count
      BY <1>8, <2>3
    <3>5. PICK x, y, z : x = a - b /\ y = (p - r[2] - 1) * PartSize /\ z = writer[s].count
      OBVIOUS
    <3>6. x \in Int /\ y \in Int /\ z \in Int /\ x >= 1 + y + z
      BY <3>2, <3>3, <3>4, <3>5
    <3>7. x + 1 >= 1 + y + (z + 1)
      BY <2>2, <3>6
    <3> QED BY <3>5, <3>7
  <2>4. (a - b) + 1 >= 1
    BY <1>6, <1>8
  <2> HIDE DEF p
  <2> QED BY <1>1, <2>1, <2>3, <2>4
<1>10. c <= a /\ step'.at \notin {"rotate", "trim", "forget"}
  BY <1>1, <1>6, <1>8
<1> HIDE DEF p, Room
<1> QED BY <1>1, <1>2, <1>3, <1>4, <1>5, <1>7, <1>8, <1>9, <1>10 DEF BatchRoom

LEMMA RowsKeep ==
  ASSUME HistoryInv, HandlerStep, main' = main, \A s \in Session : FileOrder(s),
         \A s \in Session : RowsOf(s), BatchRoom
  PROVE  BatchRoom' /\ \A s \in Session : RowsOf(s)'
<1>1. WorkerTypes /\ Control /\ StepOrder
      /\ (handling.op = "begin" /\ step.at = "retain" => Fresh(handling.s))
  BY DEF HistoryInv, RunInv, HistoryTypes, Begins
<1>2. \A s \in Session : Touches(s) /\ RowsOf(s)' => \A t \in Session : RowsOf(t)'
  BY OtherFiles DEF Touches, RowsOf
<1>3. CASE \/ OpenPart \/ Write \/ Unlink \/ Enter \/ Forget \/ CommitRows \/ FinishRecord
           \/ Delete \/ \E p : RemovePart(p)
  <2>1. PICK s : s = step.s
    OBVIOUS
  <2>2. Touches(s) /\ s \in Session
    BY <1>1, <1>3, <2>1, StepTouches DEF Touches, OnlyIn
  <2>3. FileOrder(s) /\ RowsOf(s)
    BY <2>2
  <2>4. CASE OpenPart
    BY <1>1, <1>2, <2>1, <2>2, <2>3, <2>4, OpenRows, OpenRoom
  <2>5. CASE Write
    <3>1. RowsOf(s)'
      BY <1>1, <2>1, <2>2, <2>3, <2>5, WriteRows
    <3> QED BY <1>1, <1>2, <2>1, <2>2, <2>3, <2>5, <3>1, WriteRoom
  <2>6. CASE Unlink \/ Enter
    BY <1>1, <1>2, <2>1, <2>2, <2>3, <2>6, UnlinkRows, FileRoom
  <2>7. CASE Forget
    BY <1>1, <1>2, <2>1, <2>2, <2>3, <2>7, ForgetRows, FileRoom
  <2>8. CASE \E p : RemovePart(p)
    BY <1>1, <1>2, <2>1, <2>2, <2>3, <2>8, TrimRows, FileRoom
  <2>9. CASE CommitRows \/ FinishRecord \/ Delete
    <3>1. RowsOf(s)'
      BY <1>1, <2>1, <2>2, <2>3, <2>9, CommitKeepsRows, RecordRows
    <3>2. ~Batch'
      BY <1>1, <2>9, CommitDoes, FinishDoes, DeleteDoes, RestIsTyped DEF Batch, Phases
    <3> QED BY <1>2, <2>2, <3>1, <3>2, NoRoom
  <2> QED BY <1>3, <2>4, <2>5, <2>6, <2>7, <2>8, <2>9
<1>4. CASE Insert
  <2>1. handling.s \in Session /\ Fresh(handling.s)
    BY <1>1, <1>4, InsertDoes, HandlingIs
  <2>2. ~Batch'
    BY <1>1, <1>4, InsertDoes DEF Batch, OnlyIn
  <2>3. PICK s \in Session : s = handling.s
    BY <2>1
  <2>4. Touches(s) /\ RowsOf(s)'
    BY <1>1, <1>4, <2>1, <2>3, SessionTouches, RecordRows
  <2> QED BY <1>2, <2>2, <2>4, NoRoom
<1>5. CASE Disconnect
  <2>1. ~Batch'
    BY <1>1, <1>5, DisconnectDoes, RestIsTyped DEF Batch, Phases
  <2> QED BY <1>1, <1>5, <2>1, RecordRows, NoRoom
<1>6. ASSUME NEW s \in Session, Compress(s) \/ Discard(s)
      PROVE  BatchRoom' /\ \A t \in Session : RowsOf(t)'
  BY <1>1, <1>2, <1>6, SessionTouches, SealRows, SealRoom
<1>7. ASSUME NEW s \in Session,
             Trash(s) \/ Recovered(s) \/ \E p \in DOMAIN disk[s].partial : RecoverPart(s, p)
      PROVE  BatchRoom' /\ \A t \in Session : RowsOf(t)'
  <2>1. Touches(s) /\ RowsOf(s)'
    BY <1>1, <1>7, SessionTouches, TrashRows, RecoveryRows
  <2>2. ~Batch'
    <3>1. CASE Trash(s)
      BY <1>1, <3>1, TrashDoes DEF Batch
    <3>2. CASE ~Trash(s)
      <4>1. handling' = handling /\ handling = Idle
        BY <1>1, <1>7, <3>2, RecoveredDoes, RecoverPartDoes DEF OnlyIn
      <4> QED BY <1>1, <4>1, HandlingIs DEF Batch
    <3> QED BY <3>1, <3>2
  <2> QED BY <1>2, <2>1, <2>2, NoRoom
<1> QED BY <1>3, <1>4, <1>5, <1>6, <1>7 DEF HandlerStep

\* Nothing happens to the rows; a batch is only taken where there is a writer.
LEMMA SameRows ==
  ASSUME WorkerTypes, NEW s \in Session, RowsOf(s), disk' = disk, writer' = writer,
         \/ step' = step /\ handling' = handling
         \/ /\ ~Batch /\ step'.rows = {}
            /\ Batch' => step'.s \in Writing
  PROVE  RowsOf(s)'
<1>1. (s \in Writing)' = (s \in Writing) /\ Writing' = Writing
      /\ (s \in EndedSessions)' = (s \in EndedSessions)
  BY DEF Writing, EndedSessions
<1>2. Deleting(s)' = Deleting(s) /\ \A p : /\ Stored(s, p)' = Stored(s, p)
                                           /\ Forgetting(s, p)' = Forgetting(s, p)
  BY <1>1 DEF Deleting, Stored, Forgetting
<1>3. CASE step' = step /\ handling' = handling
  <2>1. Batch' = Batch /\ BatchRows(s)' = BatchRows(s) /\ InHand(s)' = InHand(s)
        /\ Top(s)' = Top(s) /\ AllRows(s)' = AllRows(s)
    BY <1>1, <1>3 DEF Batch, BatchRows, InHand, Top, AllRows
  <2>2. RowOrder(s)'
    BY <2>1 DEF RowsOf, RowOrder
  <2>3. RowFiles(s)'
    BY <1>2, <2>1 DEF RowsOf, RowFiles
  <2> QED BY <2>2, <2>3 DEF RowsOf
<1>4. CASE /\ ~Batch /\ step'.rows = {}
           /\ Batch' => step'.s \in Writing
  <2>1. /\ BatchRows(s) = {} /\ BatchRows(s)' = {} /\ AllRows(s)' = AllRows(s)
        /\ InHand(s)' => s \in Writing /\ InHand(s) /\ Top(s)' = Top(s)
    BY <1>1, <1>4 DEF BatchRows, AllRows, InHand, Top
  <2>2. RowOrder(s)'
    BY <2>1 DEF RowsOf, RowOrder
  <2>3. RowFiles(s)'
    BY <1>2, <2>1 DEF RowsOf, RowFiles
  <2> QED BY <2>2, <2>3 DEF RowsOf
<1> QED BY <1>3, <1>4

LEMMA RowsNext ==
  ASSUME BatchFits, HistoryInv, [HistoryNext]_historyVars, \A s \in Session : FileOrder(s),
         BatchRoom, \A s \in Session : RowsOf(s)
  PROVE  BatchRoom' /\ \A s \in Session : RowsOf(s)'
<1>1. CASE HandlerStep /\ Works
  BY <1>1, RowsKeep DEF Works
<1>2. WorkerTypes
  BY DEF HistoryInv, RunInv, HistoryTypes
<1>3. CASE Restart
  <2>1. /\ disk' = disk /\ handling' = Idle /\ writer' = [s \in Session |-> NoWriter]
    BY <1>3 DEF Restart, WorkerStart
  <2>2. ~Batch'
    BY <2>1 DEF Batch, Idle, Message
  <2>3. ASSUME NEW s \in Session PROVE RowsOf(s)'
    <3>1. ~(s \in Writing)' /\ (s \in EndedSessions)' = (s \in EndedSessions)
      BY <2>1 DEF Writing, EndedSessions
    <3>2. /\ BatchRows(s)' = {} /\ AllRows(s)' = disk[s].chunks /\ ~InHand(s)'
      BY <2>1, <2>2, <3>1, NoBatch
    <3>3. Deleting(s)' = Deleting(s) /\ \A p : /\ Stored(s, p)' = Stored(s, p)
                                               /\ Forgetting(s, p)' = Forgetting(s, p)
      BY <2>1, <3>1 DEF Deleting, Stored, Forgetting
    <3>4. RowOrder(s)'
      BY <2>1, <3>2 DEF RowsOf, RowOrder, AllRows
    <3>5. RowFiles(s)'
      BY <2>1, <3>2, <3>3 DEF RowsOf, RowFiles
    <3> QED BY <3>4, <3>5 DEF RowsOf
  <2> QED BY <2>2, <2>3, NoRoom
<1>4. CASE HistoryNext /\ ~Restart /\ (~HandlerStep \/ ~Works)
  <2>1. /\ disk' = disk /\ writer' = writer
        /\ \/ step' = step /\ handling' = handling
           \/ /\ handling = Idle /\ step.at = "idle" /\ step'.rows = {} /\ AppRunning'
              /\ Batch' => /\ step'.s \in Writing /\ step'.es = handling'.es
                           /\ step'.at \in {"seal", "write"} /\ Fits(handling'.es)
           \/ /\ handling' = Idle /\ step'.rows = {} /\ step.at \in {"done", "retain"}
    BY <1>4, OthersKeep
  <2>2. CASE step' = step /\ handling' = handling
    <3>1. \A s \in Session : RowsOf(s)'
      BY <1>2, <2>1, <2>2, SameRows
    <3>2. \A s \in Session : Top(s)' = Top(s) /\ Count(s)' = Count(s)
      BY <2>1, <2>2 DEF Top, Count, Writing
    <3>3. Batch' = Batch /\ Written' = Written /\ Room' = Room
      BY <2>2 DEF Batch, Written, Room
    <3> HIDE DEF Room
    <3>4. BatchRoom'
      BY <2>1, <2>2, <3>2, <3>3 DEF BatchRoom
    <3> QED BY <3>1, <3>4
  <2>3. CASE /\ handling = Idle /\ step'.rows = {} /\ AppRunning'
             /\ Batch' => /\ step'.s \in Writing /\ step'.es = handling'.es
                          /\ step'.at \in {"seal", "write"} /\ Fits(handling'.es)
    <3>1. ~Batch
      BY <2>3 DEF Batch, Idle, Message
    <3>2. \A s \in Session : RowsOf(s)'
      BY <1>2, <2>1, <2>3, <3>1, SameRows
    <3>3. Batch' => Len(step'.es) <= Len(handling'.es) /\ Len(handling'.es) <= Room
      <4>1. WorkerTypes'
        BY NextKeeps DEF HistoryInv, RunInv, HistoryTypes
      <4>2. step'.es \in Seq(Nat)
        BY <4>1 DEF WorkerTypes, StepState
      <4>3. /\ Room \in Int /\ 1 <= Room /\ MaxBatch \in Nat /\ QueueLimit \in Nat
            /\ MaxBatch <= Room \/ QueueLimit <= Room
        <5>1. (MaxParts - 1) * PartSize \in Nat
          <6>1. \A a, b \in Nat : a * b \in Nat
            OBVIOUS
          <6>2. MaxParts - 1 \in Nat /\ PartSize \in Nat
            BY WorkerAssumption
          <6> QED BY <6>1, <6>2
        <5> QED BY <5>1, HistoryAssumption DEF Room, BatchFits
      <4> HIDE DEF Room
      <4>4. PICK n : n = Len(step'.es)
        OBVIOUS
      <4>5. n \in Nat
        BY <4>2, <4>4
      <4>6. Batch' => n = Len(handling'.es) /\ (n <= MaxBatch \/ n = 1)
        BY <2>3, <4>4 DEF Fits
      <4>7. Batch' => n <= QueueLimit
        <5>1. HistoryInv'
          BY NextKeeps
        <5>2. HistoryInv' /\ AppRunning' => WithinBudget'
          BY BatchWaits, PTL
        <5> QED BY <2>3, <4>6, <5>1, <5>2 DEF Batch, WithinBudget
      <4>8. Batch' => n <= n /\ n <= Room
        <5>1. n = 1 => n <= Room
          BY <4>3, <4>5
        <5>2. n <= MaxBatch /\ n <= QueueLimit => n <= Room
          BY <4>3, <4>5
        <5>3. n <= n
          BY <4>5
        <5> QED BY <4>6, <4>7, <5>1, <5>2, <5>3
      <4> QED BY <4>4, <4>6, <4>8
    <3>4. Room' = Room
      BY DEF Room
    <3> HIDE DEF Room
    <3>5. BatchRoom'
      BY <2>3, <3>3, <3>4 DEF BatchRoom
    <3> QED BY <3>2, <3>5
  <2>4. CASE handling' = Idle /\ step'.rows = {} /\ step.at \in {"done", "retain"}
    <3>1. ~Batch /\ ~Batch'
      BY <2>4 DEF Batch, Idle, Message
    <3> QED BY <1>2, <2>1, <2>4, <3>1, SameRows, NoRoom
  <2> QED BY <2>1, <2>2, <2>3, <2>4
<1>5. CASE UNCHANGED historyVars
  <2>1. disk' = disk /\ writer' = writer /\ step' = step /\ handling' = handling
    BY <1>5 DEF historyVars, workerVars
  <2>2. \A s \in Session : Top(s)' = Top(s) /\ Count(s)' = Count(s)
    BY <2>1 DEF Top, Count, Writing
  <2>3. Batch' = Batch /\ Written' = Written /\ Room' = Room
    BY <2>1 DEF Batch, Written, Room
  <2> HIDE DEF Room
  <2>4. BatchRoom'
    BY <2>1, <2>2, <2>3 DEF BatchRoom
  <2> QED BY <1>2, <2>1, <2>4, SameRows
<1> QED BY <1>1, <1>3, <1>4, <1>5 DEF HistoryNext

\* What the rows and the files of a session have to do with each other.
RowsInv == BatchRoom /\ \A s \in Session : RowsOf(s)

LEMMA RowsInit ==
  ASSUME HistoryInit
  PROVE  RowsInv
<1>1. handling = Idle /\ \A s \in Session : disk[s].chunks = {} /\ s \notin Writing
  BY DEF HistoryInit, WorkerInit, NewRecord, Writing
<1>2. ~Batch
  BY <1>1 DEF Batch, Idle, Message
<1>3. BatchRoom
  BY <1>2 DEF BatchRoom
<1>4. ASSUME NEW s \in Session PROVE RowsOf(s)
  <2>1. AllRows(s) = {} /\ BatchRows(s) = {} /\ disk[s].chunks = {}
    BY <1>1, <1>2 DEF AllRows, BatchRows
  <2> QED BY <2>1 DEF RowsOf, RowOrder, RowFiles
<1> QED BY <1>3, <1>4 DEF RowsInv

\* A row of the transcript comes after the rows of earlier events, and its frame is in
\* the raw file of its part, while a batch is being written as well (appendEvents()
\* and trimSessionParts() of history-worker.js).
THEOREM RowsInOrder == ASSUME BatchFits PROVE HistorySpec => []RowsInv
<1> DEFINE Order == \A s \in Session : FileOrder(s)
<1>1. HistoryInit => RowsInv
  BY RowsInit
<1>2. HistoryInv /\ Order /\ RowsInv /\ [HistoryNext]_historyVars => RowsInv'
  BY RowsNext DEF RowsInv
<1>3. HistorySpec => []Order
  BY FilesInOrder
<1>4. HistorySpec => []HistoryInv
  BY HistoryInvariant
<1> HIDE DEF Order
<1> QED BY <1>1, <1>2, <1>3, <1>4, PTL DEF HistorySpec

\* Whatever step of the worker the application dies in, an event of the transcript
\* is also in the raw file of its part, and the books of the history agree, when
\* the parts that are kept have room for a batch (appendEvents(), finalizePartial()
\* and trimSessionParts() of history-worker.js).
THEOREM HistorySound == ASSUME BatchFits PROVE HistorySpec => []HistoryIsSound
<1>1. RowsInv => TranscriptOnDisk
  BY DEF RowsInv, RowsOf, RowFiles, TranscriptOnDisk
<1>2. HistorySpec => []RowsInv
  BY RowsInOrder
<1>3. HistorySpec => []WriteBudget
  BY BudgetHolds
<1>4. HistorySpec => []EndIsOnItsWay
  BY EndComes
<1>5. WriteBudget /\ TranscriptOnDisk /\ EndIsOnItsWay => HistoryIsSound
  BY DEF HistoryIsSound
<1> QED BY <1>1, <1>2, <1>3, <1>4, <1>5, PTL

-----------------------------------------------------------------------------
(* The history is an archive *)

RecordStatus == [s \in Session |-> IF s \in EndedSessions THEN "ended" ELSE disk[s].status]
Transcript == [s \in Session |-> Events(s)]

\* Every step is one of the archive, or shows nothing of itself.
ArchiveStep == Archive!ArchiveNext \/ UNCHANGED <<RecordStatus, Transcript>>

\* What the archive sees of one session.
LEMMA RecordSeen ==
  ASSUME WorkerTypes, NEW s \in Session
  PROVE  /\ RecordStatus[s] = IF disk[s].status \in Ends THEN "ended" ELSE disk[s].status
         /\ RecordStatus'[s] = IF disk'[s].status \in Ends THEN "ended" ELSE disk'[s].status
         /\ Transcript[s] = {r[1] : r \in disk[s].chunks}
         /\ Transcript'[s] = {r[1] : r \in disk'[s].chunks}
         /\ disk[s].status \in Statuses
BY DiskIs DEF RecordStatus, Transcript, EndedSessions, Ends, Events

\* The others are as they were.
LEMMA OneSeen ==
  ASSUME NEW s \in Session, \A t \in Session : t # s => disk'[t] = disk[t]
  PROVE  /\ \A t \in Session : t # s => RecordStatus'[t] = RecordStatus[t]
                                        /\ Transcript'[t] = Transcript[t]
         /\ RecordStatus' = [RecordStatus EXCEPT ![s] = RecordStatus'[s]]
         /\ Transcript' = [Transcript EXCEPT ![s] = Transcript'[s]]
<1>1. \A t \in Session : t # s => RecordStatus'[t] = RecordStatus[t]
                                  /\ Transcript'[t] = Transcript[t]
  BY DEF RecordStatus, Transcript, EndedSessions, Events
<1>2. /\ RecordStatus = [t \in Session |-> RecordStatus[t]]
      /\ RecordStatus' = [t \in Session |-> RecordStatus'[t]]
      /\ Transcript = [t \in Session |-> Transcript[t]]
      /\ Transcript' = [t \in Session |-> Transcript'[t]]
  BY DEF RecordStatus, Transcript
<1> QED BY <1>1, <1>2

LEMMA NothingNew ==
  ASSUME \A t \in Session : disk'[t].status = disk[t].status /\ disk'[t].chunks = disk[t].chunks
  PROVE  ArchiveStep
<1>1. RecordStatus' = RecordStatus /\ Transcript' = Transcript
  BY DEF RecordStatus, Transcript, EndedSessions, Events
<1> QED BY <1>1 DEF ArchiveStep

LEMMA BeginSeen ==
  ASSUME WorkerTypes, Insert, Fresh(handling.s)
  PROVE  ArchiveStep
<1>1. PICK s : s = handling.s
  OBVIOUS
<1>2. /\ OnlyIn(s) /\ disk'[s].status = "active" /\ disk'[s].chunks = disk[s].chunks
  BY <1>1, InsertDoes
<1>3. s \in Session /\ disk[s].status = "none"
  BY <1>1, <1>2 DEF OnlyIn, Fresh, NewRecord
<1>4. RecordStatus[s] = "none" /\ RecordStatus'[s] = "active" /\ Transcript'[s] = Transcript[s]
  BY <1>2, <1>3, RecordSeen DEF Ends
<1>5. RecordStatus' = [RecordStatus EXCEPT ![s] = "active"] /\ Transcript' = Transcript
  <2>1. /\ RecordStatus' = [RecordStatus EXCEPT ![s] = RecordStatus'[s]]
        /\ Transcript' = [Transcript EXCEPT ![s] = Transcript'[s]]
    BY <1>2, <1>3, OneSeen DEF OnlyIn
  <2>2. Transcript = [Transcript EXCEPT ![s] = Transcript[s]]
    BY DEF Transcript
  <2> QED BY <1>4, <2>1, <2>2
<1>6. Archive!ArchiveBegin(s)
  BY <1>4, <1>5 DEF Archive!ArchiveBegin, RecordStatus, Transcript
<1> QED BY <1>3, <1>6 DEF ArchiveStep, Archive!ArchiveNext

\* Records end, one or all of them.
LEMMA EndSeen ==
  ASSUME WorkerTypes, NEW S \in SUBSET Active,
         \A t \in Session : /\ disk'[t].chunks = disk[t].chunks
                            /\ IF t \in S THEN disk'[t].status \in Ends
                               ELSE disk'[t].status = disk[t].status
  PROVE  ArchiveStep
<1>1. Transcript' = Transcript
  BY DEF Transcript, Events
<1>2. \A t \in Session : RecordStatus'[t] = IF t \in S THEN "ended" ELSE RecordStatus[t]
  BY RecordSeen
<1>3. RecordStatus' = [t \in Session |-> IF t \in S THEN "ended" ELSE RecordStatus[t]]
  <2>1. RecordStatus' = [t \in Session |-> RecordStatus'[t]]
    BY DEF RecordStatus
  <2> QED BY <1>2, <2>1
<1>4. S \in SUBSET {t \in Session : RecordStatus[t] = "active"}
  BY RecordSeen, StepIs DEF Active, Ends
<1>5. Archive!ArchiveEnd
  BY <1>1, <1>3, <1>4 DEF Archive!ArchiveEnd, RecordStatus, Transcript
<1> QED BY <1>5 DEF ArchiveStep, Archive!ArchiveNext

LEMMA DeleteSeen ==
  ASSUME WorkerTypes, Control, Delete
  PROVE  ArchiveStep
<1>1. PICK s : s = step.s
  OBVIOUS
<1>2. /\ OnlyIn(s) /\ s \in EndedSessions /\ disk'[s].status = "deleted" /\ disk'[s].chunks = {}
  BY <1>1, DeleteDoes
<1>3. s \in Session /\ RecordStatus[s] = "ended" /\ RecordStatus'[s] = "deleted"
      /\ Transcript'[s] = {}
  BY <1>2, RecordSeen DEF OnlyIn, EndedSessions, Ends
<1>4. /\ RecordStatus' = [RecordStatus EXCEPT ![s] = "deleted"]
      /\ Transcript' = [Transcript EXCEPT ![s] = {}]
  BY <1>2, <1>3, OneSeen DEF OnlyIn
<1>5. Archive!ArchiveDelete(s)
  BY <1>3, <1>4 DEF Archive!ArchiveDelete, RecordStatus, Transcript
<1> QED BY <1>3, <1>5 DEF ArchiveStep, Archive!ArchiveNext

\* The transaction of a batch: its events follow all others.
LEMMA CommitSeen ==
  ASSUME WorkerTypes, Control, CommitRows, \A s \in Session : RowsOf(s)
  PROVE  ArchiveStep
<1>1. PICK s : s = step.s
  OBVIOUS
<1>2. /\ OnlyIn(s) /\ disk'[s].status = disk[s].status
      /\ disk'[s].chunks = disk[s].chunks \union step.rows
      /\ step.at = "commit" /\ handling.op = "append"
  BY <1>1, CommitDoes
<1>3. s \in Session /\ disk[s].status = "active" /\ Batch
  BY <1>1, <1>2 DEF OnlyIn, Control, StepFollows, Active, Batch
<1>4. /\ RecordStatus[s] = "active" /\ RecordStatus'[s] = "active"
      /\ Transcript[s] = {r[1] : r \in disk[s].chunks}
      /\ Transcript'[s] = {r[1] : r \in disk[s].chunks \union step.rows}
  BY <1>2, <1>3, RecordSeen DEF Ends
<1>5. \A old \in Transcript[s], new \in Transcript'[s] \ Transcript[s] : old < new
  <2>1. \A x \in disk[s].chunks, y \in step.rows : x[1] < y[1]
    <3>1. BatchRows(s) = step.rows
      BY <1>1, <1>3, NoBatch
    <3> QED BY <1>3, <3>1 DEF RowsOf, RowOrder
  <2> QED BY <1>4, <2>1
<1>6. /\ RecordStatus' = RecordStatus
      /\ Transcript' = [Transcript EXCEPT ![s] = Transcript'[s]]
  <2>1. /\ RecordStatus' = [RecordStatus EXCEPT ![s] = RecordStatus'[s]]
        /\ Transcript' = [Transcript EXCEPT ![s] = Transcript'[s]]
    BY <1>2, <1>3, OneSeen DEF OnlyIn
  <2>2. RecordStatus = [RecordStatus EXCEPT ![s] = RecordStatus[s]]
    BY DEF RecordStatus
  <2> QED BY <1>4, <2>1, <2>2
<1>7. Transcript[s] \subseteq Transcript'[s]
  BY <1>4
<1>8. Archive!ArchiveRecord(s)
  BY <1>4, <1>5, <1>6, <1>7 DEF Archive!ArchiveRecord, RecordStatus, Transcript
<1> QED BY <1>3, <1>8 DEF ArchiveStep, Archive!ArchiveNext

\* The transaction of a trim: its part holds the oldest events.
LEMMA ForgetSeen ==
  ASSUME WorkerTypes, Control, Forget, \A s \in Session : RowsOf(s) /\ FileOrder(s), BatchRoom
  PROVE  ArchiveStep
<1>1. PICK s, p : s = step.s /\ p = step.p
  OBVIOUS
<1>2. /\ OnlyIn(s) /\ disk'[s].status = disk[s].status
      /\ disk'[s].chunks = {r \in disk[s].chunks : r[2] # p}
      /\ step.at = "forget"
  BY <1>1, ForgetDoes
<1>3. s \in Session /\ disk[s].status = "active" /\ Batch /\ s \in Writing
  BY <1>1, <1>2 DEF OnlyIn, Control, StepFollows, WriterFollows, Active, Batch
<1>4. /\ RecordStatus[s] = "active" /\ RecordStatus'[s] = "active"
      /\ Transcript[s] = {r[1] : r \in disk[s].chunks}
      /\ Transcript'[s] = {r[1] : r \in {r \in disk[s].chunks : r[2] # p}}
  BY <1>2, <1>3, RecordSeen DEF Ends
<1>5. \A gone \in Transcript[s] \ Transcript'[s], kept \in Transcript'[s] : gone < kept
  <2>1. \A x \in disk[s].chunks : x[1] \in Nat /\ x[2] \in Nat
    BY <1>3, RowsTyped
  <2>2. Lowest(disk[s].parts, p) /\ Top(s) = writer[s].part /\ p \in Nat
    <3>1. p \in Nat
      BY <1>1, StepIs
    <3> QED BY <1>1, <1>2, <1>3, <3>1 DEF BatchRoom, Top
  <2>3. p < Top(s) /\ Top(s) \in Nat
    BY <1>3, <2>2, DiskIs DEF FileOrder, Lowest
  <2>4. \A x \in disk[s].chunks : x[2] # p => p < x[2]
    <3>1. \A x \in disk[s].chunks : x[2] \in disk[s].parts \union {Top(s)}
      <4>1. InHand(s) /\ disk[s].chunks \subseteq AllRows(s)
        BY <1>3 DEF InHand, AllRows
      <4> QED BY <1>3, <4>1 DEF RowsOf, RowOrder
    <3>2. \A q \in disk[s].parts : p <= q
      BY <2>2 DEF Lowest
    <3>3. \A a, b \in Nat : a <= b /\ b # a => a < b
      OBVIOUS
    <3> QED BY <2>1, <2>2, <2>3, <3>1, <3>2, <3>3
  <2>5. \A x, y \in disk[s].chunks : x[2] = p /\ y[2] # p => x[1] < y[1]
    <3>1. \A x, y \in disk[s].chunks : y[1] <= x[1] => y[2] <= x[2]
      BY <1>3 DEF RowsOf, RowOrder, AllRows
    <3>2. \A a, b \in Nat : ~(b <= a) => a < b
      OBVIOUS
    <3>3. \A x, y \in disk[s].chunks : x[2] = p /\ y[2] # p => ~(y[2] <= x[2])
      BY <2>1, <2>2, <2>4
    <3> QED BY <2>1, <3>1, <3>2, <3>3
  <2> QED BY <1>4, <2>5
<1>6. /\ RecordStatus' = RecordStatus
      /\ Transcript' = [Transcript EXCEPT ![s] = Transcript'[s]]
  <2>1. /\ RecordStatus' = [RecordStatus EXCEPT ![s] = RecordStatus'[s]]
        /\ Transcript' = [Transcript EXCEPT ![s] = Transcript'[s]]
    BY <1>2, <1>3, OneSeen DEF OnlyIn
  <2>2. RecordStatus = [RecordStatus EXCEPT ![s] = RecordStatus[s]]
    BY DEF RecordStatus
  <2> QED BY <1>4, <2>1, <2>2
<1>7. Transcript'[s] \subseteq Transcript[s]
  BY <1>4
<1>8. Archive!ArchiveTrim(s)
  BY <1>4, <1>5, <1>6, <1>7 DEF Archive!ArchiveTrim, RecordStatus, Transcript
<1> QED BY <1>3, <1>8 DEF ArchiveStep, Archive!ArchiveNext

LEMMA HandlerSeen ==
  ASSUME HistoryInv, HandlerStep, \A s \in Session : FileOrder(s), RowsInv
  PROVE  ArchiveStep
<1>1. /\ WorkerTypes /\ Control /\ BatchRoom
      /\ handling.op = "begin" /\ step.at = "retain" => Fresh(handling.s)
      /\ \A s \in Session : RowsOf(s)
  BY DEF HistoryInv, RunInv, HistoryTypes, Begins, RowsInv
<1>2. ASSUME NEW s, OnlyIn(s), disk'[s].status = disk[s].status, disk'[s].chunks = disk[s].chunks
      PROVE  ArchiveStep
  BY <1>2, NothingNew DEF OnlyIn
<1>3. CASE OpenPart
  BY <1>1, <1>2, <1>3, OpenDoes DEF Rows
<1>4. CASE Write
  BY <1>1, <1>2, <1>4, WriteDoes DEF Rows
<1>5. CASE Unlink
  BY <1>1, <1>2, <1>5, UnlinkDoes DEF Rows
<1>6. CASE Enter
  BY <1>1, <1>2, <1>6, EnterDoes
<1>7. CASE Forget
  BY <1>1, <1>7, ForgetSeen
<1>8. CASE CommitRows
  BY <1>1, <1>8, CommitSeen
<1>9. CASE Insert
  <2>1. step.at = "retain" /\ handling.op = "begin"
    BY <1>9 DEF Insert
  <2> QED BY <1>1, <1>9, <2>1, BeginSeen
<1>10. CASE FinishRecord
  <2>1. PICK s : s = step.s
    OBVIOUS
  <2>2. /\ OnlyIn(s) /\ disk'[s].status \in IF s \in Active THEN Ends ELSE {disk[s].status}
        /\ disk'[s].chunks = disk[s].chunks
    BY <1>1, <1>10, <2>1, FinishDoes
  <2>3. CASE s \in Active
    <3>1. {s} \in SUBSET Active /\ disk'[s].status \in Ends
      BY <2>2, <2>3
    <3>2. \A t \in Session : /\ disk'[t].chunks = disk[t].chunks
                             /\ IF t \in {s} THEN disk'[t].status \in Ends
                                ELSE disk'[t].status = disk[t].status
      BY <2>2, <3>1 DEF OnlyIn
    <3> QED BY <1>1, <3>1, <3>2, EndSeen
  <2>4. CASE s \notin Active
    BY <1>2, <2>2, <2>4
  <2> QED BY <2>3, <2>4
<1>11. CASE Delete
  BY <1>1, <1>11, DeleteSeen
<1>12. CASE Disconnect
  <2>1. \A t \in Session : /\ disk'[t].chunks = disk[t].chunks
                           /\ disk'[t].status = IF t \in Active THEN "disconnected"
                                                ELSE disk[t].status
    BY <1>1, <1>12, DisconnectDoes
  <2>2. "disconnected" \in Ends
    BY DEF Ends
  <2> QED BY <1>1, <2>1, <2>2, EndSeen
<1>13. ASSUME NEW s \in Session, Compress(s) \/ Discard(s) \/ Trash(s)
       PROVE  ArchiveStep
  BY <1>1, <1>2, <1>13, CompressDoes, DiscardDoes, TrashDoes DEF Rows
<1>14. ASSUME NEW s \in Session, Recovered(s)
       PROVE  ArchiveStep
  <2>1. /\ OnlyIn(s) /\ s \in Active /\ disk'[s].status = "disconnected"
        /\ disk'[s].chunks = disk[s].chunks
    BY <1>1, <1>14, RecoveredDoes
  <2>2. "disconnected" \in Ends /\ {s} \in SUBSET Active
    BY <2>1 DEF Ends
  <2>3. \A t \in Session : /\ disk'[t].chunks = disk[t].chunks
                           /\ IF t \in {s} THEN disk'[t].status \in Ends
                              ELSE disk'[t].status = disk[t].status
    BY <2>1, <2>2 DEF OnlyIn
  <2> QED BY <1>1, <2>2, <2>3, EndSeen
<1>15. ASSUME NEW s \in Session, NEW p \in DOMAIN disk[s].partial, RecoverPart(s, p)
       PROVE  ArchiveStep
  BY <1>1, <1>2, <1>15, RecoverPartDoes DEF Rows
<1>16. ASSUME NEW p, RemovePart(p)
       PROVE  ArchiveStep
  BY <1>1, <1>2, <1>16, RemovePartDoes DEF Rows
<1> QED BY <1>3, <1>4, <1>5, <1>6, <1>7, <1>8, <1>9, <1>10, <1>11, <1>12, <1>13, <1>14, <1>15,
           <1>16 DEF HandlerStep

LEMMA NextSeen ==
  ASSUME HistoryInv, [HistoryNext]_historyVars, \A s \in Session : FileOrder(s), RowsInv
  PROVE  ArchiveStep
<1>1. CASE HandlerStep /\ Works
  BY <1>1, HandlerSeen
<1>2. CASE disk' = disk
  BY <1>2, NothingNew
<1>3. Restart => disk' = disk
  BY DEF Restart, WorkerStart
<1>4. HistoryNext /\ ~Restart /\ (~HandlerStep \/ ~Works) => disk' = disk
  BY OthersKeep
<1>5. UNCHANGED historyVars => disk' = disk
  BY DEF historyVars, workerVars
<1> QED BY <1>1, <1>2, <1>3, <1>4, <1>5

\* The history is an archive: a record is written at its end while its session is
\* active, a rotation forgets its oldest events, and once it has ended it never
\* changes until it is deleted, across crashes between any two steps (SessionArchive;
\* appendEvents(), trimSessionParts(), finishSession(), deleteSession() and
\* recoverInterruptedSessions() of history-worker.js).
THEOREM HistoryIsArchive == ASSUME BatchFits PROVE HistorySpec => ArchiveSpec
<1> DEFINE Order == \A s \in Session : FileOrder(s)
<1>1. HistoryInit => Archive!ArchiveInit
  <2> SUFFICES ASSUME HistoryInit PROVE Archive!ArchiveInit
    OBVIOUS
  <2>1. \A s \in Session : disk[s] = NewRecord
    BY DEF HistoryInit, WorkerInit
  <2>2. \A s \in Session : s \notin EndedSessions /\ disk[s].status = "none" /\ Events(s) = {}
    BY <2>1 DEF NewRecord, EndedSessions, Events
  <2> QED BY <2>2 DEF Archive!ArchiveInit
<1>2. HistoryInv /\ Order /\ RowsInv /\ [HistoryNext]_historyVars
        => [Archive!ArchiveNext]_(Archive!archiveVars)
  BY NextSeen DEF ArchiveStep, Archive!archiveVars, RecordStatus, Transcript
<1>3. HistorySpec => []Order
  BY FilesInOrder
<1>4. HistorySpec => []HistoryInv
  BY HistoryInvariant
<1>5. HistorySpec => []RowsInv
  BY RowsInOrder
<1> HIDE DEF Order
<1> QED BY <1>1, <1>2, <1>3, <1>4, <1>5, PTL DEF HistorySpec, ArchiveSpec, Archive!ArchiveSpec
=============================================================================
