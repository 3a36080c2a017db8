------------------------------ MODULE ClientProofs -----------------------------
(***************************************************************************)
(* Proofs about the client: how a window keeps its layout in a workspace,  *)
(* for all workspaces and every number of changes, operations and failures,*)
(* and the tabs and panes of a window, for any number of them.             *)
(***************************************************************************)
EXTENDS WorkspaceSave, WorkspaceTabs, SequenceLemmas, FiniteSetTheorems, TLAPS

-----------------------------------------------------------------------------
(* Workspaces (WorkspaceSave) *)

Locks == {"absent", "free", "locked"}
Statuses == {"none", "ok", "missing", "locked", "error"}
Kinds == {"none", "start", "autosave", "save", "saveAs", "lock", "unlock", "delete", "open",
          "open created", "open started", "rename"}
MaybeWorkspace == Workspace \union {NoWorkspace}

Table == [Workspace -> [layout : Nat, lock : Locks]]
Runtime ==
  [phase : {"starting", "running", "stopped"}, layout : Nat, last : Nat, pending : Nat,
   timer : BOOLEAN, paused : BOOLEAN, active : MaybeWorkspace, catalog : [Workspace -> Locks]]
RequestState ==
  [kind : Kinds, ws : MaybeWorkspace, step : Steps, layout : Nat, pauses : BOOLEAN,
   status : Statuses, lock : Locks]

SaveTypes ==
  /\ store \in Table /\ rt \in Runtime
  /\ auto \in RequestState /\ op \in RequestState /\ leaving \in RequestState
  /\ fetched \in [Workspace -> Locks] \union {NoCatalog}
  /\ spent \in [edits : Nat, ops : Nat, trouble : Nat]

\* What is on its way to the server: a layout by itself, or what an operation asks for
\* of a workspace it names.
IsAutosave(q) ==
  /\ q.step # "idle" => q.kind = "autosave" /\ q.step \in {"sent", "served"}
  /\ q.step = "served" => q.status # "none"

IsOperation(q) ==
  /\ q.step # "idle" /\ q.kind \notin {"start", "saveAs"} => q.ws \in Workspace
  /\ q.kind = "saveAs" /\ q.status = "ok" => q.ws \in Workspace
  /\ q.pauses => q.kind \in {"save", "saveAs", "open created", "lock", "unlock"}
  /\ q.step = "served" => q.status # "none"

RequestsFollow == IsAutosave(auto) /\ IsAutosave(leaving) /\ IsOperation(op)

\* The start saves nothing and knows the catalog it was answered with, and what rests is
\* resumed.
PhaseFollows ==
  /\ rt.phase = "starting" => rt.pending = NoLayout /\ auto.step = "idle" /\ ~rt.paused
  /\ rt.phase = "running" => op.kind # "start"
  /\ op.kind = "start" /\ op.status = "ok" => fetched \in [Workspace -> Locks]
  /\ rt.paused => op.pauses

SaveInv == SaveTypes /\ RequestsFollow /\ PhaseFollows /\ QueuedIsSent

(* The server *)

\* An answer to q, and the table it leaves.
Answers(out, q) ==
  /\ out.table \in Table /\ out.reply \in RequestState
  /\ out.reply.step = "served" /\ out.reply.status # "none"
  /\ out.reply.kind = q.kind /\ out.reply.pauses = q.pauses
  /\ out.reply.ws \in Workspace \/ q.kind = "start"

\* The layout of a locked workspace is replaced by a save of it alone.
Respects(table, q) ==
  \A w \in Workspace :
    store[w].lock = "locked" /\ table[w].lock = "locked" /\ table[w].layout # store[w].layout
      => q.kind = "save" /\ q.ws = w

LEMMA WordsAre ==
  /\ "absent" \in Locks /\ "free" \in Locks /\ "locked" \in Locks
  /\ "none" \in Statuses /\ "ok" \in Statuses /\ "missing" \in Statuses
  /\ "locked" \in Statuses /\ "error" \in Statuses
  /\ "idle" \in Steps /\ "flushing" \in Steps /\ "sent" \in Steps /\ "served" \in Steps
BY DEF Locks, Statuses, Steps

LEMMA ReplyFacts ==
  ASSUME NEW q \in RequestState, NEW w \in MaybeWorkspace, NEW lock \in Locks,
         NEW status \in Statuses
  PROVE  /\ Reply(q, status, w, lock) \in RequestState
         /\ Reply(q, status, w, lock).step = "served"
         /\ Reply(q, status, w, lock).status = status
         /\ Reply(q, status, w, lock).kind = q.kind
         /\ Reply(q, status, w, lock).pauses = q.pauses
         /\ Reply(q, status, w, lock).ws = w
         /\ Reply(q, status, w, lock).lock = lock
BY WordsAre DEF Reply, RequestState

LEMMA CreateFacts ==
  ASSUME store \in Table, NEW q \in RequestState, NEW out \in Create(q)
  PROVE  Answers(out, q) /\ Respects(out.table, q)
<1>1. PICK w \in Workspace :
        /\ ~Present(w)
        /\ out = Outcome([store EXCEPT ![w] = [layout |-> q.layout, lock |-> "free"]],
                         Reply(q, "ok", w, "free"))
  BY DEF Create
<1>2. /\ out.table = [store EXCEPT ![w] = [layout |-> q.layout, lock |-> "free"]]
      /\ out.reply = Reply(q, "ok", w, "free")
  BY <1>1 DEF Outcome
<1>3. [layout |-> q.layout, lock |-> "free"] \in [layout : Nat, lock : Locks]
  BY WordsAre DEF RequestState
<1>4. out.table \in Table
  BY <1>2, <1>3 DEF Table
<1>5. w \in MaybeWorkspace
  BY DEF MaybeWorkspace
<1>6. Answers(out, q)
  <2>1. "ok" \in Statuses /\ "free" \in Locks
    BY WordsAre
  <2> QED BY <1>2, <1>4, <1>5, <2>1, ReplyFacts DEF Answers
<1>7. Respects(out.table, q)
  <2>1. store[w].lock = "absent"
    BY <1>1 DEF Present
  <2> QED BY <1>2, <2>1 DEF Respects, Table
<1> QED BY <1>6, <1>7

\* What leaves the table as it is.
LEMMA OnlyAnswered ==
  ASSUME store \in Table, NEW q \in RequestState, NEW reply \in RequestState,
         reply.step = "served", reply.status # "none", reply.kind = q.kind,
         reply.pauses = q.pauses, reply.ws \in Workspace \/ q.kind = "start"
  PROVE  Answers(Outcome(store, reply), q) /\ Respects(store, q)
BY DEF Answers, Respects, Outcome

LEMMA RowFacts ==
  ASSUME store \in Table, NEW q \in RequestState, NEW w \in Workspace
  PROVE  /\ Row(q, w) \in RequestState /\ Row(q, w).step = "served"
         /\ Row(q, w).status # "none" /\ Row(q, w).kind = q.kind
         /\ Row(q, w).pauses = q.pauses /\ Row(q, w).ws = w
<1>1. w \in MaybeWorkspace
  BY DEF MaybeWorkspace
<1>2. store[w].layout \in Nat /\ store[w].lock \in Locks
  BY DEF Table
<1>3. CASE Present(w)
  <2> DEFINE r == Reply(q, "ok", w, store[w].lock)
  <2>0. "ok" \in Statuses
    BY WordsAre
  <2>1. /\ r \in RequestState /\ r.step = "served" /\ r.status = "ok" /\ r.kind = q.kind
        /\ r.pauses = q.pauses /\ r.ws = w
    BY <1>1, <1>2, <2>0, ReplyFacts
  <2>2. Row(q, w) = [r EXCEPT !.layout = store[w].layout]
    BY <1>3 DEF Row
  <2> HIDE DEF r
  <2> QED BY <1>2, <2>1, <2>2 DEF RequestState
<1>4. CASE ~Present(w)
  <2>1. Row(q, w) = Reply(q, "missing", w, "absent")
    BY <1>4 DEF Row
  <2>2. "missing" \in Statuses /\ "absent" \in Locks
    BY WordsAre
  <2> QED BY <1>1, <2>1, <2>2, ReplyFacts
<1> QED BY <1>3, <1>4

LEMMA PutFacts ==
  ASSUME store \in Table, NEW q \in RequestState, NEW explicit \in BOOLEAN,
         explicit => q.kind = "save", NEW out \in Put(q, explicit)
  PROVE  Answers(out, q) /\ Respects(out.table, q)
<1>1. CASE q.ws = NoWorkspace
  BY <1>1, CreateFacts DEF Put
<1>2. CASE q.ws # NoWorkspace
  <2>1. q.ws \in Workspace /\ q.ws \in MaybeWorkspace
    BY <1>2 DEF RequestState, MaybeWorkspace
  <2>2. CASE ~Present(q.ws)
    <3>1. out = Outcome(store, Reply(q, "missing", q.ws, "absent"))
      BY <1>2, <2>2 DEF Put
    <3>2. "missing" \in Statuses /\ "absent" \in Locks
      BY WordsAre
    <3> QED BY <2>1, <3>1, <3>2, ReplyFacts, OnlyAnswered DEF Outcome
  <2>3. CASE Present(q.ws) /\ ~Overwrites(q.ws, explicit)
    <3>1. out = Outcome(store, Reply(q, "locked", q.ws, "locked"))
      BY <1>2, <2>3 DEF Put
    <3>2. "locked" \in Statuses /\ "locked" \in Locks
      BY WordsAre
    <3> QED BY <2>1, <3>1, <3>2, ReplyFacts, OnlyAnswered DEF Outcome
  <2>4. CASE Present(q.ws) /\ Overwrites(q.ws, explicit)
    <3>1. out = Outcome([store EXCEPT ![q.ws].layout = q.layout],
                        Reply(q, "ok", q.ws, store[q.ws].lock))
      BY <1>2, <2>4 DEF Put
    <3>2. /\ out.table = [store EXCEPT ![q.ws].layout = q.layout]
          /\ out.reply = Reply(q, "ok", q.ws, store[q.ws].lock)
      BY <3>1 DEF Outcome
    <3>3. store[q.ws].lock \in Locks /\ q.layout \in Nat
      BY <2>1 DEF Table, RequestState
    <3>4. out.table \in Table
      BY <2>1, <3>2, <3>3 DEF Table
    <3>5. Answers(out, q)
      <4>1. "ok" \in Statuses
        BY WordsAre
      <4> QED BY <2>1, <3>2, <3>3, <3>4, <4>1, ReplyFacts DEF Answers
    <3>6. Respects(out.table, q)
      <4>1. store[q.ws].lock = "locked" => q.kind = "save"
        BY <2>4 DEF Overwrites
      <4>2. \A w \in Workspace : w # q.ws => out.table[w] = store[w]
        BY <3>2 DEF Table
      <4> QED BY <4>1, <4>2 DEF Respects
    <3> QED BY <3>5, <3>6
  <2> QED BY <2>2, <2>3, <2>4
<1> QED BY <1>1, <1>2

LEMMA PatchFacts ==
  ASSUME store \in Table, NEW q \in RequestState, q.ws \in Workspace,
         NEW lock \in Locks, NEW out \in Patch(q, lock)
  PROVE  Answers(out, q) /\ Respects(out.table, q)
<1>1. q.ws \in MaybeWorkspace
  BY DEF MaybeWorkspace
<1>2. CASE Present(q.ws)
  <2>1. out = Outcome([store EXCEPT ![q.ws].lock = lock], Reply(q, "ok", q.ws, lock))
    BY <1>2 DEF Patch
  <2>2. /\ out.table = [store EXCEPT ![q.ws].lock = lock] /\ out.reply = Reply(q, "ok", q.ws, lock)
    BY <2>1 DEF Outcome
  <2>3. out.table \in Table /\ \A w \in Workspace : out.table[w].layout = store[w].layout
    BY <2>2 DEF Table
  <2>4. "ok" \in Statuses
    BY WordsAre
  <2> QED BY <1>1, <2>2, <2>3, <2>4, ReplyFacts DEF Answers, Respects
<1>3. CASE ~Present(q.ws)
  <2>1. out = Outcome(store, Row(q, q.ws))
    BY <1>3 DEF Patch
  <2> QED BY <2>1, RowFacts, OnlyAnswered DEF Outcome
<1> QED BY <1>2, <1>3

LEMMA DeleteFacts ==
  ASSUME store \in Table, NEW q \in RequestState, q.ws \in Workspace,
         NEW out \in DeleteWorkspace(q)
  PROVE  Answers(out, q) /\ Respects(out.table, q)
<1>1. /\ out.table = [store EXCEPT ![q.ws] = [layout |-> NoLayout, lock |-> "absent"]]
      /\ out.reply = Row(q, q.ws)
  BY DEF DeleteWorkspace, Outcome
<1>2. [layout |-> NoLayout, lock |-> "absent"] \in [layout : Nat, lock : Locks]
  BY WordsAre DEF NoLayout
<1>3. out.table \in Table
  BY <1>1, <1>2 DEF Table
<1>4. \A w \in Workspace : w # q.ws => out.table[w] = store[w]
  BY <1>1 DEF Table
<1>5. out.table[q.ws].lock = "absent"
  BY <1>1 DEF Table
<1> QED BY <1>1, <1>3, <1>4, <1>5, RowFacts DEF Answers, Respects

LEMMA LoadFacts ==
  ASSUME store \in Table, NEW q \in RequestState, q.kind = "start", NEW out \in Load(q)
  PROVE  Answers(out, q) /\ Respects(out.table, q)
<1>1. CASE out = Outcome(store, Reply(q, "ok", NoWorkspace, "absent"))
  <2>1. NoWorkspace \in MaybeWorkspace
    BY DEF MaybeWorkspace
  <2>2. "ok" \in Statuses /\ "absent" \in Locks
    BY WordsAre
  <2> QED BY <1>1, <2>1, <2>2, ReplyFacts, OnlyAnswered DEF Outcome
<1>2. CASE \E w \in Workspace : out = Outcome(store, Row(q, w))
  BY <1>2, RowFacts, OnlyAnswered DEF Outcome
<1> QED BY <1>1, <1>2 DEF Load

\* What the server does with a request, and with one of the autosave.
LEMMA OutcomeFacts ==
  ASSUME store \in Table, NEW q \in RequestState, NEW out \in Outcomes(q),
         q.kind \in {"start", "saveAs", "autosave"} \/ q.ws \in Workspace
  PROVE  Answers(out, q) /\ Respects(out.table, q)
<1>1. CASE q.kind = "autosave"
  <2>1. out \in Put(q, FALSE)
    BY <1>1 DEF Outcomes
  <2> QED BY <2>1, PutFacts
<1>2. CASE q.kind = "save"
  <2>1. out \in Put(q, TRUE)
    BY <1>2 DEF Outcomes
  <2> QED BY <1>2, <2>1, PutFacts
<1>3. CASE q.kind = "saveAs"
  <2>1. out \in Create(q)
    BY <1>3 DEF Outcomes
  <2> QED BY <2>1, CreateFacts
<1>4. CASE q.kind = "lock"
  <2>1. out \in Patch(q, "locked") /\ q.ws \in Workspace
    BY <1>4 DEF Outcomes
  <2> QED BY <2>1, PatchFacts, WordsAre
<1>5. CASE q.kind = "unlock"
  <2>1. out \in Patch(q, "free") /\ q.ws \in Workspace
    BY <1>5 DEF Outcomes
  <2> QED BY <2>1, PatchFacts, WordsAre
<1>6. CASE q.kind = "delete"
  <2>1. out \in DeleteWorkspace(q) /\ q.ws \in Workspace
    BY <1>6 DEF Outcomes
  <2> QED BY <2>1, DeleteFacts
<1>7. CASE q.kind = "start"
  <2>1. out \in Load(q)
    BY <1>7 DEF Outcomes
  <2> QED BY <1>7, <2>1, LoadFacts
<1>8. CASE q.kind \notin {"autosave", "save", "saveAs", "lock", "unlock", "delete", "start"}
  <2>1. out = Outcome(store, Row(q, q.ws)) /\ q.ws \in Workspace
    BY <1>8 DEF Outcomes
  <2> QED BY <2>1, RowFacts, OnlyAnswered DEF Outcome
<1> QED BY <1>1, <1>2, <1>3, <1>4, <1>5, <1>6, <1>7, <1>8

(* The runtime *)

\* A change waits that nobody will look at.
Unattended(r) == r.pending # NoLayout /\ ~r.timer

\* What leaves the window running, or starting, as it was, and no change to nobody.
Follows(r, q) ==
  /\ q \in Runtime
  /\ q.phase = r.phase /\ q.paused = r.paused
  /\ Unattended(q) => Unattended(r)

LEMMA FollowsOn ==
  ASSUME NEW p, NEW q, NEW r, Follows(p, q), Follows(q, r)
  PROVE  Follows(p, r)
BY DEF Follows

LEMMA ChangedFacts ==
  ASSUME NEW r \in Runtime
  PROVE  /\ Follows(r, Changed(r))
         /\ r.phase # "running" => Changed(r) = r
<1>1. CASE Changed(r) = r
  BY <1>1 DEF Follows
<1>2. CASE r.phase = "running" /\ Changed(r) = Queued([r EXCEPT !.last = r.layout], r.layout)
  <2>1. Changed(r) = [r EXCEPT !.last = r.layout, !.pending = r.layout, !.timer = TRUE]
    BY <1>2 DEF Queued, Runtime
  <2>2. TRUE \in BOOLEAN
    OBVIOUS
  <2> QED BY <1>2, <2>1, <2>2 DEF Follows, Unattended, Runtime
<1> QED BY <1>1, <1>2 DEF Changed

LEMMA FlushedFacts ==
  ASSUME NEW r \in Runtime, r.phase # "stopped"
  PROVE  /\ Flushed(r) \in Runtime
         /\ Flushed(r).phase = r.phase /\ Flushed(r).paused = r.paused
         /\ Flushed(r).pending = NoLayout
<1>1. CASE SavesNow(r) \/ Locked(r)
  BY <1>1 DEF Flushed, Runtime, NoLayout
<1>2. CASE ~SavesNow(r) /\ ~Locked(r)
  BY <1>2 DEF Flushed, SavesNow
<1> QED BY <1>1, <1>2

LEMMA RequestFacts ==
  ASSUME NEW kind \in Kinds, NEW w \in MaybeWorkspace
  PROVE  /\ Request(kind, w) \in RequestState
         /\ Request(kind, w).kind = kind /\ Request(kind, w).ws = w
         /\ Request(kind, w).step = "sent" /\ ~Request(kind, w).pauses
         /\ Request(kind, w).status = "none"
<1>1. /\ "none" \in Statuses /\ "absent" \in Locks /\ "sent" \in Steps
      /\ FALSE \in BOOLEAN /\ NoLayout \in Nat
  BY WordsAre DEF NoLayout
<1> QED BY <1>1 DEF Request, RequestState

LEMMA NoRequestFacts ==
  /\ NoRequest \in RequestState
  /\ NoRequest.kind = "none" /\ NoRequest.step = "idle" /\ ~NoRequest.pauses
  /\ NoRequest.status = "none"
<1>1. "none" \in Kinds /\ NoWorkspace \in MaybeWorkspace /\ "idle" \in Steps
  BY WordsAre DEF Kinds, MaybeWorkspace
<1> DEFINE q == Request("none", NoWorkspace)
<1>2. q \in RequestState /\ q.kind = "none" /\ ~q.pauses /\ q.status = "none"
  BY <1>1, RequestFacts
<1>3. NoRequest = [q EXCEPT !.step = "idle"]
  BY DEF NoRequest
<1> HIDE DEF q
<1> QED BY <1>1, <1>2, <1>3 DEF RequestState

LEMMA AutosaveFacts ==
  ASSUME NEW r \in Runtime
  PROVE  /\ Autosave(r) \in RequestState /\ Autosave(r).step \in {"idle", "sent"}
         /\ Autosave(r).step # "idle" => Autosave(r).kind = "autosave"
         /\ ~Autosave(r).pauses /\ Autosave(r).status = "none"
         /\ r.pending = NoLayout => Autosave(r).step = "idle"
<1>1. CASE SavesNow(r)
  <2>1. "autosave" \in Kinds /\ r.active \in MaybeWorkspace /\ r.pending \in Nat
    BY DEF Kinds, Runtime
  <2>2. PICK q : q = Request("autosave", r.active)
    OBVIOUS
  <2>3. Autosave(r) = [q EXCEPT !.layout = r.pending]
    BY <1>1, <2>2 DEF Autosave
  <2>5. q \in RequestState
    BY <2>1, <2>2, RequestFacts
  <2>6. /\ q.kind = "autosave" /\ q.step = "sent" /\ ~q.pauses /\ q.status = "none"
    BY <2>1, <2>2, RequestFacts
  <2>4. r.pending # NoLayout
    BY <1>1 DEF SavesNow
  <2> QED BY <2>1, <2>3, <2>4, <2>5, <2>6 DEF RequestState
<1>2. CASE ~SavesNow(r)
  BY <1>2, NoRequestFacts DEF Autosave
<1> QED BY <1>1, <1>2

LEMMA RecordedFacts ==
  ASSUME NEW r \in Runtime, NEW w \in MaybeWorkspace, NEW lock \in Locks
  PROVE  Follows(r, Recorded(r, w, lock)) /\ Follows(r, RecordedActive(r, w, lock))
<1>1. /\ Recorded(r, w, lock) = [r EXCEPT !.catalog = [@ EXCEPT ![w] = lock]]
      /\ RecordedActive(r, w, lock) = [r EXCEPT !.catalog = [@ EXCEPT ![w] = lock], !.active = w]
  BY DEF Recorded, RecordedActive, Runtime
<1>2. [r.catalog EXCEPT ![w] = lock] \in [Workspace -> Locks]
  BY DEF Runtime
<1> QED BY <1>1, <1>2 DEF Follows, Unattended, Runtime

LEMMA DetachedFacts ==
  ASSUME NEW r \in Runtime, NEW catalog \in [Workspace -> Locks]
  PROVE  Follows(r, Detached(r, catalog))
<1>1. NoWorkspace \in MaybeWorkspace /\ NoLayout \in Nat /\ FALSE \in BOOLEAN
  BY DEF MaybeWorkspace, NoLayout
<1> QED BY <1>1 DEF Detached, Follows, Unattended, Runtime

LEMMA DeletedFacts ==
  ASSUME NEW r \in Runtime, NEW w \in MaybeWorkspace
  PROVE  Follows(r, Deleted(r, w))
<1> DEFINE q == Recorded(r, w, "absent")
<1>1. Follows(r, q)
  BY RecordedFacts, WordsAre
<1>2. CASE w = r.active
  <2>1. Deleted(r, w) = [q EXCEPT !.pending = NoLayout, !.last = r.layout,
                                  !.active = NoWorkspace]
    BY <1>2 DEF Deleted
  <2>2. NoWorkspace \in MaybeWorkspace /\ NoLayout \in Nat /\ r.layout \in Nat
    BY DEF MaybeWorkspace, NoLayout, Runtime
  <2> HIDE DEF q
  <2> QED BY <1>1, <2>1, <2>2 DEF Follows, Unattended, Runtime
<1>3. CASE w # r.active
  BY <1>1, <1>3 DEF Deleted
<1> QED BY <1>2, <1>3

LEMMA ReconciledFacts ==
  ASSUME NEW r \in Runtime, NEW catalog \in [Workspace -> Locks]
  PROVE  Follows(r, Reconciled(r, catalog))
<1> DEFINE q == [r EXCEPT !.catalog = catalog]
<1>1. Follows(r, q) /\ q \in Runtime
  BY DEF Follows, Unattended, Runtime
<1>2. Follows(q, Unqueued(q))
  <2>1. NoLayout \in Nat /\ FALSE \in BOOLEAN
    BY DEF NoLayout
  <2>2. Unqueued(q) = [q EXCEPT !.timer = FALSE, !.pending = NoLayout]
    BY DEF Unqueued
  <2> HIDE DEF q
  <2> QED BY <1>1, <2>1, <2>2 DEF Follows, Unattended, Runtime
<1>3. Follows(q, Changed(q))
  BY <1>1, ChangedFacts
<1>4. Reconciled(r, catalog) \in {Detached(r, catalog), q, Unqueued(q), Changed(q)}
  BY DEF Reconciled
<1> HIDE DEF q
<1> QED BY <1>1, <1>2, <1>3, <1>4, DetachedFacts, FollowsOn

LEMMA StartedFacts ==
  ASSUME NEW r \in Runtime, NEW before
  PROVE  /\ Started(r, before) \in Runtime
         /\ Started(r, before).phase = "running" /\ Started(r, before).paused = r.paused
         /\ Unattended(Started(r, before)) => Unattended(r)
<1> DEFINE q == [r EXCEPT !.phase = "running", !.last = r.layout]
<1>1. /\ q \in Runtime /\ q.phase = "running" /\ q.paused = r.paused /\ r.layout \in Nat
      /\ q.pending = r.pending /\ q.timer = r.timer
  BY DEF Runtime
<1>2. Started(r, before) \in {q, Queued(q, r.layout)}
  BY DEF Started
<1>3. TRUE \in BOOLEAN
  OBVIOUS
<1> HIDE DEF q
<1>4. CASE Started(r, before) = q
  BY <1>1, <1>4 DEF Unattended
<1>5. CASE Started(r, before) = Queued(q, r.layout)
  BY <1>1, <1>3, <1>5 DEF Unattended, Queued, Runtime
<1> QED BY <1>2, <1>4, <1>5

(* The steps *)

LEMMA FinallyFacts ==
  ASSUME NEW r \in Runtime, r.paused => op.pauses
  PROVE  /\ Finally(r) \in Runtime
         /\ Finally(r).phase = r.phase /\ ~Finally(r).paused
         /\ Unattended(Finally(r)) => Unattended(r)
<1>1. CASE op.pauses
  <2> DEFINE q == [r EXCEPT !.paused = FALSE]
  <2>0. FALSE \in BOOLEAN
    OBVIOUS
  <2>1. /\ q \in Runtime /\ q.phase = r.phase /\ ~q.paused
        /\ q.pending = r.pending /\ q.timer = r.timer
    BY <2>0 DEF Runtime
  <2>2. Finally(r) = Changed(q)
    BY <1>1 DEF Finally
  <2> HIDE DEF q
  <2>3. Follows(q, Changed(q))
    BY <2>1, ChangedFacts
  <2> QED BY <2>1, <2>2, <2>3 DEF Follows, Unattended
<1>2. CASE ~op.pauses
  BY <1>2 DEF Finally
<1> QED BY <1>1, <1>2

LEMMA FlushMoves ==
  ASSUME NEW r \in Runtime, NEW o \in RequestState, r.phase = "running", Flush(r, o)
  PROVE  /\ rt' \in Runtime /\ rt'.phase = "running" /\ rt'.paused = r.paused
         /\ rt'.pending = NoLayout
         /\ auto' \in RequestState /\ IsAutosave(auto')
         /\ op' \in RequestState /\ op'.step \in {o.step, "sent"} /\ op'.kind = o.kind
         /\ op'.ws = o.ws /\ op'.pauses = o.pauses /\ op'.status = o.status
<1>1. rt' = Flushed(r) /\ auto' = Autosave(r)
  BY DEF Flush
<1>2. /\ rt' \in Runtime /\ rt'.phase = "running" /\ rt'.paused = r.paused
      /\ rt'.pending = NoLayout
  BY <1>1, FlushedFacts
<1>3. auto' \in RequestState /\ IsAutosave(auto')
  BY <1>1, AutosaveFacts DEF IsAutosave
<1>4. "sent" \in Steps /\ r.layout \in Nat
  BY WordsAre DEF Runtime
<1>5. op' = o \/ op' = [o EXCEPT !.step = "sent", !.layout = r.layout]
  BY DEF Flush
<1>6. /\ op' \in RequestState /\ op'.step \in {o.step, "sent"} /\ op'.kind = o.kind
      /\ op'.ws = o.ws /\ op'.pauses = o.pauses /\ op'.status = o.status
  BY <1>4, <1>5 DEF RequestState
<1> QED BY <1>2, <1>3, <1>6

LEMMA OfferedFacts ==
  ASSUME rt \in Runtime, NEW o \in Offered
  PROVE  /\ o[1] \in {"saveAs", "save", "open", "rename", "delete", "lock", "unlock"}
         /\ o[2] \in MaybeWorkspace
         /\ o[1] # "saveAs" => o[2] \in Workspace
<1>1. rt.active \in MaybeWorkspace
  BY DEF Runtime
<1>2. CASE o = <<"saveAs", NoWorkspace>>
  BY <1>2 DEF MaybeWorkspace
<1>3. CASE \E w \in {rt.active} \ {NoWorkspace} : o = <<"save", w>>
  BY <1>1, <1>3 DEF MaybeWorkspace
<1>4. CASE o \in {"open", "rename", "delete"} \X Workspace
  BY <1>4 DEF MaybeWorkspace
<1>5. CASE \E w \in Workspace : o = <<"lock", w>> \/ o = <<"unlock", w>>
  BY <1>5 DEF MaybeWorkspace
<1> QED BY <1>2, <1>3, <1>4, <1>5 DEF Offered

\* The parts of the invariant that a step of the window disturbs, once it runs.
LEMMA WindowMoves ==
  ASSUME SaveInv, rt' \in Runtime, rt'.phase = "running", rt'.paused => op'.pauses,
         auto' \in RequestState, IsAutosave(auto'),
         op' \in RequestState, IsOperation(op'), op'.kind # "start",
         Unattended(rt') => auto'.step # "idle",
         fetched' \in [Workspace -> Locks] \union {NoCatalog},
         store' = store, leaving' = leaving,
         spent' \in [edits : Nat, ops : Nat, trouble : Nat]
  PROVE  SaveInv'
<1>1. SaveTypes'
  BY DEF SaveInv, SaveTypes
<1>2. RequestsFollow'
  BY DEF SaveInv, RequestsFollow, IsAutosave, IsOperation
<1>3. PhaseFollows'
  BY DEF PhaseFollows
<1>4. QueuedIsSent'
  BY DEF QueuedIsSent, Unattended
<1> QED BY <1>1, <1>2, <1>3, <1>4 DEF SaveInv

\* The request q of the window was answered, or lost, in the table it found.
Serves(q, answer) ==
  /\ store' \in Table /\ answer \in RequestState
  /\ answer.step = "served" /\ answer.status # "none"
  /\ answer.kind = q.kind /\ answer.pauses = q.pauses
  /\ answer.ws \in Workspace \/ answer.ws = q.ws \/ q.kind = "start"

LEMMA ServesFacts ==
  ASSUME store \in Table, NEW q \in RequestState, NEW answer,
         q.kind \in {"start", "saveAs", "autosave"} \/ q.ws \in Workspace,
         \E out \in Outcomes(q) : store' = out.table /\ answer = out.reply
  PROVE  Serves(q, answer) /\ Respects(store', q)
<1>1. PICK out \in Outcomes(q) : store' = out.table /\ answer = out.reply
  OBVIOUS
<1>2. Answers(out, q) /\ Respects(out.table, q)
  BY OutcomeFacts
<1> QED BY <1>1, <1>2 DEF Answers, Serves

LEMMA LostFacts ==
  ASSUME store \in Table, NEW q \in RequestState, Lost(q),
         q.kind \in {"start", "saveAs", "autosave"} \/ q.ws \in Workspace
  PROVE  /\ Serves(q, [q EXCEPT !.step = "served", !.status = "error"])
         /\ Respects(store', q)
<1>1. CASE store' = store
  <2>1. "served" \in Steps /\ "error" \in Statuses
    BY WordsAre
  <2> QED BY <1>1, <2>1 DEF Serves, RequestState, Respects
<1>2. CASE \E out \in Outcomes(q) : store' = out.table
  <2>1. PICK out \in Outcomes(q) : store' = out.table
    BY <1>2
  <2>2. Answers(out, q) /\ Respects(out.table, q)
    BY OutcomeFacts
  <2>3. "served" \in Steps /\ "error" \in Statuses
    BY WordsAre
  <2>4. store' \in Table /\ Respects(store', q)
    BY <2>1, <2>2 DEF Answers
  <2> QED BY <2>3, <2>4 DEF Serves, RequestState
<1> QED BY <1>1, <1>2 DEF Lost

LEMMA SpentFacts ==
  ASSUME spent \in [edits : Nat, ops : Nat, trouble : Nat],
         \/ spent' = spent
         \/ Spend("edits", MaxEdits) \/ Spend("ops", MaxOps) \/ Spend("trouble", MaxTrouble)
  PROVE  spent' \in [edits : Nat, ops : Nat, trouble : Nat]
BY DEF Spend

LEMMA CatalogFacts ==
  ASSUME store \in Table
  PROVE  CatalogNow \in [Workspace -> Locks]
BY DEF CatalogNow, Table

LEMMA AutosaveAsks ==
  ASSUME SaveInv, auto.step # "idle"
  PROVE  /\ store \in Table /\ auto \in RequestState /\ auto.kind = "autosave"
         /\ rt.phase # "starting"
BY DEF SaveInv, SaveTypes, RequestsFollow, IsAutosave, PhaseFollows

\* Requests of the autosave that are answered, or lost.
LEMMA AutosaveMoves ==
  ASSUME SaveInv, auto.step = "sent", Serves(auto, auto'), UNCHANGED <<rt, op, fetched, leaving>>,
         spent' \in [edits : Nat, ops : Nat, trouble : Nat]
  PROVE  SaveInv'
<1>0. auto.kind = "autosave" /\ rt.phase # "starting"
  BY AutosaveAsks
<1>1. SaveTypes'
  BY DEF SaveInv, SaveTypes, Serves
<1>2. RequestsFollow'
  BY <1>0 DEF SaveInv, RequestsFollow, IsAutosave, IsOperation, Serves
<1>3. PhaseFollows'
  BY <1>0 DEF SaveInv, PhaseFollows
<1>4. QueuedIsSent'
  BY DEF QueuedIsSent, Serves
<1> QED BY <1>1, <1>2, <1>3, <1>4 DEF SaveInv

LEMMA OpAsks ==
  ASSUME SaveInv, op.step # "idle"
  PROVE  /\ store \in Table /\ op \in RequestState
         /\ op.kind \in {"start", "saveAs", "autosave"} \/ op.ws \in Workspace
BY DEF SaveInv, SaveTypes, RequestsFollow, IsOperation

\* Requests of an operation that are answered, or lost.
LEMMA OpMoves ==
  ASSUME SaveInv, op.step = "sent", Serves(op, op'), UNCHANGED <<rt, auto, leaving>>,
         fetched' = IF op.kind = "start" /\ op'.status # "error" THEN CatalogNow ELSE fetched,
         op.kind = "saveAs" /\ op'.status = "ok" => op'.ws \in Workspace,
         spent' \in [edits : Nat, ops : Nat, trouble : Nat]
  PROVE  SaveInv'
<1>0. /\ CatalogNow \in [Workspace -> Locks]
      /\ op.kind \in {"start", "saveAs"} \/ op.ws \in Workspace
  BY CatalogFacts DEF SaveInv, SaveTypes, RequestsFollow, IsOperation
<1>1. SaveTypes'
  BY <1>0 DEF SaveInv, SaveTypes, Serves
<1>2. RequestsFollow'
  BY <1>0 DEF SaveInv, RequestsFollow, IsAutosave, IsOperation, Serves
<1>3. PhaseFollows'
  BY <1>0 DEF SaveInv, PhaseFollows, Serves
<1>4. QueuedIsSent'
  BY DEF SaveInv, QueuedIsSent, Running
<1> QED BY <1>1, <1>2, <1>3, <1>4 DEF SaveInv

\* What saveAs() created has a name.
LEMMA OpNamed ==
  ASSUME SaveInv, op.kind = "saveAs", NEW out \in Outcomes(op)
  PROVE  out.reply.ws \in Workspace
<1>1. out \in Create(op)
  BY DEF Outcomes
<1>2. PICK w \in Workspace : out.reply = Reply(op, "ok", w, "free")
  BY <1>1 DEF Create, Outcome
<1>3. /\ op \in RequestState /\ w \in MaybeWorkspace /\ "ok" \in Statuses /\ "free" \in Locks
  BY WordsAre DEF SaveInv, SaveTypes, MaybeWorkspace
<1> QED BY <1>2, <1>3, ReplyFacts

LEMMA ServerSteps ==
  ASSUME SaveInv,
         \/ AutosaveServed \/ OpServed \/ LeavingServed \/ AutosaveLost \/ OpLost \/ OtherClient
  PROVE  SaveInv'
<1>0. spent \in [edits : Nat, ops : Nat, trouble : Nat] /\ store \in Table
  BY DEF SaveInv, SaveTypes
<1>1. CASE AutosaveServed
  <2>1. Serves(auto, auto')
    BY <1>1, AutosaveAsks, ServesFacts DEF AutosaveServed
  <2> QED BY <1>0, <1>1, <2>1, AutosaveMoves DEF AutosaveServed
<1>2. CASE AutosaveLost
  <2>1. Serves(auto, auto')
    BY <1>2, AutosaveAsks, LostFacts DEF AutosaveLost, Lost
  <2>2. spent' \in [edits : Nat, ops : Nat, trouble : Nat]
    BY <1>0, <1>2, SpentFacts DEF AutosaveLost, Lost
  <2> QED BY <1>2, <2>1, <2>2, AutosaveMoves DEF AutosaveLost, Lost
<1>3. CASE OpServed
  <2>1. Serves(op, op')
    BY <1>3, OpAsks, ServesFacts DEF OpServed
  <2>2. op.kind = "saveAs" => op'.ws \in Workspace
    BY <1>3, OpNamed DEF OpServed
  <2>3. op.kind = "start" => op'.status # "error"
    <3>1. SUFFICES ASSUME op.kind = "start" PROVE op'.status # "error"
      OBVIOUS
    <3>2. PICK out \in Load(op) : op' = out.reply
      BY <1>3, <3>1 DEF OpServed, Outcomes
    <3>3. op' = Reply(op, "ok", NoWorkspace, "absent") \/ \E w \in Workspace : op' = Row(op, w)
      BY <3>2 DEF Load, Outcome
    <3>4. op \in RequestState
      BY DEF SaveInv, SaveTypes
    <3>5. CASE op' = Reply(op, "ok", NoWorkspace, "absent")
      BY <3>4, <3>5 DEF Reply, RequestState
    <3>6. CASE \E w \in Workspace : op' = Row(op, w)
      <4>1. PICK w \in Workspace : op' = Row(op, w)
        BY <3>6
      <4> QED BY <3>4, <4>1 DEF Row, Reply, RequestState
    <3> QED BY <3>3, <3>5, <3>6
  <2> QED BY <1>0, <1>3, <2>1, <2>2, <2>3, OpMoves DEF OpServed
<1>4. CASE OpLost
  <2>1. Serves(op, op')
    BY <1>4, OpAsks, LostFacts DEF OpLost, Lost
  <2>2. spent' \in [edits : Nat, ops : Nat, trouble : Nat]
    BY <1>0, <1>4, SpentFacts DEF OpLost, Lost
  <2>3. op'.status = "error"
    BY <1>4 DEF OpLost, SaveInv, SaveTypes, RequestState
  <2> QED BY <1>4, <2>1, <2>2, <2>3, OpMoves DEF OpLost, Lost
<1>5. CASE store' \in Table /\ leaving' \in {leaving, NoRequest}
           /\ UNCHANGED <<rt, auto, op, fetched>>
           /\ spent' \in [edits : Nat, ops : Nat, trouble : Nat]
  <2>1. IsAutosave(NoRequest) /\ NoRequest \in RequestState
    BY NoRequestFacts DEF IsAutosave
  <2>2. SaveTypes'
    BY <1>5, <2>1 DEF SaveInv, SaveTypes
  <2>3. RequestsFollow'
    BY <1>5, <2>1 DEF SaveInv, RequestsFollow, IsAutosave, IsOperation
  <2>4. PhaseFollows' /\ QueuedIsSent'
    BY <1>5 DEF SaveInv, PhaseFollows, QueuedIsSent, Running
  <2> QED BY <2>2, <2>3, <2>4 DEF SaveInv
<1>6. CASE LeavingServed
  <2>1. leaving \in RequestState /\ leaving.kind = "autosave"
    BY <1>6 DEF LeavingServed, SaveInv, SaveTypes, RequestsFollow, IsAutosave
  <2>2. PICK out \in Outcomes(leaving) : store' = out.table
    BY <1>6 DEF LeavingServed
  <2>3. store' \in Table
    BY <1>0, <2>1, <2>2, OutcomeFacts DEF Answers
  <2> QED BY <1>0, <1>5, <1>6, <2>3 DEF LeavingServed
<1>7. CASE OtherClient
  <2>1. PICK w \in Workspace :
          \/ store' = [store EXCEPT ![w].lock = IF @ = "free" THEN "locked" ELSE "free"]
          \/ store' = [store EXCEPT ![w] = [layout |-> NoLayout, lock |-> "absent"]]
    BY <1>7 DEF OtherClient
  <2>2. [layout |-> NoLayout, lock |-> "absent"] \in [layout : Nat, lock : Locks]
    BY WordsAre DEF NoLayout
  <2>3. "free" \in Locks /\ "locked" \in Locks
    BY WordsAre
  <2>4. store' \in Table
    BY <1>0, <2>1, <2>2, <2>3 DEF Table
  <2>5. spent' \in [edits : Nat, ops : Nat, trouble : Nat]
    BY <1>0, <1>7, SpentFacts DEF OtherClient
  <2> QED BY <1>5, <1>7, <2>4, <2>5 DEF OtherClient
<1> QED BY <1>1, <1>2, <1>3, <1>4, <1>6, <1>7

\* An operation ends; what rested is resumed.
LEMMA OpEnds ==
  ASSUME SaveInv, Running, NEW r, Follows(rt, r), rt' = Finally(r), op' = NoRequest,
         UNCHANGED <<store, auto, fetched, leaving, spent>>
  PROVE  SaveInv'
<1>1. r \in Runtime /\ r.phase = "running" /\ (r.paused => op.pauses)
  BY DEF Follows, Running, SaveInv, PhaseFollows
<1>2. /\ rt' \in Runtime /\ rt'.phase = "running" /\ ~rt'.paused
      /\ Unattended(rt') => Unattended(rt)
  BY <1>1, FinallyFacts DEF Follows
<1>3. Unattended(rt') => auto'.step # "idle"
  BY <1>2 DEF SaveInv, QueuedIsSent, Unattended
<1>4. op' \in RequestState /\ IsOperation(op') /\ op'.kind # "start"
  BY NoRequestFacts DEF IsOperation
<1>5. /\ auto' \in RequestState /\ IsAutosave(auto')
      /\ fetched' \in [Workspace -> Locks] \union {NoCatalog}
      /\ spent' \in [edits : Nat, ops : Nat, trouble : Nat]
  BY DEF SaveInv, SaveTypes, RequestsFollow
<1> QED BY <1>2, <1>3, <1>4, <1>5, WindowMoves

\* The window's record changes, and nothing it has asked for.
LEMMA WindowFollows ==
  ASSUME SaveInv, Running, Follows(rt, rt'), UNCHANGED <<store, auto, op, leaving>>,
         fetched' \in [Workspace -> Locks] \union {NoCatalog},
         spent' \in [edits : Nat, ops : Nat, trouble : Nat]
  PROVE  SaveInv'
<1>1. /\ rt' \in Runtime /\ rt'.phase = "running" /\ (rt'.paused => op'.pauses)
      /\ op'.kind # "start"
  BY DEF Follows, Running, SaveInv, PhaseFollows
<1>2. Unattended(rt') => auto'.step # "idle"
  BY DEF Follows, SaveInv, QueuedIsSent, Unattended
<1>3. /\ auto' \in RequestState /\ IsAutosave(auto') /\ op' \in RequestState
      /\ IsOperation(op')
  BY DEF SaveInv, SaveTypes, RequestsFollow
<1> QED BY <1>1, <1>2, <1>3, WindowMoves

LEMMA OpSteps ==
  ASSUME SaveInv, Settled \/ CreatedOpened \/ Opened \/ OpFails
  PROVE  SaveInv'
<1>0. rt \in Runtime /\ op \in RequestState /\ op.ws \in MaybeWorkspace /\ op.lock \in Locks
      /\ op.layout \in Nat
  BY DEF SaveInv, SaveTypes, RequestState
<1>1. CASE Settled
  <2>1. Follows(rt, Kept(rt))
    <3>1. CASE op.kind = "save"
      <4>1. Follows(rt, [rt EXCEPT !.last = op.layout])
        BY <1>0 DEF Follows, Unattended, Runtime
      <4>2. [rt EXCEPT !.last = op.layout] \in Runtime
        BY <4>1 DEF Follows
      <4>3. Kept(rt) = RecordedActive([rt EXCEPT !.last = op.layout], op.ws, op.lock)
        BY <3>1 DEF Kept
      <4> QED BY <1>0, <4>1, <4>2, <4>3, RecordedFacts, FollowsOn
    <3>2. CASE op.kind = "delete"
      BY <1>0, <3>2, DeletedFacts DEF Kept
    <3>3. CASE op.kind \notin {"save", "delete"}
      BY <1>0, <3>3, RecordedFacts DEF Kept
    <3> QED BY <3>1, <3>2, <3>3
  <2> QED BY <1>1, <2>1, OpEnds DEF Settled, AnswerOf, Running
<1>2. CASE CreatedOpened
  <2>1. Follows(rt, [rt EXCEPT !.last = op.layout])
    BY <1>0 DEF Follows, Unattended, Runtime
  <2>2. [rt EXCEPT !.last = op.layout] \in Runtime
    BY <2>1 DEF Follows
  <2>3. Follows(rt, RecordedActive([rt EXCEPT !.last = op.layout], op.ws, op.lock))
    BY <1>0, <2>1, <2>2, RecordedFacts, FollowsOn
  <2> QED BY <1>2, <2>3, OpEnds DEF CreatedOpened, AnswerOf, Running
<1>3. CASE Opened
  <2> DEFINE r == [rt EXCEPT !.layout = op.layout, !.last = op.layout, !.pending = NoLayout]
  <2>0. NoLayout \in Nat
    BY DEF NoLayout
  <2>1. Follows(rt, r)
    BY <1>0, <2>0 DEF Follows, Unattended, Runtime
  <2>2. Follows(rt, RecordedActive(r, op.ws, op.lock))
    <3>1. r \in Runtime
      BY <2>1 DEF Follows
    <3> HIDE DEF r
    <3> QED BY <1>0, <2>1, <3>1, RecordedFacts, FollowsOn
  <2>3. ~op.pauses
    BY <1>3 DEF Opened, AnswerOf, SaveInv, RequestsFollow, IsOperation
  <2>4. rt' = Finally(RecordedActive(r, op.ws, op.lock))
    BY <1>3, <2>3 DEF Opened, Finally
  <2> HIDE DEF r
  <2> QED BY <1>3, <2>2, <2>4, OpEnds DEF Opened, AnswerOf, Running
<1>4. CASE OpFails
  <2>1. Follows(rt, rt)
    BY <1>0 DEF Follows
  <2> QED BY <1>4, <2>1, OpEnds DEF OpFails
<1> QED BY <1>1, <1>2, <1>3, <1>4

LEMMA SavedAsStep ==
  ASSUME SaveInv, SavedAs
  PROVE  SaveInv'
<1>1. /\ op \in RequestState /\ op.kind = "saveAs" /\ op.status = "ok"
  BY DEF SaveInv, SaveTypes, SavedAs, AnswerOf
<1>2. "open created" \in Kinds /\ "sent" \in Steps /\ op.ws \in Workspace
  BY <1>1, WordsAre DEF Kinds, SaveInv, RequestsFollow, IsOperation
<1>3. /\ op' \in RequestState /\ op'.kind = "open created" /\ op'.step = "sent"
      /\ op'.ws = op.ws /\ op'.pauses = op.pauses
  BY <1>1, <1>2 DEF SavedAs, RequestState
<1>4. IsOperation(op')
  BY <1>2, <1>3 DEF IsOperation
<1>5. rt' \in Runtime /\ rt'.phase = "running" /\ (rt'.paused => op'.pauses)
  BY <1>3 DEF SavedAs, AnswerOf, Running, SaveInv, SaveTypes, PhaseFollows
<1>6. Unattended(rt') => auto'.step # "idle"
  BY DEF SavedAs, AnswerOf, SaveInv, QueuedIsSent, Unattended
<1>7. /\ auto' \in RequestState /\ IsAutosave(auto') /\ leaving' = leaving /\ store' = store
      /\ fetched' \in [Workspace -> Locks] \union {NoCatalog}
      /\ spent' \in [edits : Nat, ops : Nat, trouble : Nat]
  BY DEF SavedAs, SaveInv, SaveTypes, RequestsFollow
<1> QED BY <1>3, <1>4, <1>5, <1>6, <1>7, WindowMoves

LEMMA LayoutStep ==
  ASSUME SaveInv, LayoutChanges
  PROVE  SaveInv'
<1> DEFINE r == [rt EXCEPT !.layout = StoredLayout + spent.edits + 1]
<1>1. r \in Runtime /\ Follows(rt, r) /\ r.phase = rt.phase
  BY DEF SaveInv, SaveTypes, Runtime, Follows, Unattended, StoredLayout
<1>2. rt' = Changed(r)
  BY DEF LayoutChanges
<1>3. r.pending = rt.pending /\ r.paused = rt.paused
  BY DEF SaveInv, SaveTypes, Runtime
<1>4. spent' \in [edits : Nat, ops : Nat, trouble : Nat]
  BY SpentFacts DEF LayoutChanges, SaveInv, SaveTypes
<1> HIDE DEF r
<1>5. CASE rt.phase = "running"
  <2>1. Follows(rt, rt')
    BY <1>1, <1>2, ChangedFacts, FollowsOn
  <2>2. fetched' \in [Workspace -> Locks] \union {NoCatalog}
    BY DEF LayoutChanges, SaveInv, SaveTypes
  <2> QED BY <1>4, <1>5, <2>1, <2>2, WindowFollows DEF LayoutChanges, Running
<1>6. CASE rt.phase # "running"
  <2>1. rt' = r
    BY <1>1, <1>2, <1>6, ChangedFacts
  <2>2. SaveTypes'
    BY <1>1, <1>4, <2>1 DEF LayoutChanges, SaveInv, SaveTypes
  <2>3. RequestsFollow'
    BY DEF LayoutChanges, SaveInv, RequestsFollow, IsAutosave, IsOperation
  <2>4. PhaseFollows'
    BY <1>1, <1>3, <2>1 DEF LayoutChanges, SaveInv, PhaseFollows
  <2>5. QueuedIsSent'
    BY <1>1, <1>6, <2>1 DEF QueuedIsSent, Running
  <2> QED BY <2>2, <2>3, <2>4, <2>5 DEF SaveInv
<1> QED BY <1>5, <1>6

LEMMA TimerStep ==
  ASSUME SaveInv, TimerFires
  PROVE  SaveInv'
<1> DEFINE r == [rt EXCEPT !.timer = FALSE]
<1>0. FALSE \in BOOLEAN
  OBVIOUS
<1>1. r \in Runtime /\ r.phase = "running" /\ r.paused = rt.paused
  BY <1>0 DEF TimerFires, Running, SaveInv, SaveTypes, Runtime
<1>2. \/ auto.step # "idle" /\ rt' = r /\ auto' = auto
      \/ rt' = Flushed(r) /\ auto' = Autosave(r)
  BY DEF TimerFires
<1> HIDE DEF r
<1>3. /\ rt' \in Runtime /\ rt'.phase = "running" /\ (rt'.paused => op'.pauses)
      /\ auto' \in RequestState /\ IsAutosave(auto')
      /\ Unattended(rt') => auto'.step # "idle"
  <2>1. rt.paused => op.pauses
    BY DEF SaveInv, PhaseFollows
  <2>2. op' = op
    BY DEF TimerFires
  <2>3. CASE auto.step # "idle" /\ rt' = r /\ auto' = auto
    BY <1>1, <2>1, <2>2, <2>3 DEF SaveInv, SaveTypes, RequestsFollow
  <2>4. CASE rt' = Flushed(r) /\ auto' = Autosave(r)
    <3>1. /\ rt' \in Runtime /\ rt'.phase = "running" /\ rt'.paused = r.paused
          /\ rt'.pending = NoLayout
      BY <1>1, <2>4, FlushedFacts
    <3>2. auto' \in RequestState /\ IsAutosave(auto')
      BY <1>1, <2>4, AutosaveFacts DEF IsAutosave
    <3> QED BY <1>1, <2>1, <2>2, <3>1, <3>2 DEF Unattended
  <2> QED BY <1>2, <2>3, <2>4
<1>4. /\ op' \in RequestState /\ IsOperation(op') /\ op'.kind # "start"
      /\ fetched' \in [Workspace -> Locks] \union {NoCatalog}
      /\ spent' \in [edits : Nat, ops : Nat, trouble : Nat]
      /\ store' = store /\ leaving' = leaving
  BY DEF TimerFires, Running, SaveInv, SaveTypes, RequestsFollow, PhaseFollows
<1> QED BY <1>3, <1>4, WindowMoves

LEMMA BeginStep ==
  ASSUME SaveInv, NEW o \in Offered, Begin(o[1], o[2])
  PROVE  SaveInv'
<1>0. /\ rt \in Runtime /\ auto \in RequestState /\ IsAutosave(auto)
      /\ rt.phase = "running"
  BY DEF Begin, Running, SaveInv, SaveTypes, RequestsFollow
<1>1. PICK kind, w : kind = o[1] /\ w = o[2]
  OBVIOUS
<1>2. /\ kind \in {"saveAs", "save", "open", "rename", "delete", "lock", "unlock"}
      /\ w \in MaybeWorkspace /\ (kind # "saveAs" => w \in Workspace)
  BY <1>0, <1>1, OfferedFacts
<1>3. kind \in Kinds
  BY <1>2 DEF Kinds
<1>4. PICK pauses \in BOOLEAN :
        pauses <=> kind \in {"saveAs", "save"} \/ (kind \in {"lock", "unlock"} /\ w = rt.active)
  OBVIOUS
<1>5. PICK flushes \in BOOLEAN :
        flushes <=> kind \notin {"lock", "unlock"} \/ (kind = "lock" /\ w = rt.active)
  OBVIOUS
<1>6. PICK r : r = [rt EXCEPT !.paused = pauses, !.timer = @ /\ ~flushes,
                              !.pending = IF kind = "save" THEN NoLayout ELSE @]
  OBVIOUS
<1>7. PICK p : p = [Request(kind, w) EXCEPT !.pauses = pauses, !.step = "flushing"]
  OBVIOUS
<1>8. \/ flushes /\ auto.step = "idle" /\ Flush(r, p)
      \/ flushes /\ auto.step # "idle" /\ rt' = r /\ op' = p /\ UNCHANGED auto
      \/ ~flushes /\ rt' = r /\ op' = [p EXCEPT !.step = "sent"] /\ UNCHANGED auto
  BY <1>1, <1>4, <1>5, <1>6, <1>7 DEF Begin
<1>9. /\ r \in Runtime /\ r.phase = "running" /\ r.paused = pauses
      /\ ~flushes => (Unattended(r) => Unattended(rt))
  <2>1. NoLayout \in Nat /\ (rt.timer /\ ~flushes) \in BOOLEAN
    BY DEF NoLayout
  <2>2. ~flushes => kind # "save"
    BY <1>5
  <2> QED BY <1>0, <1>6, <2>1, <2>2 DEF Runtime, Unattended
<1>10. /\ p \in RequestState /\ p.kind = kind /\ p.ws = w /\ p.pauses = pauses
       /\ p.step = "flushing" /\ p.status = "none"
  <2>1. PICK q : q = Request(kind, w)
    OBVIOUS
  <2>2. q \in RequestState /\ q.kind = kind /\ q.ws = w /\ q.status = "none"
    BY <1>2, <1>3, <2>1, RequestFacts
  <2>3. "flushing" \in Steps
    BY WordsAre
  <2> QED BY <1>7, <2>1, <2>2, <2>3 DEF RequestState
<1>11. /\ op' \in RequestState /\ op'.kind = kind /\ op'.ws = w /\ op'.pauses = pauses
       /\ op'.step \in {"flushing", "sent"} /\ op'.status = "none"
       /\ rt' \in Runtime /\ rt'.phase = "running" /\ rt'.paused = pauses
       /\ auto' \in RequestState /\ IsAutosave(auto')
       /\ Unattended(rt') => auto'.step # "idle"
  <2>1. CASE flushes /\ auto.step = "idle" /\ Flush(r, p)
    BY <1>9, <1>10, <2>1, FlushMoves DEF Unattended
  <2>2. CASE flushes /\ auto.step # "idle" /\ rt' = r /\ op' = p /\ UNCHANGED auto
    BY <1>0, <1>9, <1>10, <2>2
  <2>3. CASE ~flushes /\ rt' = r /\ op' = [p EXCEPT !.step = "sent"] /\ UNCHANGED auto
    <3>1. Unattended(rt') => auto'.step # "idle"
      BY <1>0, <1>9, <2>3 DEF SaveInv, QueuedIsSent, Running, Unattended
    <3>2. "sent" \in Steps
      BY WordsAre
    <3>3. /\ op' \in RequestState /\ op'.kind = kind /\ op'.ws = w /\ op'.pauses = pauses
          /\ op'.step = "sent" /\ op'.status = "none"
      BY <1>10, <2>3, <3>2 DEF RequestState
    <3> QED BY <1>0, <1>9, <2>3, <3>1, <3>3
  <2> QED BY <1>8, <2>1, <2>2, <2>3
<1>12. IsOperation(op') /\ op'.kind # "start"
  BY <1>2, <1>4, <1>11 DEF IsOperation
<1>13. /\ fetched' \in [Workspace -> Locks] \union {NoCatalog}
       /\ store' = store /\ leaving' = leaving
  BY DEF Begin, SaveInv, SaveTypes
<1>14. spent' \in [edits : Nat, ops : Nat, trouble : Nat]
  BY SpentFacts DEF Begin, SaveInv, SaveTypes
<1> QED BY <1>11, <1>12, <1>13, <1>14, WindowMoves

LEMMA AnsweredStep ==
  ASSUME SaveInv, AutosaveAnswered
  PROVE  SaveInv'
<1>0. /\ rt \in Runtime /\ rt.phase = "running" /\ (rt.paused => op.pauses)
      /\ auto \in RequestState /\ auto.step = "served" /\ auto.status # "none"
      /\ op \in RequestState /\ IsOperation(op) /\ op.kind # "start"
  BY DEF AutosaveAnswered, Running, SaveInv, SaveTypes, RequestsFollow, PhaseFollows, IsAutosave
<1>1. /\ auto.ws \in MaybeWorkspace /\ auto.lock \in Locks /\ auto.layout \in Nat
      /\ auto.status \in {"ok", "missing", "locked", "error"}
  BY <1>0 DEF RequestState, Statuses
<1> DEFINE q == AfterAutosave(rt)
<1>2. q \in Runtime /\ q.phase = "running" /\ q.paused = rt.paused
  <2>1. CASE auto.status = "ok"
    <3>1. q = RecordedActive(rt, auto.ws, auto.lock)
      BY <2>1 DEF AfterAutosave
    <3> QED BY <1>0, <1>1, <3>1, RecordedFacts DEF Follows
  <2>2. CASE auto.status = "missing"
    <3>1. q = rt \/ q = Detached(rt, [rt.catalog EXCEPT ![auto.ws] = "absent"])
      BY <2>2 DEF AfterAutosave
    <3>2. "absent" \in Locks
      BY WordsAre
    <3>3. [rt.catalog EXCEPT ![auto.ws] = "absent"] \in [Workspace -> Locks]
      BY <1>0, <3>2 DEF Runtime
    <3> QED BY <1>0, <3>1, <3>3, DetachedFacts DEF Follows
  <2>3. CASE auto.status = "locked"
    <3>1. PICK lock : lock = IF rt.catalog[auto.ws] = "absent" THEN rt.catalog[auto.ws]
                                                               ELSE "locked"
      OBVIOUS
    <3>2. q = [rt EXCEPT !.last = NoLayout, !.catalog = [@ EXCEPT ![auto.ws] = lock]]
      BY <1>0, <2>3, <3>1 DEF AfterAutosave, Runtime
    <3>3. lock \in Locks
      BY <3>1, WordsAre
    <3>4. [rt.catalog EXCEPT ![auto.ws] = lock] \in [Workspace -> Locks] /\ NoLayout \in Nat
      BY <1>0, <3>3 DEF Runtime, NoLayout
    <3> QED BY <1>0, <3>2, <3>4 DEF Runtime
  <2>4. CASE auto.status = "error"
    <3>1. PICK layout : layout = IF rt.pending = NoLayout THEN auto.layout ELSE rt.pending
      OBVIOUS
    <3>2. layout \in Nat /\ TRUE \in BOOLEAN
      BY <1>0, <1>1, <3>1 DEF Runtime
    <3>3. q = [rt EXCEPT !.pending = layout, !.timer = TRUE]
      BY <2>4, <3>1 DEF AfterAutosave, Queued
    <3> QED BY <1>0, <3>2, <3>3 DEF Runtime
  <2> QED BY <1>1, <2>1, <2>2, <2>3, <2>4
<1> DEFINE r == Requeued(q)
<1>3. r \in Runtime /\ r.phase = "running" /\ r.paused = rt.paused /\ ~Unattended(r)
  <2>1. TRUE \in BOOLEAN
    OBVIOUS
  <2> HIDE DEF q
  <2> QED BY <1>2, <2>1 DEF Requeued, Unattended, Runtime
<1>4. \/ op.step # "flushing" /\ rt' = r /\ auto' = NoRequest /\ UNCHANGED op
      \/ op.step = "flushing" /\ auto.status # "error" /\ Flush(r, op)
      \/ op.step = "flushing" /\ auto.status = "error"
         /\ rt' = Finally(r) /\ auto' = NoRequest /\ op' = NoRequest
  BY DEF AutosaveAnswered
<1> HIDE DEF q, r
<1>5. /\ NoRequest \in RequestState /\ IsAutosave(NoRequest) /\ IsOperation(NoRequest)
      /\ NoRequest.kind # "start"
  BY NoRequestFacts DEF IsAutosave, IsOperation
<1>6. /\ rt' \in Runtime /\ rt'.phase = "running" /\ (rt'.paused => op'.pauses)
      /\ auto' \in RequestState /\ IsAutosave(auto')
      /\ op' \in RequestState /\ IsOperation(op') /\ op'.kind # "start"
      /\ Unattended(rt') => auto'.step # "idle"
  <2>1. CASE op.step # "flushing" /\ rt' = r /\ auto' = NoRequest /\ UNCHANGED op
    BY <1>0, <1>3, <1>5, <2>1
  <2>2. CASE op.step = "flushing" /\ auto.status # "error" /\ Flush(r, op)
    <3>1. /\ rt' \in Runtime /\ rt'.phase = "running" /\ rt'.paused = r.paused
          /\ rt'.pending = NoLayout
          /\ auto' \in RequestState /\ IsAutosave(auto')
          /\ op' \in RequestState /\ op'.step \in {op.step, "sent"} /\ op'.kind = op.kind
          /\ op'.ws = op.ws /\ op'.pauses = op.pauses /\ op'.status = op.status
      BY <1>0, <1>3, <2>2, FlushMoves
    <3>2. IsOperation(op')
      BY <1>0, <2>2, <3>1 DEF IsOperation
    <3> QED BY <1>0, <1>3, <3>1, <3>2 DEF Unattended
  <2>3. CASE /\ op.step = "flushing" /\ auto.status = "error"
             /\ rt' = Finally(r) /\ auto' = NoRequest /\ op' = NoRequest
    <3>1. /\ rt' \in Runtime /\ rt'.phase = "running" /\ ~rt'.paused
          /\ Unattended(rt') => Unattended(r)
      BY <1>0, <1>3, <2>3, FinallyFacts
    <3> QED BY <1>3, <1>5, <2>3, <3>1
  <2> QED BY <1>4, <2>1, <2>2, <2>3
<1>7. /\ fetched' \in [Workspace -> Locks] \union {NoCatalog}
      /\ spent' \in [edits : Nat, ops : Nat, trouble : Nat]
      /\ store' = store /\ leaving' = leaving
  BY DEF AutosaveAnswered, SaveInv, SaveTypes
<1> QED BY <1>6, <1>7, WindowMoves

\* The start, once its requests are answered.
LEMMA StartEnds ==
  ASSUME SaveInv, rt.phase = "starting", NEW r \in Runtime,
         r.pending = rt.pending, ~r.paused, NEW before,
         rt' = Started(r, before) \/ rt' = [r EXCEPT !.phase = "running"],
         op' = NoRequest, fetched' \in {fetched, NoCatalog},
         UNCHANGED <<store, auto, leaving, spent>>
  PROVE  SaveInv'
<1>1. r.pending = NoLayout
  BY DEF SaveInv, PhaseFollows
<1>2. rt' \in Runtime /\ rt'.phase = "running" /\ ~rt'.paused /\ ~Unattended(rt')
  <2>1. CASE rt' = Started(r, before)
    BY <1>1, <2>1, StartedFacts DEF Unattended
  <2>2. CASE rt' = [r EXCEPT !.phase = "running"]
    BY <1>1, <2>2 DEF Runtime, Unattended
  <2> QED BY <2>1, <2>2
<1>3. op' \in RequestState /\ IsOperation(op') /\ op'.kind # "start"
  BY NoRequestFacts DEF IsOperation
<1>4. /\ auto' \in RequestState /\ IsAutosave(auto')
      /\ fetched' \in [Workspace -> Locks] \union {NoCatalog}
      /\ spent' \in [edits : Nat, ops : Nat, trouble : Nat]
  BY DEF SaveInv, SaveTypes, RequestsFollow
<1> QED BY <1>2, <1>3, <1>4, WindowMoves

LEMMA RestoresStep ==
  ASSUME SaveInv, Restores
  PROVE  SaveInv'
<1>1. /\ rt \in Runtime /\ op \in RequestState /\ rt.phase = "starting"
      /\ op.ws \in Workspace /\ op.layout \in Nat
      /\ fetched \in [Workspace -> Locks] /\ ~op.pauses
      /\ rt.pending = NoLayout /\ auto.step = "idle" /\ ~rt.paused
  BY DEF Restores, Starting, SaveInv, SaveTypes, RequestState, RequestsFollow, IsOperation,
         PhaseFollows, MaybeWorkspace
<1>2. PICK layout, last :
        /\ layout = IF rt.layout = Blank THEN op.layout ELSE rt.layout
        /\ last = IF op.lock = "locked" THEN op.layout ELSE NoLayout
  OBVIOUS
<1>3. layout \in Nat /\ last \in Nat
  BY <1>1, <1>2 DEF Runtime, NoLayout
<1>4. rt' = [rt EXCEPT !.catalog = fetched, !.layout = layout, !.last = last]
  BY <1>2 DEF Restores
<1>5. /\ rt' \in Runtime /\ rt'.phase = "starting" /\ rt'.pending = NoLayout /\ ~rt'.paused
  BY <1>1, <1>3, <1>4 DEF Runtime
<1>6. "open started" \in Kinds /\ "sent" \in Steps
  BY WordsAre DEF Kinds
<1>7. /\ op' \in RequestState /\ op'.kind = "open started" /\ op'.step = "sent"
      /\ op'.ws = op.ws /\ op'.pauses = op.pauses
  BY <1>1, <1>6 DEF Restores, RequestState
<1>8. SaveTypes'
  BY <1>5, <1>7 DEF Restores, SaveInv, SaveTypes
<1>9. RequestsFollow'
  BY <1>1, <1>7 DEF Restores, SaveInv, RequestsFollow, IsAutosave, IsOperation
<1>10. PhaseFollows' /\ QueuedIsSent'
  BY <1>1, <1>5, <1>7 DEF Restores, PhaseFollows, QueuedIsSent, Running
<1> QED BY <1>8, <1>9, <1>10 DEF SaveInv

LEMMA StartSteps ==
  ASSUME SaveInv, StartsUnsaved \/ StartsOpened \/ StartFails
  PROVE  SaveInv'
<1>0. rt \in Runtime /\ op \in RequestState /\ op.ws \in MaybeWorkspace /\ op.lock \in Locks
  BY DEF SaveInv, SaveTypes, RequestState
<1>1. rt.phase = "starting" /\ ~rt.paused
  BY DEF StartsUnsaved, StartsOpened, StartFails, Starting, SaveInv, PhaseFollows
<1>2. CASE StartsUnsaved
  <2>1. fetched \in [Workspace -> Locks]
    BY <1>2 DEF StartsUnsaved, SaveInv, PhaseFollows
  <2>2. PICK r : r = [rt EXCEPT !.catalog = fetched]
    OBVIOUS
  <2>3. r \in Runtime /\ r.pending = rt.pending /\ ~r.paused
    BY <1>0, <1>1, <2>1, <2>2 DEF Runtime
  <2>4. rt' = Started(r, Blank)
    BY <1>2, <2>2 DEF StartsUnsaved
  <2> QED BY <1>1, <1>2, <2>3, <2>4, StartEnds DEF StartsUnsaved
<1>3. CASE StartsOpened
  <2>1. PICK r : r = RecordedActive(rt, op.ws, op.lock)
    OBVIOUS
  <2>2. r \in Runtime /\ r.paused = rt.paused
    BY <1>0, <2>1, RecordedFacts DEF Follows
  <2>3. r.pending = rt.pending
    BY <1>0, <2>1 DEF RecordedActive, Recorded, Runtime
  <2>4. rt' = Started(r, op.layout) \/ rt' = [r EXCEPT !.phase = "running"]
    BY <1>3, <2>1 DEF StartsOpened
  <2> QED BY <1>1, <1>3, <2>2, <2>3, <2>4, StartEnds DEF StartsOpened
<1>4. CASE StartFails
  BY <1>0, <1>1, <1>4, StartEnds DEF StartFails
<1> QED BY <1>2, <1>3, <1>4

LEMMA RefreshSteps ==
  ASSUME SaveInv, RefreshRead \/ RefreshArrives
  PROVE  SaveInv'
<1>0. rt \in Runtime /\ store \in Table
  BY DEF SaveInv, SaveTypes
<1>1. spent' \in [edits : Nat, ops : Nat, trouble : Nat]
  BY DEF RefreshRead, RefreshArrives, SaveInv, SaveTypes
<1>2. CASE RefreshRead
  <2>1. Follows(rt, rt')
    BY <1>0, <1>2 DEF RefreshRead, Follows
  <2> QED BY <1>0, <1>1, <1>2, <2>1, CatalogFacts, WindowFollows DEF RefreshRead
<1>3. CASE RefreshArrives
  <2>1. fetched \in [Workspace -> Locks]
    BY <1>3 DEF RefreshArrives, SaveInv, SaveTypes
  <2>2. Follows(rt, rt')
    BY <1>0, <1>3, <2>1, ReconciledFacts DEF RefreshArrives
  <2> QED BY <1>1, <1>3, <2>2, WindowFollows DEF RefreshArrives
<1> QED BY <1>2, <1>3

LEMMA StopStep ==
  ASSUME SaveInv, Stops
  PROVE  SaveInv'
<1>1. leaving' \in RequestState /\ IsAutosave(leaving')
  <2>1. rt \in Runtime
    BY DEF SaveInv, SaveTypes
  <2> QED BY <2>1, AutosaveFacts, NoRequestFacts DEF Stops, IsAutosave
<1>2. rt' \in Runtime /\ rt'.phase = "stopped" /\ rt'.paused = rt.paused
  <2>1. NoLayout \in Nat /\ FALSE \in BOOLEAN
    BY DEF NoLayout
  <2> QED BY <2>1 DEF Stops, SaveInv, SaveTypes, Runtime
<1>3. SaveTypes'
  BY <1>1, <1>2 DEF Stops, SaveInv, SaveTypes
<1>4. RequestsFollow'
  BY <1>1 DEF Stops, SaveInv, RequestsFollow, IsAutosave, IsOperation
<1>5. PhaseFollows' /\ QueuedIsSent'
  BY <1>2 DEF Stops, SaveInv, PhaseFollows, QueuedIsSent, Running
<1> QED BY <1>3, <1>4, <1>5 DEF SaveInv

LEMMA SaveStarts ==
  ASSUME SaveInit
  PROVE  SaveInv
<1>1. /\ "start" \in Kinds /\ NoWorkspace \in MaybeWorkspace /\ "absent" \in Locks
      /\ "free" \in Locks /\ {NoLayout, StoredLayout, Blank} \subseteq Nat
      /\ FALSE \in BOOLEAN
  BY WordsAre DEF Kinds, MaybeWorkspace, NoLayout, StoredLayout, Blank
<1>2. store \in Table
  <2>1. /\ [layout |-> StoredLayout, lock |-> "free"] \in [layout : Nat, lock : Locks]
        /\ [layout |-> NoLayout, lock |-> "absent"] \in [layout : Nat, lock : Locks]
    BY <1>1
  <2> QED BY <2>1 DEF SaveInit, Table
<1>3. [w \in Workspace |-> "absent"] \in [Workspace -> Locks]
  BY <1>1
<1>4. /\ rt \in Runtime /\ rt.phase = "starting" /\ rt.pending = NoLayout /\ ~rt.paused
  BY <1>1, <1>3 DEF SaveInit, Runtime
<1>5. /\ op \in RequestState /\ op.kind = "start" /\ op.step = "sent" /\ op.status = "none"
      /\ ~op.pauses
  BY <1>1, RequestFacts DEF SaveInit
<1>6. /\ auto \in RequestState /\ auto.step = "idle" /\ IsAutosave(auto)
      /\ leaving \in RequestState /\ IsAutosave(leaving)
  BY NoRequestFacts DEF SaveInit, IsAutosave
<1>7. SaveTypes
  BY <1>2, <1>4, <1>5, <1>6 DEF SaveInit, SaveTypes
<1>8. RequestsFollow
  BY <1>5, <1>6 DEF RequestsFollow, IsOperation
<1>9. PhaseFollows /\ QueuedIsSent
  BY <1>4, <1>5, <1>6 DEF PhaseFollows, QueuedIsSent, Running
<1> QED BY <1>7, <1>8, <1>9 DEF SaveInv

LEMMA SaveKeeps ==
  ASSUME SaveInv, [SaveNext]_saveVars
  PROVE  SaveInv'
<1>1. CASE \E o \in Offered : Begin(o[1], o[2])
  BY <1>1, BeginStep
<1>2. CASE UNCHANGED saveVars
  <2>1. SaveTypes'
    BY <1>2 DEF saveVars, SaveInv, SaveTypes
  <2>2. RequestsFollow'
    BY <1>2 DEF saveVars, SaveInv, RequestsFollow, IsAutosave, IsOperation
  <2>3. PhaseFollows' /\ QueuedIsSent'
    BY <1>2 DEF saveVars, SaveInv, PhaseFollows, QueuedIsSent, Running
  <2> QED BY <2>1, <2>2, <2>3 DEF SaveInv
<1> QED BY <1>1, <1>2, ServerSteps, LayoutStep, TimerStep, AnsweredStep, OpSteps, SavedAsStep,
           RestoresStep, StartSteps, RefreshSteps, StopStep DEF SaveNext

\* A change of the layout that waits has somebody who will save it, whatever operations,
\* refreshes, failures and locks come between (workspace-persistence.ts:430-438, 490-552),
\* for all workspaces and bounds.
THEOREM ChangesAreSent == SaveSpec => []QueuedIsSent
<1>1. SaveInv => QueuedIsSent
  BY DEF SaveInv
<1> QED BY <1>1, SaveStarts, SaveKeeps, PTL DEF SaveSpec

\* Every reachable state is well typed, and the autosave rests only for an operation
\* that resumes it (withBusy and its `finally` blocks, workspace-persistence.ts).
THEOREM SaveTypesHold == SaveSpec => []SaveTypeOK
<1>1. ASSUME SaveInv
      PROVE  SaveTypeOK
  <2>1. \A w \in Workspace : store[w].layout \in Nat /\ store[w].lock \in Locks
    BY <1>1 DEF SaveInv, SaveTypes, Table
  <2>2. /\ rt.phase \in {"starting", "running", "stopped"} /\ rt.active \in MaybeWorkspace
        /\ {rt.layout, rt.last, rt.pending} \subseteq Nat /\ (rt.paused => op.pauses)
    BY <1>1 DEF SaveInv, SaveTypes, PhaseFollows, Runtime
  <2>3. \A q \in {auto, op, leaving} : q.step \in Steps /\ q.ws \in MaybeWorkspace
    BY <1>1 DEF SaveInv, SaveTypes, RequestState
  <2> QED BY <2>1, <2>2, <2>3 DEF SaveTypeOK, Locks, MaybeWorkspace
<1> QED BY <1>1, SaveStarts, SaveKeeps, PTL DEF SaveSpec

\* The part of LockedIsKept that speaks of one step.
LockedStep ==
  \A w \in Workspace :
    store[w].lock = "locked" /\ store'[w].lock = "locked"
      /\ store'[w].layout # store[w].layout
    => op.kind = "save" /\ op.ws = w /\ op.step = "sent"

LEMMA LockedSteps ==
  ASSUME SaveInv, SaveNext
  PROVE  LockedStep
<1>0. store \in Table
  BY DEF SaveInv, SaveTypes
<1>1. CASE store' = store
  BY <1>1 DEF LockedStep
<1>2. CASE AutosaveServed
  BY <1>2, AutosaveAsks, ServesFacts DEF AutosaveServed, LockedStep, Respects
<1>3. CASE AutosaveLost
  BY <1>3, AutosaveAsks, LostFacts DEF AutosaveLost, Lost, LockedStep, Respects
<1>4. CASE OpServed
  BY <1>4, OpAsks, ServesFacts DEF OpServed, LockedStep, Respects
<1>5. CASE OpLost
  BY <1>5, OpAsks, LostFacts DEF OpLost, Lost, LockedStep, Respects
<1>6. CASE LeavingServed
  <2>1. leaving \in RequestState /\ leaving.kind = "autosave"
    BY <1>6 DEF LeavingServed, SaveInv, SaveTypes, RequestsFollow, IsAutosave
  <2>2. PICK out \in Outcomes(leaving) : store' = out.table
    BY <1>6 DEF LeavingServed
  <2>3. Respects(store', leaving)
    BY <1>0, <2>1, <2>2, OutcomeFacts
  <2> QED BY <2>1, <2>3 DEF LockedStep, Respects
<1>7. CASE OtherClient
  <2>1. PICK v \in Workspace :
          \/ store' = [store EXCEPT ![v].lock = IF @ = "free" THEN "locked" ELSE "free"]
          \/ store' = [store EXCEPT ![v] = [layout |-> NoLayout, lock |-> "absent"]]
    BY <1>7 DEF OtherClient
  <2>2. \A w \in Workspace : store'[w].layout = store[w].layout \/ store'[w].lock = "absent"
    <3> SUFFICES ASSUME NEW w \in Workspace
                 PROVE  store'[w].layout = store[w].layout \/ store'[w].lock = "absent"
      OBVIOUS
    <3>1. DOMAIN store = Workspace /\ DOMAIN store[w] = {"layout", "lock"}
      BY <1>0 DEF Table
    <3>2. CASE w = v
      BY <2>1, <3>1, <3>2
    <3>3. CASE w # v
      BY <2>1, <3>1, <3>3
    <3> QED BY <3>2, <3>3
  <2> QED BY <2>2 DEF LockedStep
<1>8. SaveNext => store' = store \/ AutosaveServed \/ AutosaveLost \/ OpServed \/ OpLost
                    \/ LeavingServed \/ OtherClient
  BY DEF SaveNext, LayoutChanges, TimerFires, AutosaveAnswered, Begin, Settled, SavedAs,
         CreatedOpened, Opened, OpFails, Restores, StartsUnsaved, StartsOpened, StartFails,
         RefreshRead, RefreshArrives, Stops
<1> QED BY <1>1, <1>2, <1>3, <1>4, <1>5, <1>6, <1>7, <1>8

\* The layout of a locked workspace is replaced by an explicit save of it alone
\* (saveWorkspace, database.ts:1926), for all workspaces and bounds.
THEOREM LocksHold == SaveSpec => LockedIsKept
<1>1. SaveInv /\ [SaveNext]_saveVars => [LockedStep]_saveVars
  BY LockedSteps
<1>2. LockedIsKept <=> [][LockedStep]_saveVars
  BY DEF LockedIsKept, LockedStep
<1> QED BY <1>1, <1>2, SaveStarts, SaveKeeps, PTL DEF SaveSpec

-----------------------------------------------------------------------------
(* Tabs and panes (WorkspaceTabs): lists in an order *)

\* A strict total order on a set, and a list of the set that follows it.
Orders(order, S) ==
  /\ \A x \in S : <<x, x>> \notin order
  /\ \A x, y, z \in S : <<x, y>> \in order /\ <<y, z>> \in order => <<x, z>> \in order
  /\ \A x, y \in S : x = y \/ <<x, y>> \in order \/ <<y, x>> \in order

Below(x, S, order) == {y \in S : <<y, x>> \in order}

Lists(f, S, order) ==
  /\ f \in [1 .. Cardinality(S) -> S]
  /\ \A x \in S : \E n \in 1 .. Cardinality(S) : f[n] = x
  /\ \A i, j \in 1 .. Cardinality(S) : i < j => <<f[i], f[j]>> \in order
  /\ \A n \in 1 .. Cardinality(S) : Cardinality(Below(f[n], S, order)) = n - 1

\* InOrder() lists every element of the set once, each at its rank.
LEMMA InOrderLists ==
  ASSUME NEW S, IsFiniteSet(S), NEW order, Orders(order, S)
  PROVE  Cardinality(S) \in Nat /\ Lists(InOrder(S, order), S, order)
<1> DEFINE N == Cardinality(S)
           B(x) == Below(x, S, order)
           rank == [x \in S |-> Cardinality(B(x)) + 1]
           f == InOrder(S, order)
<1>1. N \in Nat
  BY FS_CardinalityType
<1>2. \A x \in S : B(x) \subseteq S /\ x \notin B(x)
  BY DEF Below, Orders
<1>3. \A x \in S : IsFiniteSet(B(x)) /\ Cardinality(B(x)) \in Nat
  BY <1>2, FS_Subset, FS_CardinalityType
<1>4. \A x, y \in S : <<x, y>> \in order => Cardinality(B(x)) < Cardinality(B(y))
  <2> SUFFICES ASSUME NEW x \in S, NEW y \in S, <<x, y>> \in order
               PROVE  Cardinality(B(x)) < Cardinality(B(y))
    OBVIOUS
  <2>1. B(x) \subseteq B(y) /\ x \in B(y) /\ x \notin B(x)
    BY <1>2 DEF Below, Orders
  <2>2. IsFiniteSet(B(y)) /\ B(x) # B(y)
    BY <1>3, <2>1
  <2>3. Cardinality(B(x)) <= Cardinality(B(y)) /\ Cardinality(B(x)) # Cardinality(B(y))
    BY <2>1, <2>2, FS_Subset
  <2> QED BY <1>3, <2>3
<1>5. \A x \in S : Cardinality(B(x)) < N
  <2> SUFFICES ASSUME NEW x \in S
               PROVE  Cardinality(B(x)) < N
    OBVIOUS
  <2>1. B(x) \in SUBSET S /\ B(x) # S
    BY <1>2
  <2>2. Cardinality(B(x)) <= N /\ Cardinality(B(x)) # N
    BY <2>1, FS_Subset
  <2> QED BY <1>1, <1>3, <2>2
<1>6. rank \in [S -> 1 .. N]
  BY <1>1, <1>3, <1>5
<1>7. \A x, y \in S : rank[x] = rank[y] => x = y
  <2> SUFFICES ASSUME NEW x \in S, NEW y \in S, x # y
               PROVE  Cardinality(B(x)) + 1 # Cardinality(B(y)) + 1
    OBVIOUS
  <2>1. <<x, y>> \in order \/ <<y, x>> \in order
    BY DEF Orders
  <2> QED BY <1>3, <1>4, <2>1
<1>8. \A n \in 1 .. N : \E x \in S : rank[x] = n
  <2>1. rank \in Injection(S, 1 .. N)
    BY <1>6, <1>7 DEF Injection, IsInjective
  <2>2. IsFiniteSet(1 .. N) /\ Cardinality(1 .. N) = N
    BY <1>1, FS_Interval
  <2>3. rank \in Surjection(S, 1 .. N)
    BY <2>1, <2>2, FS_Injection
  <2> QED BY <2>3 DEF Surjection
<1>9. \A n \in 1 .. N : f[n] \in S /\ Cardinality(B(f[n])) = n - 1
  <2> SUFFICES ASSUME NEW n \in 1 .. N
               PROVE  f[n] \in S /\ Cardinality(B(f[n])) = n - 1
    OBVIOUS
  <2>1. f[n] = CHOOSE x \in S : Cardinality(B(x)) = n - 1
    BY DEF InOrder, Below
  <2>2. PICK x \in S : rank[x] = n
    BY <1>8
  <2>3. Cardinality(B(x)) = n - 1
    BY <1>3, <2>2
  <2> QED BY <2>1, <2>3
<1>10. f \in [1 .. N -> S]
  BY <1>9 DEF InOrder
<1>11. ASSUME NEW x \in S PROVE \E n \in 1 .. N : f[n] = x
  <2>1. rank[x] \in 1 .. N /\ rank[x] = Cardinality(B(x)) + 1
    BY <1>6
  <2>2. f[rank[x]] \in S /\ Cardinality(B(f[rank[x]])) = rank[x] - 1
    BY <1>9, <2>1
  <2>3. rank[f[rank[x]]] = rank[x]
    BY <1>3, <2>1, <2>2
  <2> QED BY <1>7, <2>1, <2>2, <2>3
<1>12. ASSUME NEW i \in 1 .. N, NEW j \in 1 .. N, i < j PROVE <<f[i], f[j]>> \in order
  <2>1. f[i] \in S /\ f[j] \in S /\ Cardinality(B(f[i])) = i - 1 /\ Cardinality(B(f[j])) = j - 1
    BY <1>9
  <2>2. ~(<<f[j], f[i]>> \in order) /\ f[i] # f[j]
    BY <1>1, <1>4, <1>12, <2>1
  <2> QED BY <2>1, <2>2 DEF Orders
<1> QED BY <1>1, <1>9, <1>10, <1>11, <1>12 DEF Lists

-----------------------------------------------------------------------------
(* The tree of panes *)

LEMMA OppositeIs ==
  \A d \in Directions :
    /\ Opposite[d] \in Directions /\ Opposite[d] # d /\ Opposite[Opposite[d]] = d
    /\ (d \in ComesFirst) # (Opposite[d] \in ComesFirst)
BY DEF Directions, Opposite, ComesFirst

\* Two places lead to the same branches up to a depth.
Agree(s, t, k) == k <= Len(s) /\ k <= Len(t) /\ \A j \in 1 .. k : s[j] = t[j]

Places(at) == \A p \in DOMAIN at : at[p] \in Seq(Directions)

\* TreeIsWhole, branch by branch.
Leaves(at) == \A p, q \in DOMAIN at : Agree(at[p], at[q], Len(at[p])) => p = q
Siblings(at) ==
  \A p \in DOMAIN at : \A i \in 1 .. Len(at[p]) :
    \E r \in DOMAIN at :
      i <= Len(at[r]) /\ Agree(at[p], at[r], i - 1) /\ at[r][i] = Opposite[at[p][i]]
Binary(at) ==
  \A p, q \in DOMAIN at : \A i \in 1 .. Len(at[p]) :
    i <= Len(at[q]) /\ Agree(at[p], at[q], i - 1)
      => at[q][i] \in {at[p][i], Opposite[at[p][i]]}
Whole(at) == Leaves(at) /\ Siblings(at) /\ Binary(at)

LEMMA PlaceIs ==
  ASSUME NEW at, Places(at), NEW p \in DOMAIN at
  PROVE  Len(at[p]) \in Nat /\ \A i \in 1 .. Len(at[p]) : at[p][i] \in Directions
BY LenProperties, ElementOfSeq DEF Places

\* A place with one branch more.
Grown(t, s, d) ==
  /\ t \in Seq(Directions) /\ Len(t) = Len(s) + 1
  /\ \A j \in 1 .. Len(s) : t[j] = s[j]
  /\ t[Len(s) + 1] = d

LEMMA SplitIsWhole ==
  ASSUME NEW at, Places(at), Whole(at), NEW p \in DOMAIN at, NEW new, new \notin DOMAIN at,
         NEW d \in Directions, NEW b, DOMAIN b = DOMAIN at \union {new},
         \A q \in DOMAIN at : q # p => b[q] = at[q],
         Grown(b[p], at[p], Opposite[d]), Grown(b[new], at[p], d)
  PROVE  Places(b) /\ Whole(b)
<1> DEFINE from(q) == IF q = new THEN p ELSE q
           L == Len(at[p])
           halves == {p, new}
<1>1. /\ L \in Nat /\ \A q \in DOMAIN at : Len(at[q]) \in Nat
      /\ \A q \in DOMAIN at : \A i \in 1 .. Len(at[q]) : at[q][i] \in Directions
  BY PlaceIs
<1>2. /\ Opposite[d] \in Directions /\ Opposite[d] # d /\ Opposite[Opposite[d]] = d
  BY OppositeIs
<1>3. /\ Len(b[p]) = L + 1 /\ Len(b[new]) = L + 1
      /\ b[p][L + 1] = Opposite[d] /\ b[new][L + 1] = d
      /\ \A j \in 1 .. L : b[p][j] = at[p][j] /\ b[new][j] = at[p][j]
  BY DEF Grown
<1>4. Places(b)
  BY DEF Places, Grown
<1> HIDE DEF L
\* What b has in common with the tree it grew from.
<1>5. \A q \in DOMAIN b : /\ from(q) \in DOMAIN at
                          /\ Len(b[q]) = IF q \in halves THEN L + 1 ELSE Len(at[from(q)])
                          /\ Len(at[from(q)]) <= Len(b[q]) /\ Len(b[q]) \in Nat
                          /\ q \in halves => from(q) = p /\ Len(at[from(q)]) = L
                          /\ q \notin halves => from(q) = q /\ b[q] = at[q]
                          /\ \A j \in 1 .. Len(at[from(q)]) : b[q][j] = at[from(q)][j]
  BY <1>1, <1>3 DEF L
<1>6. \A q, r \in DOMAIN b : \A k \in Nat :
        k <= Len(at[from(q)]) /\ k <= Len(at[from(r)]) /\ Agree(b[q], b[r], k)
          => Agree(at[from(q)], at[from(r)], k)
  <2> SUFFICES ASSUME NEW q \in DOMAIN b, NEW r \in DOMAIN b, NEW k \in Nat,
                      k <= Len(at[from(q)]), k <= Len(at[from(r)]), Agree(b[q], b[r], k),
                      NEW j \in 1 .. k
               PROVE  at[from(q)][j] = at[from(r)][j]
    BY DEF Agree
  <2> HIDE DEF from
  <2>1. b[q][j] = b[r][j]
    BY DEF Agree
  <2>2. from(q) \in DOMAIN at /\ from(r) \in DOMAIN at
    BY <1>5
  <2>3. j \in 1 .. Len(at[from(q)]) /\ j \in 1 .. Len(at[from(r)])
    BY <1>1, <2>2
  <2>4. b[q][j] = at[from(q)][j] /\ b[r][j] = at[from(r)][j]
    BY <1>5, <2>3
  <2> QED BY <2>1, <2>4
<1> HIDE DEF from
\* No other place goes on below the one that was split.
<1>7. \A r \in DOMAIN b : ~(r \notin halves /\ \E q \in halves : Agree(b[q], b[r], L))
  <2> SUFFICES ASSUME NEW r \in DOMAIN b, r \notin halves, NEW q \in halves, Agree(b[q], b[r], L)
               PROVE  FALSE
    OBVIOUS
  <2>1. q \in DOMAIN b
    OBVIOUS
  <2>2. from(q) = p /\ from(r) = r /\ L <= Len(at[r]) /\ L = Len(at[p]) /\ r \in DOMAIN at
    BY <1>1, <1>5, <2>1 DEF Agree, L
  <2>3. Agree(at[p], at[r], L)
    BY <1>1, <1>6, <2>1, <2>2
  <2> QED BY <2>2, <2>3 DEF Whole, Leaves
<1>8. Leaves(b)
  <2> SUFFICES ASSUME NEW q \in DOMAIN b, NEW r \in DOMAIN b, Agree(b[q], b[r], Len(b[q])), q # r
               PROVE  FALSE
    BY DEF Leaves
  <2>1. CASE q \in halves /\ r \in halves
    <3>1. b[q][L + 1] = b[r][L + 1]
      BY <1>1, <1>5, <2>1 DEF Agree
    <3> QED BY <1>2, <1>3, <2>1, <3>1
  <2>2. CASE q \in halves /\ r \notin halves
    <3>1. Agree(b[q], b[r], L)
      BY <1>1, <1>5, <2>2 DEF Agree
    <3> QED BY <1>7, <2>2, <3>1
  <2>3. CASE q \notin halves /\ r \in halves
    <3>1. CASE Len(b[q]) <= L
      <4>1. Agree(at[q], at[p], Len(at[q])) /\ q \in DOMAIN at /\ q # p
        BY <1>1, <1>5, <1>6, <2>3, <3>1
      <4> QED BY <4>1 DEF Whole, Leaves
    <3>2. CASE ~(Len(b[q]) <= L)
      <4>1. Agree(b[r], b[q], L)
        BY <1>1, <1>5, <2>3, <3>2 DEF Agree
      <4> QED BY <1>7, <2>3, <4>1
    <3> QED BY <3>1, <3>2
  <2>4. CASE q \notin halves /\ r \notin halves
    <3>1. b[q] = at[q] /\ b[r] = at[r] /\ q \in DOMAIN at /\ r \in DOMAIN at
      BY <1>5, <2>4
    <3> QED BY <3>1 DEF Whole, Leaves
  <2> QED BY <2>1, <2>2, <2>3, <2>4
<1>9. Siblings(b)
  <2> SUFFICES ASSUME NEW q \in DOMAIN b, NEW i \in 1 .. Len(b[q])
               PROVE  \E r \in DOMAIN b : /\ i <= Len(b[r]) /\ Agree(b[q], b[r], i - 1)
                                          /\ b[r][i] = Opposite[b[q][i]]
    BY DEF Siblings
  <2>1. CASE i <= Len(at[from(q)])
    <3>1. from(q) \in DOMAIN at /\ i \in 1 .. Len(at[from(q)])
      BY <1>1, <1>5, <2>1
    <3>2. PICK r \in DOMAIN at : /\ i <= Len(at[r]) /\ Agree(at[from(q)], at[r], i - 1)
                                 /\ at[r][i] = Opposite[at[from(q)][i]]
      BY <3>1 DEF Whole, Siblings
    <3>3. r \in DOMAIN b /\ from(r) = r
      BY DEF from
    <3>4. /\ Len(at[r]) <= Len(b[r]) /\ Len(b[r]) \in Nat
          /\ \A j \in 1 .. Len(at[r]) : b[r][j] = at[r][j]
      BY <1>5, <3>3
    <3>5. b[q][i] = at[from(q)][i] /\ b[r][i] = at[r][i] /\ i <= Len(b[r])
      BY <1>1, <1>5, <3>1, <3>2, <3>4
    <3>6. Agree(b[q], b[r], i - 1)
      <4>1. i - 1 <= Len(b[q]) /\ i - 1 <= Len(b[r])
        BY <1>1, <1>5, <3>1, <3>2, <3>4
      <4>2. ASSUME NEW j \in 1 .. i - 1 PROVE b[q][j] = b[r][j]
        <5>1. at[from(q)][j] = at[r][j]
          BY <3>2 DEF Agree
        <5>2. j \in 1 .. Len(at[from(q)]) /\ j \in 1 .. Len(at[r])
          BY <1>1, <3>1, <3>2
        <5> QED BY <1>5, <3>4, <5>1, <5>2
      <4> QED BY <4>1, <4>2 DEF Agree
    <3> QED BY <3>2, <3>3, <3>5, <3>6
  <2>2. CASE ~(i <= Len(at[from(q)]))
    <3>1. q \in halves /\ i = L + 1
      BY <1>1, <1>5, <2>2
    <3>2. PICK r \in halves : r # q
      BY <3>1
    <3>3. b[r][i] = Opposite[b[q][i]] /\ i <= Len(b[r])
      BY <1>1, <1>2, <1>3, <3>1, <3>2
    <3>4. Agree(b[q], b[r], i - 1)
      BY <1>1, <1>3, <3>1, <3>2 DEF Agree
    <3> QED BY <3>2, <3>3, <3>4
  <2> QED BY <2>1, <2>2
<1>10. Binary(b)
  <2> SUFFICES ASSUME NEW q \in DOMAIN b, NEW r \in DOMAIN b, NEW i \in 1 .. Len(b[q]),
                      i <= Len(b[r]), Agree(b[q], b[r], i - 1)
               PROVE  b[r][i] \in {b[q][i], Opposite[b[q][i]]}
    BY DEF Binary
  <2>1. CASE i <= Len(at[from(q)]) /\ i <= Len(at[from(r)])
    <3>1. i - 1 \in Nat /\ i - 1 <= Len(at[from(q)]) /\ i - 1 <= Len(at[from(r)])
      BY <1>1, <1>5, <2>1
    <3>2. Agree(at[from(q)], at[from(r)], i - 1)
      BY <1>6, <3>1
    <3>3. b[q][i] = at[from(q)][i] /\ b[r][i] = at[from(r)][i]
      BY <1>1, <1>5, <2>1
    <3>4. i \in 1 .. Len(at[from(q)]) /\ from(q) \in DOMAIN at /\ from(r) \in DOMAIN at
      BY <1>1, <1>5, <2>1
    <3> QED BY <2>1, <3>2, <3>3, <3>4 DEF Whole, Binary
  <2>2. CASE q \in halves /\ i = L + 1
    <3>1. r \in halves
      <4>1. Agree(b[q], b[r], L)
        BY <1>1, <2>2
      <4> QED BY <1>7, <2>2, <4>1
    <3> QED BY <1>2, <1>3, <2>2, <3>1
  <2>3. CASE r \in halves /\ i = L + 1
    <3>1. q \in halves
      <4>1. Agree(b[r], b[q], L)
        BY <1>1, <2>3 DEF Agree
      <4> QED BY <1>7, <2>3, <4>1
    <3> QED BY <1>2, <1>3, <2>3, <3>1
  <2>4. /\ i <= Len(at[from(q)]) \/ (q \in halves /\ i = L + 1)
        /\ i <= Len(at[from(r)]) \/ (r \in halves /\ i = L + 1)
    BY <1>1, <1>5
  <2> QED BY <2>1, <2>2, <2>3, <2>4
<1> QED BY <1>4, <1>8, <1>9, <1>10 DEF Whole

\* A place without one of its branches.
Shrunk(t, s, k) ==
  /\ t \in Seq(Directions) /\ Len(t) = Len(s) - 1
  /\ \A j \in 1 .. Len(s) - 1 : t[j] = IF j < k THEN s[j] ELSE s[j + 1]

\* Of more than one pane, a pane is below a split; the panes on the other side are
\* those that follow its place up to the split.
LEMMA OtherSide ==
  ASSUME NEW at, Places(at), Whole(at), NEW p \in DOMAIN at, DOMAIN at # {p}
  PROVE  /\ Len(at[p]) >= 1
         /\ \A q \in DOMAIN at : q # p /\ Agree(at[p], at[q], Len(at[p]) - 1)
              => /\ Len(at[p]) <= Len(at[q])
                 /\ at[q][Len(at[p])] = Opposite[at[p][Len(at[p])]]
         /\ \E q \in DOMAIN at : q # p /\ Agree(at[p], at[q], Len(at[p]) - 1)
<1> DEFINE L == Len(at[p])
<1>1. \A q \in DOMAIN at : Len(at[q]) \in Nat
  BY PlaceIs
<1>2. L >= 1
  <2>1. PICK q \in DOMAIN at : q # p
    OBVIOUS
  <2>2. ~Agree(at[p], at[q], Len(at[p]))
    BY <2>1 DEF Whole, Leaves
  <2> QED BY <1>1, <2>2 DEF Agree
<1>3. ASSUME NEW q \in DOMAIN at, q # p, Agree(at[p], at[q], L - 1)
      PROVE  L <= Len(at[q]) /\ at[q][L] = Opposite[at[p][L]]
  <2>1. L <= Len(at[q])
    <3>1. SUFFICES ASSUME Len(at[q]) < L
                   PROVE  FALSE
      BY <1>1
    <3>2. Agree(at[q], at[p], Len(at[q]))
      BY <1>1, <1>3, <3>1 DEF Agree
    <3> QED BY <1>3, <3>2 DEF Whole, Leaves
  <2>2. L \in 1 .. Len(at[p])
    BY <1>1, <1>2
  <2>3. at[q][L] \in {at[p][L], Opposite[at[p][L]]}
    BY <1>3, <2>1, <2>2 DEF Whole, Binary
  <2>4. at[q][L] # at[p][L]
    <3>1. SUFFICES ASSUME at[q][L] = at[p][L]
                   PROVE  FALSE
      OBVIOUS
    <3>2. Agree(at[p], at[q], L)
      BY <1>1, <1>2, <1>3, <2>1, <3>1 DEF Agree
    <3> QED BY <1>3, <3>2 DEF Whole, Leaves
  <2> QED BY <2>1, <2>3, <2>4
<1>4. \E q \in DOMAIN at : q # p /\ Agree(at[p], at[q], L - 1)
  <2>1. L \in 1 .. Len(at[p])
    BY <1>1, <1>2
  <2>2. PICK q \in DOMAIN at : Agree(at[p], at[q], L - 1) /\ at[q][L] = Opposite[at[p][L]]
    BY <2>1 DEF Whole, Siblings
  <2>3. at[p][L] \in Directions
    BY <2>1, PlaceIs
  <2>4. q # p
    BY <2>2, <2>3, OppositeIs
  <2> QED BY <2>2, <2>4
<1> QED BY <1>2, <1>3, <1>4

LEMMA RemovalIsWhole ==
  ASSUME NEW at, Places(at), Whole(at), NEW p \in DOMAIN at, DOMAIN at # {p},
         NEW b, DOMAIN b = DOMAIN at \ {p},
         \A q \in DOMAIN b : IF Agree(at[p], at[q], Len(at[p]) - 1)
                             THEN Shrunk(b[q], at[q], Len(at[p])) ELSE b[q] = at[q]
  PROVE  Places(b) /\ Whole(b)
<1> DEFINE L == Len(at[p])
           under == {q \in DOMAIN b : Agree(at[p], at[q], L - 1)}
<1>1. \A q \in DOMAIN at : Len(at[q]) \in Nat
  BY PlaceIs
<1>2. /\ L >= 1 /\ L \in Nat
      /\ \A q \in under : L <= Len(at[q]) /\ at[q][L] = Opposite[at[p][L]]
      /\ under # {} /\ under \subseteq DOMAIN at
  BY <1>1, OtherSide
<1>3. \A q \in under : /\ b[q] \in Seq(Directions) /\ Len(b[q]) = Len(at[q]) - 1
                       /\ L - 1 <= Len(b[q]) /\ Len(b[q]) \in Nat
                       /\ \A j \in 1 .. Len(at[q]) - 1 :
                            b[q][j] = IF j < L THEN at[q][j] ELSE at[q][j + 1]
                       /\ L <= Len(at[q]) /\ L - 1 <= Len(at[q])
                       /\ \A j \in 1 .. L - 1 : at[q][j] = at[p][j]
  <2> SUFFICES ASSUME NEW q \in under
               PROVE  /\ b[q] \in Seq(Directions) /\ Len(b[q]) = Len(at[q]) - 1
                      /\ L - 1 <= Len(b[q]) /\ Len(b[q]) \in Nat
                      /\ \A j \in 1 .. Len(at[q]) - 1 :
                           b[q][j] = IF j < L THEN at[q][j] ELSE at[q][j + 1]
                      /\ L <= Len(at[q]) /\ L - 1 <= Len(at[q])
                      /\ \A j \in 1 .. L - 1 : at[q][j] = at[p][j]
    OBVIOUS
  <2>1. /\ q \in DOMAIN b /\ q \in DOMAIN at /\ L <= Len(at[q]) /\ Len(at[q]) \in Nat
        /\ Agree(at[p], at[q], L - 1)
    BY <1>1, <1>2
  <2>2. Shrunk(b[q], at[q], L)
    BY <2>1
  <2>3. /\ b[q] \in Seq(Directions) /\ Len(b[q]) = Len(at[q]) - 1
        /\ \A j \in 1 .. Len(at[q]) - 1 : b[q][j] = IF j < L THEN at[q][j] ELSE at[q][j + 1]
    BY ONLY <2>2 DEF Shrunk
  <2>4. \A j \in 1 .. L - 1 : at[q][j] = at[p][j]
    BY ONLY <2>1 DEF Agree
  <2>5. L - 1 <= Len(b[q]) /\ Len(b[q]) \in Nat /\ L - 1 <= Len(at[q])
    BY ONLY <1>2, <2>1, <2>3
  <2> QED BY ONLY <2>1, <2>3, <2>4, <2>5
<1>4. \A q \in DOMAIN b : q \in DOMAIN at /\ q # p /\ (q \notin under => b[q] = at[q])
  OBVIOUS
<1>5. Places(b)
  BY <1>3, <1>4 DEF Places
<1>6. /\ Opposite[at[p][L]] \in Directions /\ at[p][L] \in Directions
      /\ \A q \in DOMAIN at : \A i \in 1 .. Len(at[q]) : at[q][i] \in Directions
  BY <1>1, <1>2, PlaceIs, OppositeIs
\* Above the split the panes below it are where they were.
<1>7. \A q \in under : \A j \in 1 .. L - 1 : b[q][j] = at[p][j] /\ b[q][j] = at[q][j]
  BY <1>1, <1>2, <1>3
<1>8. \A q \in under : \A j \in Nat : L <= j /\ j <= Len(b[q]) => b[q][j] = at[q][j + 1]
  BY <1>1, <1>2, <1>3
\* A pane that agrees with one below the split up to the split is below it as well.
<1>9. \A q \in under, r \in DOMAIN b : \A k \in Nat :
        L - 1 <= k /\ (Agree(b[q], b[r], k) \/ Agree(b[r], b[q], k)) => r \in under
  <2> SUFFICES ASSUME NEW q \in under, NEW r \in DOMAIN b, NEW k \in Nat, L - 1 <= k,
                      Agree(b[q], b[r], k) \/ Agree(b[r], b[q], k), r \notin under
               PROVE  FALSE
    OBVIOUS
  <2>1. b[r] = at[r] /\ r \in DOMAIN at /\ r # p
    BY <1>4
  <2>2. k <= Len(b[r]) /\ L - 1 <= Len(at[r]) /\ L - 1 <= Len(at[p])
    BY <1>1, <1>2, <2>1 DEF Agree
  <2>3. ASSUME NEW j \in 1 .. L - 1 PROVE at[p][j] = at[r][j]
    <3>1. j \in 1 .. k
      BY <1>2
    <3>2. b[q][j] = b[r][j]
      BY <3>1 DEF Agree
    <3> QED BY <1>7, <2>1, <3>2
  <2> QED BY <2>1, <2>2, <2>3 DEF Agree
<1> HIDE DEF under
\* Below the split they agree when they did so before, one branch further down.
<1>10. \A q, r \in under : \A k \in Nat :
         L - 1 <= k /\ Agree(b[q], b[r], k) => Agree(at[q], at[r], k + 1)
  <2> SUFFICES ASSUME NEW q \in under, NEW r \in under, NEW k \in Nat, L - 1 <= k,
                      Agree(b[q], b[r], k)
               PROVE  Agree(at[q], at[r], k + 1)
    OBVIOUS
  <2>0. k <= Len(b[q]) /\ k <= Len(b[r]) /\ \A j \in 1 .. k : b[q][j] = b[r][j]
    BY DEF Agree
  <2>1. k + 1 <= Len(at[q]) /\ k + 1 <= Len(at[r])
    BY <1>1, <1>2, <1>3, <2>0
  <2>2. ASSUME NEW j \in 1 .. k + 1 PROVE at[q][j] = at[r][j]
    <3>1. CASE j < L
      <4>1. j \in 1 .. L - 1
        BY <1>2, <3>1
      <4> QED BY <1>3, <4>1
    <3>2. CASE j = L
      BY <1>2, <3>2
    <3>3. CASE j > L
      <4>1. j - 1 \in 1 .. k /\ j - 1 \in Nat /\ L <= j - 1 /\ (j - 1) + 1 = j
        BY <1>2, <3>3
      <4>2. b[q][j - 1] = b[r][j - 1] /\ j - 1 <= Len(b[q]) /\ j - 1 <= Len(b[r])
        <5>1. j - 1 <= Len(b[q]) /\ j - 1 <= Len(b[r])
          BY <2>0, <4>1
        <5> QED BY ONLY <2>0, <4>1, <5>1
      <4> QED BY <1>8, <4>1, <4>2
    <3> QED BY <1>2, <3>1, <3>2, <3>3
  <2> QED BY <2>1, <2>2 DEF Agree
<1>11. Leaves(b)
  <2> SUFFICES ASSUME NEW q \in DOMAIN b, NEW r \in DOMAIN b, Agree(b[q], b[r], Len(b[q]))
               PROVE  q = r
    BY DEF Leaves
  <2>1. CASE q \in under
    <3>1. Len(b[q]) \in Nat /\ L - 1 <= Len(b[q]) /\ Len(b[q]) + 1 = Len(at[q])
      BY <1>1, <1>2, <1>3, <2>1
    <3>2. r \in under
      BY <1>9, <2>1, <3>1
    <3>3. Agree(at[q], at[r], Len(at[q]))
      BY <1>10, <2>1, <3>1, <3>2
    <3> QED BY <1>2, <2>1, <3>2, <3>3 DEF Whole, Leaves
  <2>2. CASE q \notin under /\ r \in under
    <3>1. b[q] = at[q] /\ q \in DOMAIN at /\ q # p /\ Len(b[q]) \in Nat
      BY <1>1, <1>4, <2>2
    <3>2. CASE L - 1 <= Len(b[q])
      BY <1>9, <2>2, <3>1, <3>2
    <3>3. CASE ~(L - 1 <= Len(b[q]))
      <4>1. Agree(at[q], at[p], Len(at[q]))
        BY <1>1, <1>2, <1>7, <2>2, <3>1, <3>3 DEF Agree
      <4> QED BY <3>1, <4>1 DEF Whole, Leaves
    <3> QED BY <3>2, <3>3
  <2>3. CASE q \notin under /\ r \notin under
    BY <1>4, <2>3 DEF Whole, Leaves
  <2> QED BY <2>1, <2>2, <2>3
<1>12. Siblings(b)
  <2> SUFFICES ASSUME NEW q \in DOMAIN b, NEW i \in 1 .. Len(b[q])
               PROVE  \E r \in DOMAIN b : /\ i <= Len(b[r]) /\ Agree(b[q], b[r], i - 1)
                                          /\ b[r][i] = Opposite[b[q][i]]
    BY DEF Siblings
  <2>0. Len(b[q]) \in Nat /\ q \in DOMAIN at /\ q # p
    BY <1>1, <1>3, <1>4
  <2>1. CASE q \notin under \/ i < L
    <3>1. /\ \A j \in 1 .. i : b[q][j] = at[q][j]
          /\ i \in 1 .. Len(at[q])
      <4>1. CASE q \notin under
        BY <1>4, <4>1
      <4>2. CASE q \in under /\ i < L
        BY <1>1, <1>2, <1>3, <1>7, <2>0, <4>2
      <4> QED BY <2>1, <4>1, <4>2
    <3>2. PICK r \in DOMAIN at : /\ i <= Len(at[r]) /\ Agree(at[q], at[r], i - 1)
                                 /\ at[r][i] = Opposite[at[q][i]]
      BY <2>0, <3>1 DEF Whole, Siblings
    <3>3. CASE r \in DOMAIN b /\ r \notin under
      <4>1. b[r] = at[r]
        BY <1>4, <3>3
      <4>2. Agree(b[q], b[r], i - 1)
        <5>1. i - 1 <= Len(b[q]) /\ i - 1 <= Len(b[r]) /\ \A j \in 1 .. i - 1 : j \in 1 .. i
          BY <2>0, <3>2, <4>1 DEF Agree
        <5>2. \A j \in 1 .. i - 1 : at[q][j] = at[r][j]
          BY <3>2 DEF Agree
        <5> QED BY ONLY <3>1, <4>1, <5>1, <5>2 DEF Agree
      <4>3. b[q][i] = at[q][i]
        BY <3>1
      <4> QED BY <3>2, <3>3, <4>1, <4>2, <4>3
    <3>4. CASE r = p \/ r \in under
      <4>1. i < L
        <5>1. SUFFICES ASSUME ~(i < L), q \notin under
                       PROVE  FALSE
          BY <2>1
        <5>2. Agree(at[p], at[q], L - 1)
          <6>1. /\ L - 1 <= Len(at[p]) /\ L - 1 <= Len(at[q])
                /\ \A j \in 1 .. L - 1 : j \in 1 .. i - 1
            BY <1>1, <1>2, <2>0, <3>1, <5>1
          <6>2. \A j \in 1 .. i - 1 : at[q][j] = at[r][j]
            BY <3>2 DEF Agree
          <6>3. \A j \in 1 .. L - 1 : at[r][j] = at[p][j]
            BY <1>3, <3>4
          <6> QED BY ONLY <6>1, <6>2, <6>3 DEF Agree
        <5> QED BY <2>0, <5>1, <5>2 DEF under
      <4>2. PICK u \in under : TRUE
        BY <1>2
      <4>3. /\ \A j \in 1 .. i : b[u][j] = at[p][j] /\ at[r][j] = at[p][j]
            /\ i <= Len(b[u]) /\ u \in DOMAIN b
        <5>1. \A j \in 1 .. i : j \in 1 .. L - 1
          BY <1>2, <2>0, <4>1
        <5>2. \A j \in 1 .. i : at[r][j] = at[p][j]
          BY <1>3, <3>4, <5>1
        <5>3. \A j \in 1 .. i : b[u][j] = at[p][j]
          BY <1>7, <4>2, <5>1
        <5>4. i <= Len(b[u])
          BY <1>2, <1>3, <2>0, <4>1, <4>2
        <5>5. u \in DOMAIN b
          BY <4>2 DEF under
        <5> QED BY <5>2, <5>3, <5>4, <5>5
      <4>4. b[u][i] = Opposite[b[q][i]]
        BY <3>1, <3>2, <4>3
      <4>5. Agree(b[q], b[u], i - 1)
        <5>1. i - 1 <= Len(b[q]) /\ i - 1 <= Len(b[u])
          BY <1>3, <2>0, <4>2, <4>3
        <5>2. ASSUME NEW j \in 1 .. i - 1 PROVE b[q][j] = b[u][j]
          <6>1. j \in 1 .. i
            BY <2>0
          <6>2. at[q][j] = at[r][j]
            BY <3>2 DEF Agree
          <6> QED BY <3>1, <4>3, <6>1, <6>2
        <5> QED BY <5>1, <5>2 DEF Agree
      <4> QED BY <4>3, <4>4, <4>5
    <3> QED BY <3>3, <3>4
  <2>2. CASE q \in under /\ ~(i < L)
    <3>1. i + 1 \in 1 .. Len(at[q]) /\ (i + 1) - 1 = i /\ b[q][i] = at[q][i + 1]
      BY <1>1, <1>2, <1>3, <1>8, <2>2
    <3>2. PICK r \in DOMAIN at : /\ i + 1 <= Len(at[r]) /\ Agree(at[q], at[r], i)
                                 /\ at[r][i + 1] = Opposite[at[q][i + 1]]
      <4>1. PICK k : k = i + 1
        OBVIOUS
      <4>2. k \in 1 .. Len(at[q]) /\ k - 1 = i
        BY <3>1, <4>1
      <4>3. PICK r \in DOMAIN at : /\ k <= Len(at[r]) /\ Agree(at[q], at[r], k - 1)
                                   /\ at[r][k] = Opposite[at[q][k]]
        BY <2>0, <4>2 DEF Whole, Siblings
      <4> QED BY <4>1, <4>2, <4>3
    <3>3. r # p
      <4>1. at[r][L] = at[q][L] /\ at[q][L] = Opposite[at[p][L]]
        BY <1>1, <1>2, <2>2, <3>2 DEF Agree
      <4> QED BY <1>6, <4>1, OppositeIs
    <3>4. r \in under
      <4>1. /\ L - 1 <= Len(at[p]) /\ L - 1 <= Len(at[r])
            /\ \A j \in 1 .. L - 1 : j \in 1 .. i
        BY <1>1, <1>2, <2>0, <2>2, <3>2
      <4>2. \A j \in 1 .. i : at[q][j] = at[r][j]
        BY <3>2 DEF Agree
      <4>3. \A j \in 1 .. L - 1 : at[q][j] = at[p][j]
        BY <1>3, <2>2
      <4>4. Agree(at[p], at[r], L - 1)
        BY ONLY <4>1, <4>2, <4>3 DEF Agree
      <4> QED BY <3>2, <3>3, <4>4 DEF under
    <3>5. i <= Len(b[r]) /\ b[r][i] = at[r][i + 1]
      BY <1>1, <1>2, <1>3, <1>8, <2>2, <3>2, <3>4
    <3>6. Agree(b[q], b[r], i - 1)
      <4>1. i - 1 <= Len(b[q]) /\ i - 1 <= Len(b[r])
        BY <1>3, <2>0, <3>4, <3>5
      <4>2. ASSUME NEW j \in 1 .. i - 1 PROVE b[q][j] = b[r][j]
        <5>0. j \in 1 .. i /\ j + 1 \in 1 .. i
          BY <2>0
        <5>1. at[q][j] = at[r][j] /\ at[q][j + 1] = at[r][j + 1]
          BY <3>2, <5>0 DEF Agree
        <5>2. CASE j < L
          BY <1>2, <1>7, <2>2, <3>4, <5>1, <5>2
        <5>3. CASE ~(j < L)
          <6>1. j \in Nat /\ L <= j /\ j <= Len(b[q]) /\ j <= Len(b[r])
            BY <1>2, <1>3, <2>0, <3>4, <4>1, <5>3
          <6>2. b[q][j] = at[q][j + 1] /\ b[r][j] = at[r][j + 1]
            BY <1>8, <2>2, <3>4, <6>1
          <6> QED BY <5>1, <6>2
        <5> QED BY <5>2, <5>3
      <4> QED BY <4>1, <4>2 DEF Agree
    <3> QED BY <3>1, <3>2, <3>4, <3>5, <3>6 DEF under
  <2> QED BY <2>1, <2>2
<1>13. Binary(b)
  <2> SUFFICES ASSUME NEW q \in DOMAIN b, NEW r \in DOMAIN b, NEW i \in 1 .. Len(b[q]),
                      i <= Len(b[r]), Agree(b[q], b[r], i - 1)
               PROVE  b[r][i] \in {b[q][i], Opposite[b[q][i]]}
    BY DEF Binary
  <2>0. Len(b[q]) \in Nat /\ Len(b[r]) \in Nat /\ q \in DOMAIN at /\ r \in DOMAIN at
        /\ i - 1 \in Nat
    BY <1>1, <1>3, <1>4
  <2>1. CASE i < L
    <3>1. /\ \A j \in 1 .. i : b[q][j] = at[q][j] /\ b[r][j] = at[r][j]
          /\ i \in 1 .. Len(at[q]) /\ i <= Len(at[r])
      <4>1. ASSUME NEW x \in DOMAIN b, i <= Len(b[x])
            PROVE  i <= Len(at[x]) /\ \A j \in 1 .. i : b[x][j] = at[x][j]
        <5>1. CASE x \notin under
          BY <1>4, <4>1, <5>1
        <5>2. CASE x \in under
          <6>1. \A j \in 1 .. i : j \in 1 .. L - 1
            BY <1>2, <2>0, <2>1
          <6>2. i <= Len(at[x])
            BY <1>1, <1>2, <1>3, <2>0, <2>1, <5>2
          <6> QED BY <1>7, <5>2, <6>1, <6>2
        <5> QED BY <5>1, <5>2
      <4>2. i <= Len(b[q])
        BY <2>0
      <4>3. i <= Len(at[q]) => i \in 1 .. Len(at[q])
        BY <1>1, <2>0
      <4> QED BY <4>1, <4>2, <4>3
    <3>2. Agree(at[q], at[r], i - 1)
      BY <1>1, <2>0, <3>1 DEF Agree
    <3>3. b[q][i] = at[q][i] /\ b[r][i] = at[r][i]
      BY <3>1
    <3> QED BY <2>0, <3>1, <3>2, <3>3 DEF Whole, Binary
  <2>2. CASE ~(i < L) /\ (q \in under \/ r \in under)
    <3>1. L - 1 <= i - 1
      BY <1>2, <2>2
    <3>2. q \in under /\ r \in under
      BY <1>9, <2>0, <2>2, <3>1
    <3>3. Agree(at[q], at[r], (i - 1) + 1) /\ (i - 1) + 1 = (i + 1) - 1
      BY <1>10, <2>0, <3>1, <3>2
    <3>4. b[q][i] = at[q][i + 1] /\ b[r][i] = at[r][i + 1]
      <4>1. i \in Nat /\ L <= i /\ i <= Len(b[q]) /\ i <= Len(b[r])
        BY <1>2, <2>0, <2>2
      <4> QED BY <1>8, <3>2, <4>1
    <3>5. i + 1 \in 1 .. Len(at[q]) /\ i + 1 <= Len(at[r])
      BY <1>1, <1>3, <2>0, <3>2
    <3> QED BY <2>0, <3>3, <3>4, <3>5 DEF Whole, Binary
  <2>3. CASE q \notin under /\ r \notin under
    <3>1. b[q] = at[q] /\ b[r] = at[r]
      BY <1>4, <2>3
    <3> QED BY <2>0, <3>1 DEF Whole, Binary
  <2> QED BY <2>1, <2>2, <2>3
<1> QED BY <1>5, <1>11, <1>12, <1>13 DEF Whole

LEMMA SamePrefix ==
  ASSUME NEW s \in Seq(Directions), NEW t \in Seq(Directions), NEW k \in Nat,
         k <= Len(s), k <= Len(t)
  PROVE  SubSeq(s, 1, k) = SubSeq(t, 1, k) <=> Agree(s, t, k)
<1>1. /\ Len(s) \in Nat /\ Len(t) \in Nat
      /\ \A i \in 1 .. k : s[i] \in Directions /\ t[i] \in Directions
  BY LenProperties, ElementOfSeq
<1> DEFINE a == SubSeq(s, 1, k)
           b == SubSeq(t, 1, k)
<1>2. /\ a \in Seq(Directions) /\ Len(a) = k /\ \A i \in 1 .. k : a[i] = s[i]
      /\ b \in Seq(Directions) /\ Len(b) = k /\ \A i \in 1 .. k : b[i] = t[i]
  <2>1. \A u \in Seq(Directions) : (\A i \in 1 .. k : u[i] \in Directions)
          => /\ SubSeq(u, 1, k) \in Seq(Directions) /\ Len(SubSeq(u, 1, k)) = k
             /\ \A i \in 1 .. k : SubSeq(u, 1, k)[i] = u[i]
    <3> SUFFICES ASSUME NEW u \in Seq(Directions), \A i \in 1 .. k : u[i] \in Directions
                 PROVE  /\ SubSeq(u, 1, k) \in Seq(Directions) /\ Len(SubSeq(u, 1, k)) = k
                        /\ \A i \in 1 .. k : SubSeq(u, 1, k)[i] = u[i]
      OBVIOUS
    <3>1. /\ SubSeq(u, 1, k) \in Seq(Directions)
          /\ Len(SubSeq(u, 1, k)) = IF 1 <= k THEN k - 1 + 1 ELSE 0
          /\ \A i \in 1 .. k - 1 + 1 : SubSeq(u, 1, k)[i] = u[1 + i - 1]
      BY SubSeqProperties
    <3>2. k - 1 + 1 = k /\ (~(1 <= k) => k = 0) /\ \A i \in 1 .. k : 1 + i - 1 = i
      OBVIOUS
    <3> QED BY <3>1, <3>2
  <2> QED BY <1>1, <2>1
<1> HIDE DEF a, b
<1>3. ASSUME Agree(s, t, k) PROVE a = b
  BY <1>2, <1>3, SeqEqual DEF Agree
<1>4. ASSUME a = b PROVE Agree(s, t, k)
  BY <1>2, <1>4 DEF Agree
<1> QED BY <1>3, <1>4 DEF a, b

LEMMA PrefixIs ==
  ASSUME NEW s \in Seq(Directions), NEW t \in Seq(Directions)
  PROVE  IsPrefix(s, t) <=> Agree(s, t, Len(s))
<1>1. Len(s) \in Nat /\ Len(t) \in Nat
  BY LenProperties
<1>2. Len(s) <= Len(t) => (SubSeq(s, 1, Len(s)) = SubSeq(t, 1, Len(s)) <=> Agree(s, t, Len(s)))
  BY <1>1, SamePrefix
<1> QED BY <1>1, <1>2 DEF IsPrefix, Agree

\* The place of a branch of the split above the i-th of s.
LeavesAt(x, s, i, d) ==
  \A t \in Seq(Directions) : IsPrefix(x, t) <=> i <= Len(t) /\ Agree(s, t, i - 1) /\ t[i] = d

LEMMA BranchOff ==
  ASSUME NEW s \in Seq(Directions), NEW i \in 1 .. Len(s), NEW d \in Directions,
         NEW x, x = Append(SubSeq(s, 1, i - 1), d)
  PROVE  x \in Seq(Directions) /\ Len(x) = i /\ LeavesAt(x, s, i, d)
<1>1. Len(s) \in Nat /\ \A j \in 1 .. Len(s) : s[j] \in Directions
  BY LenProperties, ElementOfSeq
<1> DEFINE a == SubSeq(s, 1, i - 1)
<1>2. a \in Seq(Directions) /\ Len(a) = i - 1 /\ \A j \in 1 .. i - 1 : a[j] = s[j]
  <2>1. \A j \in 1 .. i - 1 : s[j] \in Directions
    BY <1>1
  <2>2. /\ a \in Seq(Directions)
        /\ Len(a) = IF 1 <= i - 1 THEN i - 1 - 1 + 1 ELSE 0
        /\ \A j \in 1 .. i - 1 - 1 + 1 : a[j] = s[1 + j - 1]
    BY <2>1, SubSeqProperties
  <2>3. i - 1 - 1 + 1 = i - 1 /\ (~(1 <= i - 1) => i - 1 = 0) /\ \A j \in 1 .. i - 1 : 1 + j - 1 = j
    OBVIOUS
  <2> HIDE DEF a
  <2> QED BY <2>2, <2>3
<1> HIDE DEF a
<1>3. x = Append(a, d)
  BY DEF a
<1>4. /\ x \in Seq(Directions) /\ Len(x) = (i - 1) + 1
      /\ \A j \in 1 .. i - 1 : x[j] = s[j]
      /\ x[(i - 1) + 1] = d
  BY <1>2, <1>3, AppendProperties
<1>5. (i - 1) + 1 = i
  OBVIOUS
<1>6. ASSUME NEW t \in Seq(Directions)
      PROVE  IsPrefix(x, t) <=> i <= Len(t) /\ Agree(s, t, i - 1) /\ t[i] = d
  <2>1. Len(t) \in Nat /\ Len(x) = i
    BY <1>4, <1>5, LenProperties
  <2>2. IsPrefix(x, t) <=> Agree(x, t, i)
    BY <1>4, <2>1, PrefixIs
  <2>3. ASSUME Agree(x, t, i) PROVE i <= Len(t) /\ Agree(s, t, i - 1) /\ t[i] = d
    <3>1. x[i] = t[i]
      BY <2>3 DEF Agree
    <3>2. Agree(s, t, i - 1)
      BY <1>1, <1>4, <2>1, <2>3 DEF Agree
    <3> QED BY <1>4, <1>5, <2>3, <3>1, <3>2 DEF Agree
  <2>4. ASSUME i <= Len(t), Agree(s, t, i - 1), t[i] = d PROVE Agree(x, t, i)
    <3>1. ASSUME NEW j \in 1 .. i PROVE x[j] = t[j]
      <4>1. CASE j = i
        BY <1>4, <1>5, <2>4, <4>1
      <4>2. CASE j # i
        BY <1>4, <2>4, <4>2 DEF Agree
      <4> QED BY <4>1, <4>2
    <3> QED BY <2>1, <2>4, <3>1 DEF Agree
  <2> QED BY <2>2, <2>3, <2>4
<1> QED BY <1>4, <1>5, <1>6 DEF LeavesAt

LEMMA WithinIs ==
  ASSUME NEW root, Places(root.at), NEW place \in Seq(Directions)
  PROVE  Within(root, place) = {p \in DOMAIN root.at : Agree(place, root.at[p], Len(place))}
BY PrefixIs DEF Within, Panes, Places

\* TreeIsWhole says it of the sequences of branches.
LEMMA WholeIs ==
  ASSUME NEW root, Places(root.at)
  PROVE  TreeIsWhole(root) <=> Whole(root.at)
<1> DEFINE at == root.at
           side(p, i) == Append(SubSeq(at[p], 1, i - 1), Opposite[at[p][i]])
<1>1. /\ \A p \in DOMAIN at : at[p] \in Seq(Directions) /\ Len(at[p]) \in Nat
      /\ \A p \in DOMAIN at : DOMAIN at[p] = 1 .. Len(at[p])
      /\ \A p \in DOMAIN at : \A i \in 1 .. Len(at[p]) : at[p][i] \in Directions
  BY PlaceIs, LenProperties DEF Places
<1>2. \A p, q \in DOMAIN at : IsPrefix(at[p], at[q]) <=> Agree(at[p], at[q], Len(at[p]))
  BY <1>1, PrefixIs
<1>3. ASSUME NEW p \in DOMAIN at, NEW i \in 1 .. Len(at[p])
      PROVE  Within(root, side(p, i)) = {r \in DOMAIN at :
                /\ i <= Len(at[r]) /\ Agree(at[p], at[r], i - 1)
                /\ at[r][i] = Opposite[at[p][i]]}
  <2>1. Opposite[at[p][i]] \in Directions
    BY <1>1, OppositeIs
  <2>2. PICK x : x = side(p, i)
    OBVIOUS
  <2>3. \A t \in Seq(Directions) :
          IsPrefix(x, t) <=> i <= Len(t) /\ Agree(at[p], t, i - 1) /\ t[i] = Opposite[at[p][i]]
    <3>1. PICK s, d : s = at[p] /\ d = Opposite[at[p][i]]
      OBVIOUS
    <3>2. s \in Seq(Directions) /\ d \in Directions /\ i \in 1 .. Len(s)
      BY <1>1, <2>1, <3>1
    <3>3. x = Append(SubSeq(s, 1, i - 1), d)
      BY <2>2, <3>1
    <3>4. LeavesAt(x, s, i, d)
      BY <3>2, <3>3, BranchOff
    <3> QED BY <3>1, <3>4 DEF LeavesAt
  <2> HIDE DEF side
  <2> QED BY <1>1, <2>2, <2>3 DEF Within, Panes
<1>4. \A p, q \in DOMAIN at : \A i \in 1 .. Len(at[p]) : i <= Len(at[q])
        => (SubSeq(at[p], 1, i - 1) = SubSeq(at[q], 1, i - 1) <=> Agree(at[p], at[q], i - 1))
  <2> SUFFICES ASSUME NEW p \in DOMAIN at, NEW q \in DOMAIN at, NEW i \in 1 .. Len(at[p]),
                      i <= Len(at[q])
               PROVE  SubSeq(at[p], 1, i - 1) = SubSeq(at[q], 1, i - 1)
                        <=> Agree(at[p], at[q], i - 1)
    OBVIOUS
  <2>1. i - 1 \in Nat /\ i - 1 <= Len(at[p]) /\ i - 1 <= Len(at[q])
    BY <1>1
  <2> QED BY <1>1, <2>1, SamePrefix
<1>5. ASSUME NEW p \in DOMAIN at, NEW q \in DOMAIN at, NEW i \in 1 .. Len(at[p])
      PROVE  i \in 1 .. Len(at[q]) <=> i <= Len(at[q])
  BY <1>1
<1>6. TreeIsWhole(root) <=>
        /\ \A p, q \in DOMAIN at : IsPrefix(at[p], at[q]) => p = q
        /\ \A p \in DOMAIN at : \A i \in 1 .. Len(at[p]) : Within(root, side(p, i)) # {}
        /\ \A p, q \in DOMAIN at : \A i \in 1 .. Len(at[p]) : i \in 1 .. Len(at[q])
             => (SubSeq(at[p], 1, i - 1) = SubSeq(at[q], 1, i - 1)
                   => at[q][i] \in {at[p][i], Opposite[at[p][i]]})
  <2>1. TreeIsWhole(root) <=> \A p, q \in DOMAIN at :
          /\ IsPrefix(at[p], at[q]) => p = q
          /\ \A i \in DOMAIN at[p] : Within(root, side(p, i)) # {}
          /\ \A i \in DOMAIN at[p] \cap DOMAIN at[q] :
               SubSeq(at[p], 1, i - 1) = SubSeq(at[q], 1, i - 1)
                 => at[q][i] \in {at[p][i], Opposite[at[p][i]]}
    BY DEF TreeIsWhole, Panes
  <2> HIDE DEF side, at
  <2>2. ASSUME NEW p \in DOMAIN at, NEW q \in DOMAIN at, NEW i
        PROVE  i \in DOMAIN at[p] \cap DOMAIN at[q]
                 <=> i \in 1 .. Len(at[p]) /\ i \in 1 .. Len(at[q])
    BY <1>1
  <2>3. (\A p, q \in DOMAIN at : \A i \in DOMAIN at[p] \cap DOMAIN at[q] :
               SubSeq(at[p], 1, i - 1) = SubSeq(at[q], 1, i - 1)
                 => at[q][i] \in {at[p][i], Opposite[at[p][i]]})
        <=> \A p, q \in DOMAIN at : \A i \in 1 .. Len(at[p]) : i \in 1 .. Len(at[q])
             => (SubSeq(at[p], 1, i - 1) = SubSeq(at[q], 1, i - 1)
                   => at[q][i] \in {at[p][i], Opposite[at[p][i]]})
    BY <2>2
  <2>4. (\A p, q \in DOMAIN at : \A i \in DOMAIN at[p] : Within(root, side(p, i)) # {})
        <=> \A p \in DOMAIN at : \A i \in 1 .. Len(at[p]) : Within(root, side(p, i)) # {}
    BY <1>1
  <2> QED BY <2>1, <2>3, <2>4
<1> HIDE DEF side
<1>7. Leaves(at) <=> \A p, q \in DOMAIN at : IsPrefix(at[p], at[q]) => p = q
  BY <1>2 DEF Leaves
<1>8. Siblings(at)
        <=> \A p \in DOMAIN at : \A i \in 1 .. Len(at[p]) : Within(root, side(p, i)) # {}
  BY <1>3 DEF Siblings
<1>9. Binary(at)
        <=> \A p, q \in DOMAIN at : \A i \in 1 .. Len(at[p]) : i \in 1 .. Len(at[q])
             => (SubSeq(at[p], 1, i - 1) = SubSeq(at[q], 1, i - 1)
                   => at[q][i] \in {at[p][i], Opposite[at[p][i]]})
  <2> HIDE DEF at
  <2> QED BY <1>4, <1>5 DEF Binary
<1> QED BY <1>6, <1>7, <1>8, <1>9 DEF Whole

-----------------------------------------------------------------------------
(* Reading order *)

\* s turns left or up where t turns right or down.
Parts(s, t, i) ==
  /\ i \in Nat /\ 1 <= i /\ i <= Len(s) /\ i <= Len(t) /\ Agree(s, t, i - 1)
  /\ s[i] \in ComesFirst /\ t[i] \notin ComesFirst

LEMMA PrecedesIs ==
  ASSUME NEW s \in Seq(Directions), NEW t \in Seq(Directions)
  PROVE  Precedes(s, t) <=> \E i : Parts(s, t, i)
<1>1. /\ Len(s) \in Nat /\ Len(t) \in Nat /\ DOMAIN s = 1 .. Len(s) /\ DOMAIN t = 1 .. Len(t)
  BY LenProperties
<1>2. ASSUME NEW i, i \in Nat, 1 <= i, i <= Len(s), i <= Len(t)
      PROVE  SubSeq(s, 1, i - 1) = SubSeq(t, 1, i - 1) <=> Agree(s, t, i - 1)
  <2>1. i - 1 \in Nat /\ i - 1 <= Len(s) /\ i - 1 <= Len(t)
    BY <1>1, <1>2
  <2> QED BY <2>1, SamePrefix
<1>3. \A i : i \in DOMAIN s \cap DOMAIN t
        <=> i \in Nat /\ 1 <= i /\ i <= Len(s) /\ i <= Len(t)
  BY <1>1
<1> QED BY <1>2, <1>3 DEF Precedes, Parts

LEMMA PrecedesIsStrict ==
  ASSUME NEW s \in Seq(Directions)
  PROVE  ~Precedes(s, s)
BY PrecedesIs DEF Parts

LEMMA PrecedesFollows ==
  ASSUME NEW s \in Seq(Directions), NEW t \in Seq(Directions), NEW u \in Seq(Directions),
         Precedes(s, t), Precedes(t, u)
  PROVE  Precedes(s, u)
<1>1. Len(s) \in Nat /\ Len(t) \in Nat /\ Len(u) \in Nat
  BY LenProperties
<1>2. PICK i : Parts(s, t, i)
  BY PrecedesIs
<1>3. PICK j : Parts(t, u, j)
  BY PrecedesIs
<1>4. i \in Nat /\ 1 <= i /\ j \in Nat /\ 1 <= j
  BY <1>2, <1>3 DEF Parts
<1>5. i # j
  BY <1>2, <1>3 DEF Parts
<1>6. CASE i < j
  <2>1. Agree(s, u, i - 1)
    BY <1>1, <1>2, <1>3, <1>4, <1>6 DEF Parts, Agree
  <2>2. u[i] = t[i]
    BY <1>1, <1>3, <1>4, <1>6 DEF Parts, Agree
  <2>3. Parts(s, u, i)
    BY <1>1, <1>2, <1>3, <1>4, <1>6, <2>1, <2>2 DEF Parts
  <2> QED BY <2>3, PrecedesIs
<1>7. CASE j < i
  <2>1. Agree(s, u, j - 1)
    BY <1>1, <1>2, <1>3, <1>4, <1>7 DEF Parts, Agree
  <2>2. s[j] = t[j]
    BY <1>1, <1>2, <1>4, <1>7 DEF Parts, Agree
  <2>3. Parts(s, u, j)
    BY <1>1, <1>2, <1>3, <1>4, <1>7, <2>1, <2>2 DEF Parts
  <2> QED BY <2>3, PrecedesIs
<1> QED BY <1>4, <1>5, <1>6, <1>7

LEMMA PrecedesDecides ==
  ASSUME NEW at, Places(at), Whole(at), NEW p \in DOMAIN at, NEW q \in DOMAIN at, p # q
  PROVE  Precedes(at[p], at[q]) \/ Precedes(at[q], at[p])
<1> DEFINE S == {i \in Nat : /\ 1 <= i /\ i <= Len(at[p]) /\ i <= Len(at[q])
                             /\ at[p][i] # at[q][i]}
<1>1. /\ at[p] \in Seq(Directions) /\ Len(at[p]) \in Nat
      /\ at[q] \in Seq(Directions) /\ Len(at[q]) \in Nat
      /\ \A i \in 1 .. Len(at[p]) : at[p][i] \in Directions
  BY PlaceIs DEF Places
<1>2. S # {}
  <2>1. SUFFICES ASSUME S = {}
                 PROVE  FALSE
    OBVIOUS
  <2>2. \A i \in Nat : 1 <= i /\ i <= Len(at[p]) /\ i <= Len(at[q]) => at[p][i] = at[q][i]
    BY <2>1
  <2>3. CASE Len(at[p]) <= Len(at[q])
    <3>1. Agree(at[p], at[q], Len(at[p]))
      BY <1>1, <2>2, <2>3 DEF Agree
    <3> QED BY <3>1 DEF Whole, Leaves
  <2>4. CASE ~(Len(at[p]) <= Len(at[q]))
    <3>1. Agree(at[q], at[p], Len(at[q]))
      BY <1>1, <2>2, <2>4 DEF Agree
    <3> QED BY <3>1 DEF Whole, Leaves
  <2> QED BY <2>3, <2>4
<1>3. PICK i \in S : \A j \in S : i <= j
  BY <1>2, SmallestNat
<1>4. i \in Nat /\ 1 <= i /\ i <= Len(at[p]) /\ i <= Len(at[q]) /\ at[p][i] # at[q][i]
  OBVIOUS
<1>5. \A j \in 1 .. i - 1 : at[p][j] = at[q][j]
  <2>1. SUFFICES ASSUME NEW j \in 1 .. i - 1, at[p][j] # at[q][j]
                 PROVE  FALSE
    OBVIOUS
  <2>2. j \in S /\ ~(i <= j)
    BY <1>1, <1>4, <2>1
  <2> QED BY <1>3, <2>2
<1> HIDE DEF S
<1>6. Agree(at[p], at[q], i - 1) /\ Agree(at[q], at[p], i - 1)
  BY <1>1, <1>4, <1>5 DEF Agree
<1>7. at[q][i] = Opposite[at[p][i]] /\ at[p][i] \in Directions
  BY <1>1, <1>4, <1>6 DEF Whole, Binary
<1>8. (at[p][i] \in ComesFirst) # (at[q][i] \in ComesFirst)
  BY <1>7, OppositeIs
<1>9. Parts(at[p], at[q], i) \/ Parts(at[q], at[p], i)
  BY <1>4, <1>6, <1>8 DEF Parts
<1> QED BY <1>1, <1>9, PrecedesIs

\* A subtree that holds a pane has a first one.
LEMMA FirstPaneIs ==
  ASSUME NEW root, Places(root.at), Whole(root.at), IsFiniteSet(DOMAIN root.at),
         NEW place \in Seq(Directions), Within(root, place) # {}
  PROVE  FirstPane(root, place) \in Within(root, place)
<1> DEFINE at == root.at
           W == Within(root, place)
           order == {pair \in W \X W : Precedes(at[pair[1]], at[pair[2]])}
<1>1. W = {p \in DOMAIN at : Agree(place, at[p], Len(place))} /\ Len(place) \in Nat
  BY WithinIs, LenProperties
<1>2. IsFiniteSet(W) /\ W \subseteq DOMAIN at
  BY <1>1, FS_Subset
<1>3. \A p, q \in W : <<p, q>> \in order <=> Precedes(at[p], at[q])
  OBVIOUS
<1>4. \A p \in DOMAIN at : at[p] \in Seq(Directions) /\ Len(at[p]) \in Nat
  BY PlaceIs DEF Places
<1> HIDE DEF order
<1>5. Orders(order, W)
  <2>1. \A p \in W : <<p, p>> \notin order
    BY <1>2, <1>3, <1>4, PrecedesIsStrict
  <2>2. \A p, q, r \in W : <<p, q>> \in order /\ <<q, r>> \in order => <<p, r>> \in order
    BY <1>2, <1>3, <1>4, PrecedesFollows
  <2>3. \A p, q \in W : p = q \/ <<p, q>> \in order \/ <<q, p>> \in order
    <3> HIDE DEF W
    <3> QED BY <1>2, <1>3, PrecedesDecides
  <2> QED BY <2>1, <2>2, <2>3 DEF Orders
<1>6. Cardinality(W) \in Nat /\ Lists(InOrder(W, order), W, order)
  BY <1>2, <1>5, InOrderLists
<1>7. 1 \in 1 .. Cardinality(W)
  <2>1. Cardinality(W) # 0
    BY <1>2, FS_EmptySet
  <2> QED BY <1>6, <2>1
<1> DEFINE p == InOrder(W, order)[1]
<1>8. p \in W /\ Cardinality(Below(p, W, order)) = 0
  BY <1>6, <1>7 DEF Lists
<1> HIDE DEF p
<1>9. \A q \in W : ~Precedes(at[q], at[p])
  <2>1. Below(p, W, order) \subseteq W
    BY DEF Below
  <2>2. IsFiniteSet(Below(p, W, order))
    BY <1>2, <2>1, FS_Subset
  <2>3. Below(p, W, order) = {}
    BY <1>8, <2>2, FS_EmptySet
  <2> QED BY <1>3, <1>8, <2>3 DEF Below
<1>10. \A i \in (Len(place) + 1) .. Len(at[p]) : at[p][i] \in ComesFirst
  <2>1. SUFFICES ASSUME NEW i \in (Len(place) + 1) .. Len(at[p]), at[p][i] \notin ComesFirst
                 PROVE  FALSE
    OBVIOUS
  <2>2. p \in DOMAIN at /\ Agree(place, at[p], Len(place)) /\ i \in 1 .. Len(at[p])
    BY <1>1, <1>4, <1>8
  <2>3. PICK r \in DOMAIN at : /\ i <= Len(at[r]) /\ Agree(at[p], at[r], i - 1)
                               /\ at[r][i] = Opposite[at[p][i]]
    BY <2>2 DEF Whole, Siblings
  <2>4. Len(place) <= i - 1 /\ i - 1 \in Nat
    BY <1>1, <2>2
  <2>5. Agree(place, at[r], Len(place))
    BY <1>1, <1>4, <2>2, <2>3, <2>4 DEF Agree
  <2>6. at[r][i] \in ComesFirst
    BY <2>1, <2>2, <2>3, PlaceIs, OppositeIs
  <2>7. Parts(at[r], at[p], i)
    BY <1>4, <2>1, <2>2, <2>3, <2>6 DEF Parts, Agree
  <2>8. Precedes(at[r], at[p])
    BY <1>4, <2>2, <2>7, PrecedesIs
  <2> QED BY <1>1, <1>9, <2>5, <2>8
<1> QED BY <1>8, <1>10 DEF FirstPane

-----------------------------------------------------------------------------
(* What the operations make of a tree *)

Maps(S) == UNION {[P -> S] : P \in SUBSET Pane}
Root(root) ==
  /\ root \in [at : Maps(Seq(Directions)), front : Maps(Tab \cup {Nobody})]
  /\ DOMAIN root.front = DOMAIN root.at
  /\ DOMAIN root.at # {} /\ IsFiniteSet(DOMAIN root.at)
  /\ Whole(root.at)

LEMMA RootIs ==
  ASSUME NEW root, Root(root)
  PROVE  /\ Panes(root) = DOMAIN root.at /\ Panes(root) \subseteq Pane
         /\ Panes(root) # {} /\ IsFiniteSet(Panes(root))
         /\ Places(root.at) /\ Whole(root.at)
         /\ DOMAIN root.front = Panes(root)
         /\ \A p \in Panes(root) : root.front[p] \in Tab \cup {Nobody}
BY DEF Root, Maps, Panes, Places

LEMMA RootMade ==
  ASSUME NEW P \in SUBSET Pane, P # {}, IsFiniteSet(P), NEW at, NEW front,
         at = [p \in P |-> at[p]], front = [p \in P |-> front[p]],
         Places(at), Whole(at), \A p \in P : front[p] \in Tab \cup {Nobody}
  PROVE  Root([at |-> at, front |-> front])
<1>1. at \in [P -> Seq(Directions)] /\ front \in [P -> Tab \cup {Nobody}]
  BY DEF Places
<1>2. at \in Maps(Seq(Directions)) /\ front \in Maps(Tab \cup {Nobody})
  BY <1>1 DEF Maps
<1>3. DOMAIN at = P /\ DOMAIN front = P
  BY <1>1
<1> QED BY <1>2, <1>3 DEF Root

LEMMA OnePaneIs ==
  ASSUME NEW p \in Pane
  PROVE  /\ Root(OnePane(p)) /\ Panes(OnePane(p)) = {p} /\ OnePane(p).front[p] = Nobody
<1> DEFINE at == [q \in {p} |-> <<>>]
           front == [q \in {p} |-> Nobody]
<1>1. at[p] = <<>> /\ front[p] = Nobody /\ DOMAIN at = {p}
  OBVIOUS
<1>2. Len(<<>>) = 0 /\ <<>> \in Seq(Directions)
  BY EmptySeq
<1>3. Places(at)
  BY <1>1, <1>2 DEF Places
<1>4. Whole(at)
  BY <1>1, <1>2 DEF Whole, Leaves, Siblings, Binary
<1>5. {p} # {} /\ IsFiniteSet({p}) /\ at = [q \in {p} |-> at[q]] /\ front = [q \in {p} |-> front[q]]
  BY FS_Singleton
<1> HIDE DEF at, front
<1>6. Root([at |-> at, front |-> front])
  BY <1>1, <1>3, <1>4, <1>5, RootMade
<1> QED BY <1>1, <1>6 DEF OnePane, Panes, at, front

LEMMA SetFrontIs ==
  ASSUME NEW root, Root(root), NEW p \in Panes(root), NEW id \in Tab \cup {Nobody}
  PROVE  /\ Root(SetFront(root, p, id)) /\ SetFront(root, p, id).at = root.at
         /\ Panes(SetFront(root, p, id)) = Panes(root)
         /\ \A q \in Panes(root) :
              SetFront(root, p, id).front[q] = IF q = p THEN id ELSE root.front[q]
<1> DEFINE r == SetFront(root, p, id)
<1>1. root = [at |-> root.at, front |-> root.front] /\ DOMAIN root.front = Panes(root)
  BY RootIs DEF Root
<1>2. r = [at |-> root.at, front |-> [q \in Panes(root) |-> IF q = p THEN id ELSE root.front[q]]]
  BY <1>1 DEF SetFront
<1> DEFINE front == [q \in Panes(root) |-> IF q = p THEN id ELSE root.front[q]]
<1>3. front = [q \in Panes(root) |-> front[q]] /\ root.at = [q \in Panes(root) |-> root.at[q]]
  BY RootIs DEF Root, Maps, Panes
<1>4. \A q \in Panes(root) : front[q] \in Tab \cup {Nobody}
  BY RootIs
<1>5. \A q \in Panes(root) : front[q] = IF q = p THEN id ELSE root.front[q]
  OBVIOUS
<1> HIDE DEF front
<1>6. Root([at |-> root.at, front |-> front])
  BY <1>3, <1>4, RootIs, RootMade
<1>7. r = [at |-> root.at, front |-> front]
  BY <1>2 DEF front
<1> QED BY <1>5, <1>6, <1>7 DEF Panes

LEMMA InsertSplitIs ==
  ASSUME NEW root, Root(root), NEW p \in Panes(root), NEW d \in Directions,
         NEW new \in Pane, new \notin Panes(root)
  PROVE  /\ Root(InsertSplit(root, p, d, new))
         /\ Panes(InsertSplit(root, p, d, new)) = Panes(root) \union {new}
         /\ \A q \in Panes(root) \union {new} :
              InsertSplit(root, p, d, new).front[q] = IF q = new THEN Nobody ELSE root.front[q]
<1> DEFINE P == Panes(root) \cup {new}
           at == [q \in P |-> CASE q = new -> Append(root.at[p], d)
                                [] q = p -> Append(root.at[p], Opposite[d])
                                [] OTHER -> root.at[q]]
           front == [q \in P |-> IF q = new THEN Nobody ELSE root.front[q]]
<1>1. InsertSplit(root, p, d, new) = [at |-> at, front |-> front]
  BY DEF InsertSplit
<1>2. /\ at[new] = Append(root.at[p], d) /\ at[p] = Append(root.at[p], Opposite[d])
      /\ \A q \in Panes(root) : q # p => at[q] = root.at[q]
      /\ DOMAIN at = DOMAIN root.at \union {new}
      /\ \A q \in P : front[q] = IF q = new THEN Nobody ELSE root.front[q]
      /\ at = [q \in P |-> at[q]] /\ front = [q \in P |-> front[q]] /\ DOMAIN at = P
  BY DEF Panes
<1> HIDE DEF at, front
<1>3. root.at[p] \in Seq(Directions) /\ Opposite[d] \in Directions
  BY RootIs, OppositeIs DEF Places
<1>4. Grown(at[new], root.at[p], d)
  BY <1>2, <1>3, AppendProperties DEF Grown
<1>5. Grown(at[p], root.at[p], Opposite[d])
  BY <1>2, <1>3, AppendProperties DEF Grown
<1>6. Places(at) /\ Whole(at)
  <2>1. /\ Places(root.at) /\ Whole(root.at) /\ p \in DOMAIN root.at
        /\ new \notin DOMAIN root.at /\ Panes(root) = DOMAIN root.at
    BY RootIs
  <2>2. \A q \in DOMAIN root.at : q # p => at[q] = root.at[q]
    BY <1>2, <2>1
  <2> QED BY <1>2, <1>4, <1>5, <2>1, <2>2, SplitIsWhole
<1>7. P \in SUBSET Pane /\ P # {} /\ IsFiniteSet(P)
  BY RootIs, FS_AddElement
<1>8. \A q \in P : front[q] \in Tab \cup {Nobody}
  BY <1>2, RootIs
<1> HIDE DEF P
<1>9. Root([at |-> at, front |-> front])
  BY <1>2, <1>6, <1>7, <1>8, RootMade
<1>10. PICK r : r = InsertSplit(root, p, d, new)
  OBVIOUS
<1>11. Root(r) /\ r.at = at /\ r.front = front
  BY <1>1, <1>9, <1>10
<1>12. Panes(r) = P
  BY <1>2, <1>11 DEF Panes
<1> QED BY <1>2, <1>10, <1>11, <1>12 DEF P

\* What the branch that is left behind becomes.
LEMMA LiftedIs ==
  ASSUME NEW s \in Seq(Directions), Len(s) >= 1, NEW t \in Seq(Directions),
         Agree(s, t, Len(s) - 1) => Len(s) <= Len(t)
  PROVE  IF Agree(s, t, Len(s) - 1) THEN Shrunk(Lifted(t, Front(s)), t, Len(s))
                                    ELSE Lifted(t, Front(s)) = t
<1>0. PICK L : L = Len(s)
  OBVIOUS
<1> DEFINE a == Front(s)
           b == SubSeq(t, L + 1, Len(t))
<1>1. /\ L \in Nat /\ L >= 1 /\ Len(t) \in Nat
      /\ \A j \in 1 .. L : s[j] \in Directions
      /\ \A j \in 1 .. Len(t) : t[j] \in Directions
  BY <1>0, LenProperties, ElementOfSeq
<1>2. a \in Seq(Directions) /\ Len(a) = L - 1 /\ \A j \in 1 .. L - 1 : a[j] = s[j]
  <2>1. \A j \in 1 .. L - 1 : s[j] \in Directions
    BY <1>1
  <2>2. /\ a \in Seq(Directions)
        /\ Len(a) = IF 1 <= L - 1 THEN L - 1 - 1 + 1 ELSE 0
        /\ \A j \in 1 .. L - 1 - 1 + 1 : a[j] = s[1 + j - 1]
    BY <1>0, <1>1, <2>1, SubSeqProperties DEF Front
  <2>3. L - 1 - 1 + 1 = L - 1 /\ (~(1 <= L - 1) => L - 1 = 0) /\ \A j \in 1 .. L - 1 : 1 + j - 1 = j
    BY <1>1
  <2> HIDE DEF a
  <2> QED BY <2>2, <2>3
<1> HIDE DEF a
<1>3. IsPrefix(a, t) <=> Agree(s, t, L - 1)
  <2>1. IsPrefix(a, t) <=> Agree(a, t, Len(a))
    BY <1>2, PrefixIs
  <2> QED BY <1>0, <1>1, <1>2, <2>1 DEF Agree
<1>4. CASE ~Agree(s, t, L - 1)
  BY <1>0, <1>3, <1>4 DEF Lifted, a
<1>5. CASE Agree(s, t, L - 1)
  <2>1. L <= Len(t)
    BY <1>0, <1>5
  <2>2. b \in Seq(Directions) /\ Len(b) = Len(t) - L /\ \A j \in 1 .. Len(t) - L : b[j] = t[L + j]
    <3>1. \A j \in L + 1 .. Len(t) : t[j] \in Directions
      BY <1>1
    <3>2. /\ b \in Seq(Directions)
          /\ Len(b) = IF L + 1 <= Len(t) THEN Len(t) - (L + 1) + 1 ELSE 0
          /\ \A j \in 1 .. Len(t) - (L + 1) + 1 : b[j] = t[L + 1 + j - 1]
      BY <1>1, <3>1, SubSeqProperties
    <3>3. /\ Len(t) - (L + 1) + 1 = Len(t) - L /\ (~(L + 1 <= Len(t)) => Len(t) - L = 0)
          /\ \A j \in 1 .. Len(t) - L : L + 1 + j - 1 = L + j
      BY <1>1, <2>1
    <3> HIDE DEF b
    <3> QED BY <3>2, <3>3
  <2>3. (Len(a) + 1) = L /\ Len(a) + 2 = L + 1
    BY <1>1, <1>2
  <2>4. Lifted(t, a) = a \o b
    BY <1>3, <1>5, <2>3 DEF Lifted
  <2> HIDE DEF b
  <2>5. /\ a \o b \in Seq(Directions) /\ Len(a \o b) = Len(a) + Len(b)
        /\ \A i \in 1 .. Len(a) + Len(b) :
             (a \o b)[i] = IF i <= Len(a) THEN a[i] ELSE b[i - Len(a)]
    <3>1. a \in Seq(Directions) /\ b \in Seq(Directions)
      BY <1>2, <2>2
    <3> QED BY ONLY <3>1, ConcatProperties
  <2>6. Len(a) + Len(b) = Len(t) - 1
    BY <1>1, <1>2, <2>2
  <2>7. ASSUME NEW j \in 1 .. Len(t) - 1
        PROVE  (a \o b)[j] = IF j < L THEN t[j] ELSE t[j + 1]
    <3>1. CASE j < L
      BY <1>1, <1>2, <1>5, <2>5, <2>6, <3>1 DEF Agree
    <3>2. CASE ~(j < L)
      <4>1. j - (L - 1) \in 1 .. Len(t) - L /\ L + (j - (L - 1)) = j + 1
        BY <1>1, <2>1, <3>2
      <4>2. j \in 1 .. Len(a) + Len(b) /\ ~(j <= Len(a)) /\ j - Len(a) = j - (L - 1)
        BY <1>1, <1>2, <2>6, <3>2
      <4>3. (a \o b)[j] = b[j - (L - 1)]
        BY <2>5, <4>2
      <4>4. b[j - (L - 1)] = t[j + 1]
        BY <2>2, <4>1
      <4> QED BY <3>2, <4>3, <4>4
    <3> QED BY <3>1, <3>2
  <2> QED BY <1>0, <1>5, <2>4, <2>5, <2>6, <2>7 DEF Shrunk, a
<1> QED BY <1>0, <1>4, <1>5

LEMMA RemovePaneIs ==
  ASSUME NEW root, Root(root), NEW p \in Panes(root), Panes(root) # {p}
  PROVE  /\ Root(RemovePane(root, p)) /\ Panes(RemovePane(root, p)) = Panes(root) \ {p}
         /\ \A q \in Panes(root) \ {p} : RemovePane(root, p).front[q] = root.front[q]
<1> DEFINE P == Panes(root) \ {p}
           at == [q \in P |-> Lifted(root.at[q], Front(root.at[p]))]
           front == Restrict(root.front, P)
<1>1. RemovePane(root, p) = [at |-> at, front |-> front]
  BY DEF RemovePane
<1>2. /\ \A q \in P : at[q] = Lifted(root.at[q], Front(root.at[p]))
      /\ at = [q \in P |-> at[q]] /\ front = [q \in P |-> front[q]]
      /\ DOMAIN at = P /\ \A q \in P : front[q] = root.front[q]
  BY DEF Restrict
<1> HIDE DEF at, front
<1>3. /\ Places(root.at) /\ Whole(root.at) /\ p \in DOMAIN root.at /\ DOMAIN root.at # {p}
      /\ P = DOMAIN root.at \ {p}
      /\ \A q \in DOMAIN root.at : root.at[q] \in Seq(Directions)
  BY RootIs DEF Places
<1>4. /\ Len(root.at[p]) >= 1
      /\ \A q \in DOMAIN root.at : q # p /\ Agree(root.at[p], root.at[q], Len(root.at[p]) - 1)
              => Len(root.at[p]) <= Len(root.at[q])
  BY <1>3, OtherSide
<1>5. \A q \in P : IF Agree(root.at[p], root.at[q], Len(root.at[p]) - 1)
                   THEN Shrunk(at[q], root.at[q], Len(root.at[p])) ELSE at[q] = root.at[q]
  BY <1>2, <1>3, <1>4, LiftedIs
<1>6. Places(at) /\ Whole(at)
  <2>1. DOMAIN at = DOMAIN root.at \ {p}
    BY <1>2, <1>3
  <2>2. \A q \in DOMAIN at : IF Agree(root.at[p], root.at[q], Len(root.at[p]) - 1)
                   THEN Shrunk(at[q], root.at[q], Len(root.at[p])) ELSE at[q] = root.at[q]
    BY <1>2, <1>5
  <2> QED BY ONLY <1>3, <2>1, <2>2, RemovalIsWhole
<1>7. P \in SUBSET Pane /\ P # {} /\ IsFiniteSet(P)
  BY RootIs, FS_Subset
<1>8. \A q \in P : front[q] \in Tab \cup {Nobody}
  BY <1>2, RootIs
<1> HIDE DEF P
<1>9. Root([at |-> at, front |-> front])
  BY <1>2, <1>6, <1>7, <1>8, RootMade
<1> QED BY <1>1, <1>2, <1>9 DEF Panes, P

\* A pane on the other side of the split gets the focus.
LEMMA FocusAfterIs ==
  ASSUME NEW root, Root(root), NEW p \in Panes(root), Panes(root) # {p}
  PROVE  FocusAfter(root, p) \in Panes(root) \ {p}
<1> DEFINE at == root.at
           x == SiblingOf(root, p)
<1>1. /\ Places(at) /\ Whole(at) /\ p \in DOMAIN at /\ DOMAIN at # {p}
      /\ IsFiniteSet(DOMAIN at) /\ Panes(root) = DOMAIN at
      /\ \A q \in DOMAIN at : at[q] \in Seq(Directions)
  BY RootIs DEF Places
<1>2. /\ Len(at[p]) >= 1 /\ Len(at[p]) \in Nat
      /\ \A q \in DOMAIN at : q # p /\ Agree(at[p], at[q], Len(at[p]) - 1)
              => /\ Len(at[p]) <= Len(at[q])
                 /\ at[q][Len(at[p])] = Opposite[at[p][Len(at[p])]]
      /\ \E q \in DOMAIN at : q # p /\ Agree(at[p], at[q], Len(at[p]) - 1)
  BY <1>1, OtherSide, PlaceIs
<1>3. PICK s, i, d : s = at[p] /\ i = Len(at[p]) /\ d = Opposite[at[p][Len(at[p])]]
  OBVIOUS
<1>4. s \in Seq(Directions) /\ i \in 1 .. Len(s) /\ d \in Directions /\ d # at[p][i]
  BY <1>1, <1>2, <1>3, PlaceIs, OppositeIs
<1>5. x = Append(SubSeq(s, 1, i - 1), d)
  BY <1>3 DEF SiblingOf, Front, Last
<1> HIDE DEF x
<1>6. x \in Seq(Directions) /\ LeavesAt(x, s, i, d)
  BY <1>4, <1>5, BranchOff
<1>7. \A q \in DOMAIN at : q \in Within(root, x)
        <=> i <= Len(at[q]) /\ Agree(s, at[q], i - 1) /\ at[q][i] = d
  BY <1>1, <1>6 DEF Within, Panes, LeavesAt
<1>8. Within(root, x) # {} /\ p \notin Within(root, x) /\ Within(root, x) \subseteq Panes(root)
  BY <1>1, <1>2, <1>3, <1>4, <1>7 DEF Within
<1>9. FirstPane(root, x) \in Within(root, x)
  BY <1>1, <1>6, <1>8, FirstPaneIs
<1> QED BY <1>8, <1>9 DEF FocusAfter, x

LEMMA FirstOfAll ==
  ASSUME NEW root, Root(root)
  PROVE  FirstPane(root, <<>>) \in Panes(root)
<1>1. <<>> \in Seq(Directions) /\ Len(<<>>) = 0
  BY EmptySeq
<1>2. /\ Places(root.at) /\ Whole(root.at) /\ IsFiniteSet(DOMAIN root.at)
      /\ Panes(root) = DOMAIN root.at /\ Panes(root) # {}
  BY RootIs
<1>3. Within(root, <<>>) = {p \in DOMAIN root.at : Agree(<<>>, root.at[p], Len(<<>>))}
  BY <1>1, <1>2, WithinIs
<1>4. \A p \in DOMAIN root.at : Agree(<<>>, root.at[p], Len(<<>>))
  BY <1>1, <1>2, PlaceIs DEF Agree
<1>5. Within(root, <<>>) = Panes(root)
  BY <1>2, <1>3, <1>4
<1> QED BY <1>1, <1>2, <1>5, FirstPaneIs

-----------------------------------------------------------------------------
(* Lists of tabs *)

TabRecord == [id : Tab, pane : Pane, pinned : BOOLEAN, session : BOOLEAN,
              editors : 0 .. MaxSize, shown : BOOLEAN]
Distinct(tabs) == \A i, j \in DOMAIN tabs : tabs[i].id = tabs[j].id => i = j
Grouped(tabs) ==
  \A i, j \in DOMAIN tabs :
    tabs[i].pane = tabs[j].pane /\ i < j /\ tabs[j].pinned => tabs[i].pinned
List(tabs) == tabs \in Seq(TabRecord) /\ Distinct(tabs) /\ Grouped(tabs)

\* r is what s has at the places I, in order: its n-th was at f[n].
Picks(r, s, I, f) ==
  /\ f \in [DOMAIN r -> I]
  /\ \A n \in DOMAIN r : r[n] = s[f[n]]
  /\ \A m, n \in DOMAIN r : m < n => f[m] < f[n]
  /\ \A i \in I : \E n \in DOMAIN r : f[n] = i
  /\ \A n \in DOMAIN r : Cardinality({j \in I : j < f[n]}) = n - 1

LEMMA AtPlacesIs ==
  ASSUME NEW S, NEW s \in Seq(S), NEW I \in SUBSET (DOMAIN s)
  PROVE  AtPlaces(s, I) \in Seq(S) /\ \E f : Picks(AtPlaces(s, I), s, I, f)
<1> DEFINE order == {pair \in I \X I : pair[1] < pair[2]}
           f == InOrder(I, order)
           r == AtPlaces(s, I)
<1>1. /\ Len(s) \in Nat /\ DOMAIN s = 1 .. Len(s) /\ I \subseteq Nat
      /\ \A i \in I : s[i] \in S
  BY LenProperties, ElementOfSeq
<1>2. IsFiniteSet(I)
  <2>1. IsFiniteSet(1 .. Len(s))
    BY <1>1, FS_Interval
  <2> QED BY <1>1, <2>1, FS_Subset
<1>3. \A i, j \in I : <<i, j>> \in order <=> i < j
  OBVIOUS
<1> HIDE DEF order
<1>4. Orders(order, I)
  BY <1>1, <1>3 DEF Orders
<1>5. Cardinality(I) \in Nat /\ Lists(f, I, order)
  BY <1>2, <1>4, InOrderLists
<1>6. r = [n \in DOMAIN f |-> s[f[n]]]
  BY DEF AtPlaces, order
<1> HIDE DEF f, r
<1>7. /\ DOMAIN f = 1 .. Cardinality(I) /\ DOMAIN r = DOMAIN f
      /\ \A n \in DOMAIN f : r[n] = s[f[n]] /\ f[n] \in I
  BY <1>5, <1>6 DEF Lists
<1>8. r \in Seq(S)
  <2>1. \A n \in 1 .. Cardinality(I) : r[n] \in S
    BY <1>1, <1>7
  <2>2. r = [n \in 1 .. Cardinality(I) |-> r[n]]
    BY <1>6, <1>7
  <2> QED BY <1>5, <2>1, <2>2
<1>9. \A m, n \in DOMAIN r : m < n => f[m] < f[n]
  BY <1>3, <1>5, <1>7 DEF Lists
<1>10. \A n \in DOMAIN r : Cardinality({j \in I : j < f[n]}) = n - 1
  <2> SUFFICES ASSUME NEW n \in DOMAIN r
               PROVE  Cardinality({j \in I : j < f[n]}) = n - 1
    OBVIOUS
  <2>1. Below(f[n], I, order) = {j \in I : j < f[n]}
    BY <1>3, <1>7 DEF Below
  <2> QED BY <1>5, <1>7, <2>1 DEF Lists
<1>11. Picks(r, s, I, f)
  <2>1. f \in [DOMAIN r -> I] /\ \A i \in I : \E n \in DOMAIN r : f[n] = i
    BY <1>5, <1>7 DEF Lists
  <2> QED BY <1>7, <1>9, <1>10, <2>1 DEF Picks
<1> QED BY <1>8, <1>11 DEF r

LEMMA ListIs ==
  ASSUME NEW tabs, List(tabs)
  PROVE  /\ Len(tabs) \in Nat /\ DOMAIN tabs = 1 .. Len(tabs)
         /\ \A i \in DOMAIN tabs : tabs[i] \in TabRecord /\ tabs[i] \in ToSet(tabs)
         /\ \A tab \in ToSet(tabs) : tab \in TabRecord /\ \E i \in DOMAIN tabs : tabs[i] = tab
         /\ \A t, u \in ToSet(tabs) : t.id = u.id => t = u
         /\ Ids(tabs) = {tab.id : tab \in ToSet(tabs)}
         /\ tabs = <<>> <=> ToSet(tabs) = {}
<1>1. Len(tabs) \in Nat /\ DOMAIN tabs = 1 .. Len(tabs) /\ tabs \in Seq(TabRecord)
  BY LenProperties DEF List
<1>2. \A i \in DOMAIN tabs : tabs[i] \in TabRecord /\ tabs[i] \in ToSet(tabs)
  BY <1>1, ElementOfSeq DEF ToSet
<1>3. \A tab \in ToSet(tabs) : \E i \in DOMAIN tabs : tabs[i] = tab
  BY DEF ToSet
<1>4. \A t, u \in ToSet(tabs) : t.id = u.id => t = u
  BY <1>3 DEF List, Distinct
<1>5. Ids(tabs) = {tab.id : tab \in ToSet(tabs)}
  BY <1>2, <1>3 DEF Ids
<1>6. tabs = <<>> <=> ToSet(tabs) = {}
  <2>1. tabs = <<>> <=> Len(tabs) = 0
    BY <1>1
  <2>2. ToSet(tabs) = {} <=> DOMAIN tabs = {}
    BY DEF ToSet
  <2>3. 1 .. Len(tabs) = {} <=> Len(tabs) = 0
    <3>1. Len(tabs) # 0 => 1 \in 1 .. Len(tabs)
      BY <1>1
    <3>2. Len(tabs) = 0 => 1 .. Len(tabs) = {}
      OBVIOUS
    <3> QED BY <3>1, <3>2
  <2> QED BY <1>1, <2>1, <2>2, <2>3
<1> QED BY <1>1, <1>2, <1>3, <1>4, <1>5, <1>6

\* A part of a list is one.
LEMMA PartIs ==
  ASSUME NEW tabs, List(tabs), NEW I \in SUBSET (DOMAIN tabs)
  PROVE  List(AtPlaces(tabs, I)) /\ ToSet(AtPlaces(tabs, I)) = {tabs[i] : i \in I}
<1>1. Len(tabs) \in Nat /\ DOMAIN tabs = 1 .. Len(tabs) /\ tabs \in Seq(TabRecord)
  BY ListIs DEF List
<1>2. PICK r : r = AtPlaces(tabs, I)
  OBVIOUS
<1>3. r \in Seq(TabRecord) /\ \E f : Picks(r, tabs, I, f)
  BY <1>1, <1>2, AtPlacesIs
<1>4. PICK f : Picks(r, tabs, I, f)
  BY <1>3
<1>5. /\ \A n \in DOMAIN r : f[n] \in I /\ f[n] \in DOMAIN tabs /\ r[n] = tabs[f[n]]
      /\ DOMAIN r = 1 .. Len(r) /\ Len(r) \in Nat
      /\ \A m, n \in DOMAIN r : m < n => f[m] < f[n]
      /\ \A i \in I : \E n \in DOMAIN r : f[n] = i
  BY <1>3, <1>4, LenProperties DEF Picks
<1>6. Distinct(r)
  <2>1. \A m, n \in DOMAIN r : f[m] = f[n] => m = n
    BY <1>1, <1>5
  <2> QED BY <1>5, <2>1 DEF List, Distinct
<1>7. Grouped(r)
  BY <1>5 DEF List, Grouped
<1>8. ToSet(r) = {tabs[i] : i \in I}
  BY <1>5 DEF ToSet
<1> QED BY <1>2, <1>3, <1>6, <1>7, <1>8 DEF List

LEMMA InPaneIs ==
  ASSUME NEW tabs, List(tabs), NEW p
  PROVE  /\ List(InPane(tabs, p))
         /\ ToSet(InPane(tabs, p)) = {t \in ToSet(tabs) : t.pane = p}
         /\ Ids(InPane(tabs, p)) = {t.id : t \in {u \in ToSet(tabs) : u.pane = p}}
<1> DEFINE I == {i \in DOMAIN tabs : tabs[i].pane = p}
<1>1. List(AtPlaces(tabs, I)) /\ ToSet(AtPlaces(tabs, I)) = {tabs[i] : i \in I}
  BY PartIs
<1>2. {tabs[i] : i \in I} = {t \in ToSet(tabs) : t.pane = p}
  BY DEF ToSet
<1>3. List(InPane(tabs, p)) /\ ToSet(InPane(tabs, p)) = {t \in ToSet(tabs) : t.pane = p}
  BY <1>1, <1>2 DEF InPane
<1> QED BY <1>3, ListIs

LEMMA WithoutIs ==
  ASSUME NEW tabs, List(tabs), NEW id
  PROVE  /\ List(Without(tabs, id))
         /\ ToSet(Without(tabs, id)) = {t \in ToSet(tabs) : t.id # id}
<1> DEFINE I == {i \in DOMAIN tabs : tabs[i].id # id}
<1>1. List(AtPlaces(tabs, I)) /\ ToSet(AtPlaces(tabs, I)) = {tabs[i] : i \in I}
  BY PartIs
<1>2. {tabs[i] : i \in I} = {t \in ToSet(tabs) : t.id # id}
  BY DEF ToSet
<1> QED BY <1>1, <1>2 DEF Without

LEMMA IndexIs ==
  ASSUME NEW tabs, List(tabs), NEW id \in Ids(tabs)
  PROVE  /\ IndexOf(tabs, id) \in DOMAIN tabs /\ tabs[IndexOf(tabs, id)].id = id
         /\ IndexOf(tabs, id) \in Nat /\ IndexOf(tabs, id) >= 1
         /\ Named(tabs, id) \in ToSet(tabs) /\ Named(tabs, id).id = id
         /\ \A i \in DOMAIN tabs : tabs[i].id = id => i = IndexOf(tabs, id)
<1>1. \E i \in DOMAIN tabs : tabs[i].id = id
  BY DEF Ids
<1>2. IndexOf(tabs, id) \in DOMAIN tabs /\ tabs[IndexOf(tabs, id)].id = id
  BY <1>1 DEF IndexOf
<1> QED BY <1>2, ListIs DEF Named, List, Distinct

LEMMA NamedIs ==
  ASSUME NEW tabs, List(tabs), NEW tab \in ToSet(tabs)
  PROVE  tab.id \in Ids(tabs) /\ Named(tabs, tab.id) = tab
<1>1. tab.id \in Ids(tabs)
  BY ListIs
<1>2. Named(tabs, tab.id) \in ToSet(tabs) /\ Named(tabs, tab.id).id = tab.id
  BY <1>1, IndexIs
<1> QED BY <1>1, <1>2, ListIs

LEMMA MinIs ==
  ASSUME NEW S \in SUBSET Nat, S # {}
  PROVE  Min(S) \in S /\ \A x \in S : Min(S) <= x
BY SmallestNat DEF Min

LEMMA TakesOverIs ==
  ASSUME NEW tabs, List(tabs), NEW index \in Nat, index >= 1
  PROVE  IF tabs = <<>> THEN TakesOver(tabs, index) = Nobody
                        ELSE TakesOver(tabs, index) \in Ids(tabs)
<1>1. CASE tabs = <<>>
  BY <1>1 DEF TakesOver
<1>2. CASE tabs # <<>>
  <2>1. Len(tabs) \in Nat /\ DOMAIN tabs = 1 .. Len(tabs) /\ Len(tabs) # 0
    BY <1>2, ListIs DEF List
  <2> DEFINE S == {index, Len(tabs)}
  <2>2. S \in SUBSET Nat /\ S # {}
    BY <2>1
  <2>3. Min(S) \in S /\ \A x \in S : Min(S) <= x
    BY <2>2, MinIs
  <2>4. Min(S) \in DOMAIN tabs
    BY <2>1, <2>3
  <2>5. TakesOver(tabs, index) = tabs[Min(S)].id
    BY <1>2 DEF TakesOver
  <2> HIDE DEF S
  <2> QED BY <1>2, <2>4, <2>5 DEF Ids
<1> QED BY <1>1, <1>2

\* r is s with e put in at k.
Inserts(r, s, k, e) ==
  \A j \in 1 .. Len(s) + 1 : r[j] = IF j < k THEN s[j] ELSE IF j = k THEN e ELSE s[j - 1]

LEMMA InsertAtIs ==
  ASSUME NEW S, NEW s \in Seq(S), NEW k \in 1 .. Len(s) + 1, NEW e \in S
  PROVE  /\ InsertAt(s, k, e) \in Seq(S) /\ Len(InsertAt(s, k, e)) = Len(s) + 1
         /\ Inserts(InsertAt(s, k, e), s, k, e)
<1>1. Len(s) \in Nat /\ \A j \in 1 .. Len(s) : s[j] \in S
  BY LenProperties, ElementOfSeq
<1> DEFINE a == SubSeq(s, 1, k - 1)
           b == SubSeq(s, k, Len(s))
           c == a \o <<e>>
<1>2. a \in Seq(S) /\ Len(a) = k - 1 /\ \A j \in 1 .. k - 1 : a[j] = s[j]
  <2>1. \A j \in 1 .. k - 1 : s[j] \in S
    BY <1>1
  <2>2. /\ a \in Seq(S)
        /\ Len(a) = IF 1 <= k - 1 THEN k - 1 - 1 + 1 ELSE 0
        /\ \A j \in 1 .. k - 1 - 1 + 1 : a[j] = s[1 + j - 1]
    BY <1>1, <2>1, SubSeqProperties
  <2>3. k - 1 - 1 + 1 = k - 1 /\ (~(1 <= k - 1) => k - 1 = 0) /\ \A j \in 1 .. k - 1 : 1 + j - 1 = j
    BY <1>1
  <2> HIDE DEF a
  <2> QED BY <2>2, <2>3
<1>3. /\ b \in Seq(S) /\ Len(b) = Len(s) - k + 1
      /\ \A j \in 1 .. Len(s) - k + 1 : b[j] = s[k + j - 1]
  <2>1. \A j \in k .. Len(s) : s[j] \in S
    BY <1>1
  <2>2. /\ b \in Seq(S)
        /\ Len(b) = IF k <= Len(s) THEN Len(s) - k + 1 ELSE 0
        /\ \A j \in 1 .. Len(s) - k + 1 : b[j] = s[k + j - 1]
    BY <1>1, <2>1, SubSeqProperties
  <2>3. ~(k <= Len(s)) => Len(s) - k + 1 = 0
    BY <1>1
  <2> HIDE DEF b
  <2> QED BY <2>2, <2>3
<1>4. InsertAt(s, k, e) = c \o b
  BY DEF InsertAt
<1> HIDE DEF a, b
<1>5. /\ c \in Seq(S) /\ Len(c) = Len(a) + 1
      /\ \A j \in 1 .. Len(a) + 1 : c[j] = IF j <= Len(a) THEN a[j] ELSE e
  <2>1. <<e>> \in Seq(S) /\ Len(<<e>>) = 1 /\ <<e>>[1] = e
    OBVIOUS
  <2>2. /\ c \in Seq(S) /\ Len(c) = Len(a) + Len(<<e>>)
        /\ \A j \in 1 .. Len(a) + Len(<<e>>) :
             c[j] = IF j <= Len(a) THEN a[j] ELSE <<e>>[j - Len(a)]
    BY <1>2, <2>1, ConcatProperties
  <2>3. \A j \in 1 .. Len(a) + 1 : ~(j <= Len(a)) => j - Len(a) = 1
    BY <1>1, <1>2
  <2> HIDE DEF c
  <2> QED BY <2>1, <2>2, <2>3
<1> HIDE DEF c
<1>6. Len(c) = k /\ \A j \in 1 .. k : c[j] = IF j < k THEN s[j] ELSE e
  <2>1. Len(a) + 1 = k /\ \A j \in 1 .. k : j <= Len(a) <=> j < k
    BY <1>1, <1>2
  <2>2. \A j \in 1 .. k : j < k => a[j] = s[j]
    BY <1>2
  <2> QED BY <1>5, <2>1, <2>2
<1>7. /\ c \o b \in Seq(S) /\ Len(c \o b) = Len(c) + Len(b)
      /\ \A j \in 1 .. Len(c) + Len(b) :
           (c \o b)[j] = IF j <= Len(c) THEN c[j] ELSE b[j - Len(c)]
  <2>1. c \in Seq(S) /\ b \in Seq(S)
    BY <1>3, <1>5
  <2> QED BY ONLY <2>1, ConcatProperties
<1>8. Len(c) + Len(b) = Len(s) + 1
  BY <1>1, <1>3, <1>6
<1>9. ASSUME NEW j \in 1 .. Len(s) + 1
      PROVE  (c \o b)[j] = IF j < k THEN s[j] ELSE IF j = k THEN e ELSE s[j - 1]
  <2>1. CASE j <= k
    BY <1>6, <1>7, <1>8, <2>1
  <2>2. CASE ~(j <= k)
    <3>1. j - k \in 1 .. Len(s) - k + 1 /\ k + (j - k) - 1 = j - 1
      BY <1>1, <2>2
    <3>2. (c \o b)[j] = b[j - k]
      BY <1>6, <1>7, <1>8, <2>2
    <3>3. b[j - k] = s[j - 1]
      BY <1>3, <3>1
    <3> QED BY <2>2, <3>2, <3>3
  <2> QED BY <2>1, <2>2
<1> QED BY <1>4, <1>7, <1>8, <1>9 DEF Inserts

\* Where a tab may be put so that its group stays sorted.
Suits(tabs, k, tab) ==
  \A i \in DOMAIN tabs : tabs[i].pane = tab.pane =>
    /\ i < k /\ tab.pinned => tabs[i].pinned
    /\ i >= k /\ tabs[i].pinned => tab.pinned

LEMMA InsertedIs ==
  ASSUME NEW tabs, List(tabs), NEW tab \in TabRecord, tab.id \notin Ids(tabs),
         NEW k \in 1 .. Len(tabs) + 1, Suits(tabs, k, tab)
  PROVE  /\ List(InsertAt(tabs, k, tab))
         /\ ToSet(InsertAt(tabs, k, tab)) = ToSet(tabs) \union {tab}
<1>1. Len(tabs) \in Nat /\ DOMAIN tabs = 1 .. Len(tabs) /\ tabs \in Seq(TabRecord)
  BY ListIs DEF List
<1>2. PICK r : r = InsertAt(tabs, k, tab)
  OBVIOUS
<1>3. /\ r \in Seq(TabRecord) /\ Len(r) = Len(tabs) + 1
      /\ \A j \in 1 .. Len(tabs) + 1 :
           r[j] = IF j < k THEN tabs[j] ELSE IF j = k THEN tab ELSE tabs[j - 1]
  <2>1. r \in Seq(TabRecord) /\ Len(r) = Len(tabs) + 1 /\ Inserts(r, tabs, k, tab)
    BY <1>1, <1>2, InsertAtIs
  <2> QED BY <2>1 DEF Inserts
<1>4. DOMAIN r = 1 .. Len(tabs) + 1
  BY <1>3, LenProperties
\* Where the others were.
<1> DEFINE from(j) == IF j < k THEN j ELSE j - 1
<1>5. \A j \in DOMAIN r : j # k => from(j) \in DOMAIN tabs /\ r[j] = tabs[from(j)]
  BY <1>1, <1>3, <1>4
<1>6. r[k] = tab /\ k \in DOMAIN r
  BY <1>3, <1>4
<1>7. \A i, j \in DOMAIN r : i # k /\ j # k => (from(i) = from(j) => i = j)
                                               /\ (i < j => from(i) < from(j))
  BY <1>1, <1>4
<1>8. \A i \in DOMAIN r : i # k => (i < k => from(i) < k) /\ (i > k => from(i) >= k)
  BY <1>1, <1>4
<1>9. \A i \in DOMAIN tabs : \E j \in DOMAIN r : j # k /\ from(j) = i
  <2> SUFFICES ASSUME NEW i \in DOMAIN tabs
               PROVE  \E j \in DOMAIN r : j # k /\ from(j) = i
    OBVIOUS
  <2>1. CASE i < k
    <3>1. i \in DOMAIN r /\ i # k /\ from(i) = i
      BY <1>1, <1>4, <2>1
    <3> QED BY <3>1
  <2>2. CASE ~(i < k)
    <3>1. i + 1 \in DOMAIN r /\ i + 1 # k /\ from(i + 1) = i
      BY <1>1, <1>4, <2>2
    <3> QED BY <3>1
  <2> QED BY <2>1, <2>2
<1> HIDE DEF from
<1>10. Distinct(r)
  <2>1. \A j \in DOMAIN r : j # k => r[j].id # tab.id
    BY <1>5 DEF Ids
  <2>2. \A i, j \in DOMAIN r : i # k /\ j # k /\ r[i].id = r[j].id => i = j
    BY <1>5, <1>7 DEF List, Distinct
  <2> QED BY <1>6, <2>1, <2>2 DEF Distinct
<1>11. Grouped(r)
  <2> SUFFICES ASSUME NEW i \in DOMAIN r, NEW j \in DOMAIN r, r[i].pane = r[j].pane, i < j,
                      r[j].pinned
               PROVE  r[i].pinned
    BY DEF Grouped
  <2>1. CASE i # k /\ j # k
    BY <1>5, <1>7, <2>1 DEF List, Grouped
  <2>2. CASE i = k
    <3>1. j # k /\ j > k
      BY <1>4, <2>2
    <3> QED BY <1>5, <1>6, <1>8, <2>2, <3>1 DEF Suits
  <2>3. CASE j = k
    <3>1. i # k /\ i < k
      BY <1>4, <2>3
    <3> QED BY <1>5, <1>6, <1>8, <2>3, <3>1 DEF Suits
  <2> QED BY <2>1, <2>2, <2>3
<1>12. ToSet(r) = ToSet(tabs) \union {tab}
  <2>1. \A j \in DOMAIN r : r[j] \in ToSet(tabs) \union {tab}
    BY <1>5, <1>6 DEF ToSet
  <2>2. \A i \in DOMAIN tabs : \E j \in DOMAIN r : r[j] = tabs[i]
    BY <1>5, <1>9
  <2> QED BY <1>6, <2>1, <2>2 DEF ToSet
<1> QED BY <1>2, <1>3, <1>10, <1>11, <1>12 DEF List

LEMMA AppendedIs ==
  ASSUME NEW tabs, List(tabs), NEW tab \in TabRecord, tab.id \notin Ids(tabs), ~tab.pinned
  PROVE  /\ List(Append(tabs, tab))
         /\ ToSet(Append(tabs, tab)) = ToSet(tabs) \union {tab}
<1>1. Len(tabs) \in Nat /\ DOMAIN tabs = 1 .. Len(tabs) /\ tabs \in Seq(TabRecord)
  BY ListIs DEF List
<1>2. PICK r, k : r = Append(tabs, tab) /\ k = Len(tabs) + 1
  OBVIOUS
<1>3. /\ r \in Seq(TabRecord) /\ Len(r) = k /\ r[k] = tab
      /\ \A j \in 1 .. Len(tabs) : r[j] = tabs[j]
  BY <1>1, <1>2, AppendProperties
<1>4. DOMAIN r = 1 .. k /\ DOMAIN r = DOMAIN tabs \union {k} /\ k \in Nat
      /\ \A i \in DOMAIN tabs : i < k /\ i \in Nat
  <2>1. DOMAIN r = 1 .. k
    BY <1>3, LenProperties
  <2> QED BY <1>1, <1>2, <2>1
<1>5. Distinct(r)
  BY <1>1, <1>3, <1>4 DEF List, Distinct, Ids
<1>6. Grouped(r)
  <2> SUFFICES ASSUME NEW i \in DOMAIN r, NEW j \in DOMAIN r, r[i].pane = r[j].pane, i < j,
                      r[j].pinned
               PROVE  r[i].pinned
    BY DEF Grouped
  <2>1. j # k
    BY <1>3
  <2>2. i \in DOMAIN tabs /\ j \in DOMAIN tabs
    BY <1>1, <1>2, <1>4, <2>1
  <2>3. r[i] = tabs[i] /\ r[j] = tabs[j]
    BY <1>1, <1>3, <2>2
  <2> QED BY <2>2, <2>3 DEF List, Grouped
<1>7. ToSet(r) = ToSet(tabs) \union {tab}
  <2>1. \A i \in DOMAIN r : r[i] \in ToSet(tabs) \union {tab}
    BY <1>1, <1>3, <1>4 DEF ToSet
  <2>2. \A i \in DOMAIN tabs : i \in DOMAIN r /\ r[i] = tabs[i]
    BY <1>1, <1>3, <1>4
  <2> QED BY <1>3, <1>4, <2>1, <2>2 DEF ToSet
<1> QED BY <1>2, <1>3, <1>5, <1>6, <1>7 DEF List

LEMMA EditIs ==
  ASSUME NEW tabs, List(tabs), NEW old \in ToSet(tabs), NEW tab \in TabRecord,
         tab.id = old.id, tab.pane = old.pane, tab.pinned = old.pinned
  PROVE  /\ List(Edit(tabs, tab))
         /\ ToSet(Edit(tabs, tab)) = (ToSet(tabs) \ {old}) \union {tab}
<1>1. Len(tabs) \in Nat /\ DOMAIN tabs = 1 .. Len(tabs)
      /\ \A i \in DOMAIN tabs : tabs[i] \in TabRecord /\ tabs[i] \in ToSet(tabs)
  BY ListIs
<1>2. PICK r : r = Edit(tabs, tab)
  OBVIOUS
<1>3. /\ r = [i \in 1 .. Len(tabs) |-> r[i]] /\ DOMAIN r = DOMAIN tabs
      /\ \A i \in DOMAIN tabs : r[i] = IF tabs[i].id = tab.id THEN tab ELSE tabs[i]
  BY <1>1, <1>2 DEF Edit
<1>4. r \in Seq(TabRecord)
  <2>1. \A i \in 1 .. Len(tabs) : r[i] \in TabRecord
    BY <1>1, <1>3
  <2> QED BY <1>1, <1>3, <2>1
<1>5. \A i \in DOMAIN tabs : tabs[i].id = tab.id => tabs[i] = old
  BY <1>1, ListIs
<1>6. PICK k \in DOMAIN tabs : tabs[k] = old
  BY DEF ToSet
<1>7. \A i \in DOMAIN tabs : r[i].id = tabs[i].id /\ r[i].pane = tabs[i].pane
                             /\ r[i].pinned = tabs[i].pinned
  BY <1>3, <1>5
<1>8. Distinct(r) /\ Grouped(r)
  <2>1. Distinct(r)
    BY <1>3, <1>7 DEF List, Distinct
  <2>2. Grouped(r)
    <3>1. Grouped(tabs)
      BY DEF List
    <3>2. DOMAIN r = DOMAIN tabs
      BY <1>3
    <3> QED BY ONLY <1>7, <3>1, <3>2 DEF Grouped
  <2> QED BY <2>1, <2>2
<1>9. ToSet(r) = (ToSet(tabs) \ {old}) \union {tab}
  <2>1. \A i \in DOMAIN r : r[i] \in (ToSet(tabs) \ {old}) \union {tab}
    BY <1>1, <1>3
  <2>2. r[k] = tab /\ k \in DOMAIN r
    BY <1>3, <1>6
  <2>3. \A t \in ToSet(tabs) \ {old} : \E i \in DOMAIN r : r[i] = t
    <3> SUFFICES ASSUME NEW t \in ToSet(tabs) \ {old}
                 PROVE  \E i \in DOMAIN r : r[i] = t
      OBVIOUS
    <3>1. PICK i \in DOMAIN tabs : tabs[i] = t
      BY DEF ToSet
    <3>2. tabs[i].id # tab.id
      BY <1>5, <3>1
    <3> QED BY <1>3, <3>1, <3>2
  <2> QED BY <2>1, <2>2, <2>3 DEF ToSet
<1> QED BY <1>2, <1>4, <1>8, <1>9 DEF List

\* The tabs of a pane, and where they are among all.
LEMMA InPanePicks ==
  ASSUME NEW tabs, List(tabs), NEW p
  PROVE  \E f : Picks(InPane(tabs, p), tabs, {i \in DOMAIN tabs : tabs[i].pane = p}, f)
<1>1. tabs \in Seq(TabRecord)
  BY DEF List
<1> QED BY <1>1, AtPlacesIs DEF InPane

LEMMA InsertIntoPaneIs ==
  ASSUME NEW tabs, List(tabs), NEW tab \in TabRecord, tab.id \notin Ids(tabs), NEW p \in Pane,
         NEW target, NEW edge
  PROVE  /\ List(InsertIntoPane(tabs, tab, p, target, edge))
         /\ ToSet(InsertIntoPane(tabs, tab, p, target, edge))
              = ToSet(tabs) \union {[tab EXCEPT !.pane = p]}
<1> DEFINE I == {i \in DOMAIN tabs : tabs[i].pane = p}
           moved == [tab EXCEPT !.pane = p]
<1>1. PICK there : there = InPane(tabs, p)
  OBVIOUS
<1>2. PICK f : Picks(there, tabs, I, f)
  BY <1>1, InPanePicks
<1>3. List(there)
  BY <1>1, InPaneIs
<1>4. PICK n : n = Len(there)
  OBVIOUS
<1>5. /\ n \in Nat /\ DOMAIN there = 1 .. n
      /\ Len(tabs) \in Nat /\ DOMAIN tabs = 1 .. Len(tabs)
  BY <1>3, <1>4, ListIs
<1>6. /\ \A m \in 1 .. n : f[m] \in DOMAIN tabs /\ tabs[f[m]].pane = p /\ there[m] = tabs[f[m]]
      /\ \A l, m \in 1 .. n : l < m => f[l] < f[m]
      /\ \A i \in DOMAIN tabs : tabs[i].pane = p => \E m \in 1 .. n : f[m] = i
  BY <1>2, <1>5 DEF Picks
<1>7. \A m \in 1 .. n : IndexOf(tabs, there[m].id) = f[m]
  <2> SUFFICES ASSUME NEW m \in 1 .. n
               PROVE  IndexOf(tabs, there[m].id) = f[m]
    OBVIOUS
  <2>1. f[m] \in DOMAIN tabs /\ tabs[f[m]].id = there[m].id
    BY <1>6
  <2>2. there[m].id \in Ids(tabs)
    BY <2>1 DEF Ids
  <2> QED BY <2>1, <2>2, IndexIs
<1>8. PICK hits : hits = {i \in DOMAIN there : there[i].id = target /\ there[i].pinned = tab.pinned}
  OBVIOUS
<1>9. PICK unpinned : unpinned = {i \in DOMAIN there : ~there[i].pinned}
  OBVIOUS
<1>10. PICK place : place = IF hits # {} THEN Max(hits) + (IF edge = "after" THEN 1 ELSE 0)
                            ELSE IF tab.pinned /\ unpinned # {} THEN Min(unpinned)
                            ELSE Len(there) + 1
  OBVIOUS
<1>11. PICK index : index = IF place <= Len(there) THEN IndexOf(tabs, there[place].id)
                            ELSE IF there # <<>> THEN IndexOf(tabs, Last(there).id) + 1
                            ELSE Len(tabs) + 1
  OBVIOUS
<1>12. InsertIntoPane(tabs, tab, p, target, edge) = InsertAt(tabs, index, moved)
  BY <1>1, <1>8, <1>9, <1>10, <1>11 DEF InsertIntoPane
<1>13. \A l, m \in 1 .. n : l <= m /\ there[m].pinned => there[l].pinned
  <2>1. \A m \in 1 .. n : there[m].pane = p
    BY <1>6
  <2> QED BY <1>3, <1>5, <2>1 DEF List, Grouped
\* Before the place there is a pinned tab if it takes one, behind it an unpinned one.
<1>14. /\ place \in 1 .. n + 1
       /\ \A m \in 1 .. n : m < place /\ tab.pinned => there[m].pinned
       /\ \A m \in 1 .. n : m >= place /\ there[m].pinned => tab.pinned
  <2>1. CASE hits # {}
    <3>1. hits \in SUBSET (1 .. n)
      BY <1>5, <1>8
    <3>2. Max(hits) \in hits
      BY <1>5, <2>1, <3>1, LastPlace
    <3>3. PICK h : h = Max(hits)
      OBVIOUS
    <3>4. h \in 1 .. n /\ there[h].pinned = tab.pinned
      BY <1>5, <1>8, <3>2, <3>3
    <3>5. place = h \/ place = h + 1
      BY <1>10, <2>1, <3>3, <3>4
    <3>6. place \in 1 .. n + 1 /\ place >= h
          /\ \A m \in 1 .. n : (m < place => m <= h) /\ (m >= place => h <= m)
      BY <1>5, <3>4, <3>5
    <3> QED BY <1>13, <3>4, <3>6
  <2>2. CASE hits = {} /\ tab.pinned /\ unpinned # {}
    <3>1. unpinned \in SUBSET Nat
      BY <1>5, <1>9
    <3>2. Min(unpinned) \in unpinned /\ \A x \in unpinned : Min(unpinned) <= x
      BY <2>2, <3>1, MinIs
    <3>3. place \in unpinned /\ \A x \in unpinned : place <= x
      BY <1>10, <2>2, <3>2
    <3>4. place \in 1 .. n
      BY <1>5, <1>9, <3>3
    <3>5. \A m \in 1 .. n : m < place => there[m].pinned
      <4> SUFFICES ASSUME NEW m \in 1 .. n, m < place, ~there[m].pinned
                   PROVE  FALSE
        OBVIOUS
      <4>1. m \in unpinned
        BY <1>5, <1>9
      <4> QED BY <3>3, <3>4, <4>1
    <3> QED BY <1>5, <2>2, <3>4, <3>5
  <2>3. CASE hits = {} /\ ~(tab.pinned /\ unpinned # {})
    <3>1. place = n + 1
      BY <1>4, <1>10, <2>3
    <3>2. \A m \in 1 .. n : tab.pinned => there[m].pinned
      BY <1>5, <1>9, <2>3
    <3> QED BY <1>5, <3>1, <3>2
  <2> QED BY <2>1, <2>2, <2>3
<1> HIDE DEF I
<1>15. /\ index \in 1 .. Len(tabs) + 1
       /\ \A m \in 1 .. n : (f[m] < index => m < place) /\ (f[m] >= index => m >= place)
  <2>0. \A m \in 1 .. n : f[m] \in 1 .. Len(tabs)
    BY <1>5, <1>6
  <2>1. CASE place <= n
    <3>1. place \in 1 .. n
      BY <1>5, <1>14, <2>1
    <3>2. index = f[place]
      BY <1>4, <1>7, <1>11, <2>1, <3>1
    <3>3. \A m \in 1 .. n : m < place \/ m = place \/ place < m
      BY <1>5, <3>1
    <3>4. \A m \in 1 .. n : (f[m] < f[place] => m < place) /\ (f[m] >= f[place] => m >= place)
      <4> SUFFICES ASSUME NEW m \in 1 .. n
                   PROVE  (f[m] < f[place] => m < place) /\ (f[m] >= f[place] => m >= place)
        OBVIOUS
      <4>1. f[m] \in Int /\ f[place] \in Int
        BY <2>0, <3>1
      <4>2. (m < place => f[m] < f[place]) /\ (place < m => f[place] < f[m])
        BY <1>6, <3>1
      <4>3. m \in Int /\ place \in Int
        BY <3>1
      <4> QED BY <4>1, <4>2, <4>3
    <3>5. f[place] \in 1 .. Len(tabs) + 1
      BY <1>5, <2>0, <3>1
    <3> QED BY <3>2, <3>4, <3>5
  <2>2. CASE ~(place <= n) /\ n # 0
    <3>1. n \in 1 .. n /\ place = n + 1
      BY <1>5, <1>14, <2>2
    <3>2. there # <<>> /\ Last(there) = there[n]
      BY <1>4, <2>2 DEF Last
    <3>3. index = f[n] + 1
      BY <1>4, <1>7, <1>11, <2>2, <3>1, <3>2
    <3>4. \A m \in 1 .. n : m < n \/ m = n
      BY <1>5
    <3>5. \A m \in 1 .. n : f[m] <= f[n]
      BY <1>6, <2>0, <3>1, <3>4
    <3>6. \A m \in 1 .. n : ~(f[m] >= index) /\ m < place
      BY <1>5, <2>0, <3>1, <3>3, <3>5
    <3>7. index \in 1 .. Len(tabs) + 1
      BY <1>5, <2>0, <3>1, <3>3
    <3> QED BY <3>6, <3>7
  <2>3. CASE ~(place <= n) /\ n = 0
    <3>1. there = <<>>
      <4>1. there \in Seq(TabRecord) /\ Len(there) = 0
        BY <1>3, <1>4, <2>3 DEF List
      <4> QED BY <4>1
    <3>2. index = Len(tabs) + 1
      BY <1>4, <1>11, <2>3, <3>1
    <3> QED BY <1>5, <2>3, <3>2
  <2> QED BY <2>1, <2>2, <2>3
<1>16. moved \in TabRecord /\ moved.id = tab.id /\ moved.pane = p /\ moved.pinned = tab.pinned
  BY DEF TabRecord
<1> HIDE DEF moved
<1>17. Suits(tabs, index, moved)
  <2> SUFFICES ASSUME NEW i \in DOMAIN tabs, tabs[i].pane = p
               PROVE  /\ i < index /\ tab.pinned => tabs[i].pinned
                      /\ i >= index /\ tabs[i].pinned => tab.pinned
    BY <1>16 DEF Suits
  <2>1. PICK m \in 1 .. n : f[m] = i
    BY <1>6
  <2>2. there[m] = tabs[i]
    BY <1>6, <2>1
  <2> QED BY <1>14, <1>15, <2>1, <2>2
<1>18. moved.id \notin Ids(tabs)
  BY <1>16
<1>19. /\ List(InsertAt(tabs, index, moved))
       /\ ToSet(InsertAt(tabs, index, moved)) = ToSet(tabs) \union {moved}
  BY <1>15, <1>16, <1>17, <1>18, InsertedIs
<1> QED BY <1>12, <1>19 DEF moved

\* A list has as many tabs as its length says.
LEMMA LengthIs ==
  ASSUME NEW tabs, List(tabs)
  PROVE  IsFiniteSet(ToSet(tabs)) /\ Cardinality(ToSet(tabs)) = Len(tabs)
<1>1. Len(tabs) \in Nat /\ DOMAIN tabs = 1 .. Len(tabs) /\ tabs \in Seq(TabRecord)
  BY ListIs DEF List
<1>2. tabs \in [1 .. Len(tabs) -> ToSet(tabs)]
  BY <1>1, ListIs
<1>3. tabs \in Bijection(1 .. Len(tabs), ToSet(tabs))
  <2>1. \A i, j \in 1 .. Len(tabs) : tabs[i] = tabs[j] => i = j
    BY <1>1 DEF List, Distinct
  <2>2. \A t \in ToSet(tabs) : \E i \in 1 .. Len(tabs) : tabs[i] = t
    BY <1>1 DEF ToSet
  <2> QED BY <1>2, <2>1, <2>2 DEF Bijection, Injection, IsInjective, Surjection
<1>4. IsFiniteSet(1 .. Len(tabs)) /\ Cardinality(1 .. Len(tabs)) = Len(tabs)
  BY <1>1, FS_Interval
<1>5. ExistsBijection(1 .. Len(tabs), ToSet(tabs))
  BY <1>3 DEF ExistsBijection
<1> QED BY <1>4, <1>5, FS_Bijection

\* Where the first unpinned tab of a pane is.
GroupEnd(others) ==
  LET unpinned == {i \in DOMAIN others : ~others[i].pinned}
  IN IF unpinned = {} THEN Len(others) + 1 ELSE Min(unpinned)

LEMMA GroupEndIs ==
  ASSUME NEW others, List(others), NEW p, \A t \in ToSet(others) : t.pane = p
  PROVE  /\ GroupEnd(others) \in 1 .. Len(others) + 1
         /\ \A i \in DOMAIN others : others[i].pinned <=> i < GroupEnd(others)
<1>1. /\ Len(others) \in Nat /\ DOMAIN others = 1 .. Len(others)
      /\ \A i \in DOMAIN others : others[i].pane = p
  BY ListIs
<1> DEFINE unpinned == {i \in DOMAIN others : ~others[i].pinned}
<1>2. PICK k : k = GroupEnd(others)
  OBVIOUS
<1>3. CASE unpinned = {}
  <2>1. k = Len(others) + 1
    BY <1>2, <1>3 DEF GroupEnd
  <2>2. \A i \in DOMAIN others : others[i].pinned
    BY <1>3
  <2> QED BY <1>1, <1>2, <2>1, <2>2
<1>4. CASE unpinned # {}
  <2>1. unpinned \in SUBSET Nat
    BY <1>1
  <2>2. k = Min(unpinned)
    BY <1>2, <1>4 DEF GroupEnd
  <2>3. k \in unpinned /\ \A x \in unpinned : k <= x
    BY <1>4, <2>1, <2>2, MinIs
  <2>4. k \in 1 .. Len(others) /\ ~others[k].pinned
    BY <1>1, <2>3
  <2>5. ASSUME NEW i \in DOMAIN others, i < k
        PROVE  others[i].pinned
    <3>1. i \in Nat /\ k \in Nat
      BY <1>1, <2>4
    <3> QED BY <2>3, <2>5, <3>1
  <2>6. ASSUME NEW i \in DOMAIN others, others[i].pinned, ~(i < k)
        PROVE  FALSE
    <3>1. i \in Nat /\ k \in Nat /\ k # i /\ k \in DOMAIN others
      BY <1>1, <2>4, <2>6
    <3>2. k < i
      BY <2>6, <3>1
    <3> QED BY <1>1, <2>4, <2>6, <3>1, <3>2 DEF List, Grouped
  <2>7. k \in 1 .. Len(others) + 1
    BY <1>1, <2>4
  <2> QED BY <1>2, <2>5, <2>6, <2>7
<1> QED BY <1>3, <1>4

\* A tab of a pane that goes to the end of the pinned ones.
LEMMA RegroupedIs ==
  ASSUME NEW A, List(A), NEW old \in ToSet(A), \A t \in ToSet(A) : t.pane = old.pane,
         NEW tab \in TabRecord, tab.id = old.id, tab.pane = old.pane,
         NEW there, there = InsertAt(Without(A, old.id), GroupEnd(Without(A, old.id)), tab)
  PROVE  List(there) /\ Len(there) = Len(A) /\ ToSet(there) = (ToSet(A) \ {old}) \union {tab}
<1>1. PICK others : others = Without(A, old.id)
  OBVIOUS
<1>2. List(others) /\ ToSet(others) = {t \in ToSet(A) : t.id # old.id}
  BY <1>1, WithoutIs
<1>3. ToSet(others) = ToSet(A) \ {old}
  BY <1>2, ListIs
<1>4. \A t \in ToSet(others) : t.pane = tab.pane
  BY <1>3
<1>5. PICK k : k = GroupEnd(others)
  OBVIOUS
<1>6. /\ k \in 1 .. Len(others) + 1
      /\ \A i \in DOMAIN others : others[i].pinned <=> i < k
  BY <1>2, <1>4, <1>5, GroupEndIs
<1>7. Suits(others, k, tab)
  <2>1. Len(others) \in Nat /\ DOMAIN others = 1 .. Len(others)
    BY <1>2, ListIs
  <2>2. \A i \in DOMAIN others : (i < k => others[i].pinned) /\ ~(i >= k /\ others[i].pinned)
    BY <1>6, <2>1
  <2> QED BY <2>2 DEF Suits
<1>8. tab.id \notin Ids(others)
  <2>1. Ids(others) = {t.id : t \in ToSet(others)}
    BY <1>2, ListIs
  <2> QED BY <1>2, <2>1
<1>9. there = InsertAt(others, k, tab)
  BY <1>1, <1>5
<1>10. List(there) /\ ToSet(there) = ToSet(others) \union {tab}
  BY <1>2, <1>6, <1>7, <1>8, <1>9, InsertedIs
<1>11. Len(there) = Len(A)
  <2>1. IsFiniteSet(ToSet(A)) /\ Cardinality(ToSet(A)) = Len(A) /\ Len(A) \in Nat
    BY LengthIs, ListIs
  <2>2. IsFiniteSet(ToSet(others)) /\ Cardinality(ToSet(others)) = Len(A) - 1
    <3>1. PICK T, U : T = ToSet(A) /\ U = ToSet(others)
      OBVIOUS
    <3>2. IsFiniteSet(T) /\ U = T \ {old} /\ old \in T
      BY <1>3, <2>1, <3>1
    <3>3. IsFiniteSet(U) /\ Cardinality(U) = Cardinality(T) - 1
      BY ONLY <3>2, FS_RemoveElement
    <3> QED BY <2>1, <3>1, <3>3
  <2>3. tab \notin ToSet(others)
    BY <1>2
  <2>4. Cardinality(ToSet(others) \union {tab}) = (Len(A) - 1) + 1
    BY <2>2, <2>3, FS_AddElement
  <2>5. Cardinality(ToSet(there)) = Len(there)
    BY <1>10, LengthIs
  <2>6. Len(there) = (Len(A) - 1) + 1
    BY <1>10, <2>4, <2>5
  <2> QED BY <2>1, <2>6
<1> QED BY <1>3, <1>10, <1>11

\* The n-th tab of a pane has n of the pane before or at its place.
OfPane(tabs, p) == {i \in DOMAIN tabs : tabs[i].pane = p}
Rank(tabs, p, i) == Cardinality({j \in 1 .. i : tabs[j].pane = p})
LEMMA RankIs ==
  ASSUME NEW tabs, List(tabs), NEW p, NEW A, NEW f, Picks(A, tabs, OfPane(tabs, p), f),
         NEW m \in DOMAIN A
  PROVE  Rank(tabs, p, f[m]) = (m - 1) + 1
<1> DEFINE I == OfPane(tabs, p)
           before == {j \in I : j < f[m]}
<1>1. f[m] \in I /\ Cardinality(before) = m - 1
  BY DEF Picks
<1> USE DEF OfPane
<1>2. Len(tabs) \in Nat /\ DOMAIN tabs = 1 .. Len(tabs)
  BY ListIs
<1>3. f[m] \in 1 .. Len(tabs) /\ tabs[f[m]].pane = p
  BY <1>1, <1>2
<1>4. {j \in 1 .. f[m] : tabs[j].pane = p} = before \union {f[m]}
  BY <1>2, <1>3
<1>5. before \subseteq 1 .. Len(tabs) /\ f[m] \notin before
  BY <1>2, <1>3
<1>6. IsFiniteSet(before)
  <2>1. IsFiniteSet(1 .. Len(tabs))
    BY <1>2, FS_Interval
  <2> QED BY <1>5, <2>1, FS_Subset
<1>7. \A B : IsFiniteSet(B) /\ f[m] \notin B
        => Cardinality(B \union {f[m]}) = Cardinality(B) + 1
  BY FS_AddElement
<1>8. Cardinality(before \union {f[m]}) = Cardinality(before) + 1
  <2> HIDE DEF before
  <2> QED BY <1>5, <1>6, <1>7
<1> QED BY <1>1, <1>4, <1>8 DEF Rank

\* r is tabs with the tabs of a pane, at f, in another order.
Reorders(r, tabs, p, there, f) ==
  /\ DOMAIN r = DOMAIN tabs /\ r = [i \in DOMAIN r |-> r[i]]
  /\ \A i \in DOMAIN tabs : tabs[i].pane # p => r[i] = tabs[i]
  /\ \A m \in DOMAIN there : f[m] \in DOMAIN tabs /\ tabs[f[m]].pane = p /\ r[f[m]] = there[m]
  /\ \A l, m \in DOMAIN there : l < m => f[l] < f[m]
  /\ \A i \in DOMAIN tabs : tabs[i].pane = p => \E m \in DOMAIN there : f[m] = i

LEMMA ReordersIs ==
  ASSUME NEW tabs, List(tabs), NEW p, NEW there, List(there), NEW f, NEW r,
         Reorders(r, tabs, p, there, f), \A t \in ToSet(there) : t.pane = p,
         \A t \in ToSet(there), u \in ToSet(tabs) : u.pane # p => t.id # u.id
  PROVE  /\ List(r)
         /\ ToSet(r) = {t \in ToSet(tabs) : t.pane # p} \union ToSet(there)
<1>1. /\ Len(tabs) \in Nat /\ DOMAIN tabs = 1 .. Len(tabs)
      /\ \A i \in DOMAIN tabs : tabs[i] \in TabRecord /\ tabs[i] \in ToSet(tabs)
      /\ Len(there) \in Nat /\ DOMAIN there = 1 .. Len(there)
      /\ \A m \in DOMAIN there : there[m] \in TabRecord /\ there[m] \in ToSet(there)
  BY ListIs
<1>2. /\ DOMAIN r = DOMAIN tabs /\ r = [i \in DOMAIN r |-> r[i]]
      /\ \A i \in DOMAIN tabs : tabs[i].pane # p => r[i] = tabs[i]
      /\ \A m \in DOMAIN there : f[m] \in DOMAIN tabs /\ tabs[f[m]].pane = p /\ r[f[m]] = there[m]
      /\ \A l, m \in DOMAIN there : l < m => f[l] < f[m]
      /\ \A i \in DOMAIN tabs : tabs[i].pane = p => \E m \in DOMAIN there : f[m] = i
  BY DEF Reorders
<1>3. ASSUME NEW i \in DOMAIN tabs
      PROVE  \/ tabs[i].pane # p /\ r[i] = tabs[i] /\ r[i] \in ToSet(tabs)
             \/ /\ tabs[i].pane = p /\ r[i] \in ToSet(there)
                /\ \E m \in DOMAIN there : f[m] = i /\ r[i] = there[m]
  <2>1. CASE tabs[i].pane # p
    BY <1>1, <1>2, <2>1
  <2>2. CASE tabs[i].pane = p
    <3>1. PICK m \in DOMAIN there : f[m] = i
      BY <1>2, <2>2
    <3>2. r[i] = there[m]
      BY <1>2, <3>1
    <3> QED BY <1>1, <2>2, <3>1, <3>2
  <2> QED BY <2>1, <2>2
<1>4. \A i \in DOMAIN tabs : r[i] \in TabRecord /\ r[i].pane = tabs[i].pane
  BY <1>1, <1>3
<1>5. r \in Seq(TabRecord)
  <2>1. r = [i \in 1 .. Len(tabs) |-> r[i]]
    BY <1>1, <1>2
  <2>2. \A i \in 1 .. Len(tabs) : r[i] \in TabRecord
    BY <1>1, <1>4
  <2> QED BY <1>1, <2>1, <2>2
<1>6. Distinct(r)
  <2> SUFFICES ASSUME NEW i \in DOMAIN tabs, NEW j \in DOMAIN tabs, r[i].id = r[j].id
               PROVE  i = j
    BY <1>2 DEF Distinct
  <2>1. CASE tabs[i].pane # p /\ tabs[j].pane # p
    BY <1>2, <2>1 DEF List, Distinct
  <2>2. CASE tabs[i].pane = p /\ tabs[j].pane = p
    <3>1. PICK l \in DOMAIN there : f[l] = i /\ r[i] = there[l]
      BY <1>3, <2>2
    <3>2. PICK m \in DOMAIN there : f[m] = j /\ r[j] = there[m]
      BY <1>3, <2>2
    <3> QED BY <3>1, <3>2 DEF List, Distinct
  <2>3. ASSUME tabs[i].pane = p, tabs[j].pane # p PROVE FALSE
    BY <1>3, <2>3
  <2>4. ASSUME tabs[i].pane # p, tabs[j].pane = p PROVE FALSE
    BY <1>3, <2>4
  <2> QED BY <2>1, <2>2, <2>3, <2>4
<1>7. Grouped(r)
  <2> SUFFICES ASSUME NEW i \in DOMAIN tabs, NEW j \in DOMAIN tabs, r[i].pane = r[j].pane, i < j,
                      r[j].pinned
               PROVE  r[i].pinned
    BY <1>2 DEF Grouped
  <2>1. tabs[i].pane = tabs[j].pane
    BY <1>4
  <2>2. CASE tabs[i].pane # p
    BY <1>2, <2>1, <2>2 DEF List, Grouped
  <2>3. CASE tabs[i].pane = p
    <3>1. PICK l \in DOMAIN there : f[l] = i /\ r[i] = there[l]
      BY <1>3, <2>3
    <3>2. PICK m \in DOMAIN there : f[m] = j /\ r[j] = there[m]
      BY <1>3, <2>1, <2>3
    <3>3. l < m
      <4>1. l \in Int /\ m \in Int /\ f[l] < f[m] /\ f[l] \in Int /\ f[m] \in Int
        BY <1>1, <3>1, <3>2
      <4>2. ~(m < l) /\ m # l
        <5>1. m < l => f[m] < f[l]
          BY <1>2
        <5> QED BY <4>1, <5>1
      <4> QED BY <4>1, <4>2
    <3>4. there[l].pane = there[m].pane /\ there[m].pinned
      BY <1>1, <3>2
    <3>5. there[l].pinned
      BY <3>3, <3>4 DEF List, Grouped
    <3> QED BY <3>1, <3>5
  <2> QED BY <2>2, <2>3
<1>8. ToSet(r) = {t \in ToSet(tabs) : t.pane # p} \union ToSet(there)
  <2>1. \A i \in DOMAIN tabs : r[i] \in {t \in ToSet(tabs) : t.pane # p} \union ToSet(there)
    BY <1>3
  <2>2. ASSUME NEW t \in ToSet(tabs), t.pane # p PROVE \E i \in DOMAIN tabs : r[i] = t
    <3>1. PICK i \in DOMAIN tabs : tabs[i] = t
      BY DEF ToSet
    <3> QED BY <1>2, <2>2, <3>1
  <2>3. ASSUME NEW t \in ToSet(there) PROVE \E i \in DOMAIN tabs : r[i] = t
    <3>1. PICK m \in DOMAIN there : there[m] = t
      BY DEF ToSet
    <3> QED BY <1>2, <3>1
  <2>4. ToSet(r) = {r[i] : i \in DOMAIN tabs}
    BY <1>2 DEF ToSet
  <2> QED BY <2>1, <2>2, <2>3, <2>4
<1> QED BY <1>5, <1>6, <1>7, <1>8 DEF List

\* setTabPinned(): what becomes of the tabs.
LEMMA RegroupIs ==
  ASSUME NEW tabs, List(tabs), NEW old \in ToSet(tabs), NEW tab \in TabRecord,
         tab.id = old.id, tab.pane = old.pane, NEW p, p = old.pane,
         NEW others, others = Without(InPane(tabs, p), old.id),
         NEW there, there = InsertAt(others, GroupEnd(others), tab), NEW r,
         r = [i \in DOMAIN tabs |->
                IF tabs[i].pane = p
                THEN there[Rank(tabs, p, i)] ELSE tabs[i]]
  PROVE  List(r) /\ ToSet(r) = (ToSet(tabs) \ {old}) \union {tab}
<1>1. PICK A : A = InPane(tabs, p)
  OBVIOUS
<1>2. List(A) /\ ToSet(A) = {t \in ToSet(tabs) : t.pane = p}
  BY <1>1, InPaneIs
<1>3. List(there) /\ Len(there) = Len(A) /\ ToSet(there) = (ToSet(A) \ {old}) \union {tab}
  <2>1. old \in ToSet(A) /\ \A t \in ToSet(A) : t.pane = old.pane
    BY <1>2
  <2>2. there = InsertAt(Without(A, old.id), GroupEnd(Without(A, old.id)), tab)
    BY <1>1
  <2> QED BY ONLY <1>2, <2>1, <2>2, RegroupedIs, tab \in TabRecord, tab.id = old.id,
               tab.pane = old.pane
<1>4. PICK f : Picks(A, tabs, OfPane(tabs, p), f)
  BY <1>1, InPanePicks DEF OfPane
<1>5. DOMAIN there = DOMAIN A /\ \A m \in DOMAIN there : m \in Nat
  <2>1. DOMAIN there = 1 .. Len(there)
    BY <1>3, ListIs
  <2>2. DOMAIN A = 1 .. Len(A)
    BY <1>2, ListIs
  <2> QED BY <1>3, <2>1, <2>2
<1>6. Reorders(r, tabs, p, there, f)
  <2>1. /\ \A m \in DOMAIN there : f[m] \in DOMAIN tabs /\ tabs[f[m]].pane = p
        /\ \A l, m \in DOMAIN there : l < m => f[l] < f[m]
        /\ \A i \in DOMAIN tabs : tabs[i].pane = p => \E m \in DOMAIN there : f[m] = i
    BY <1>4, <1>5 DEF Picks, OfPane
  <2>2. ASSUME NEW m \in DOMAIN there PROVE r[f[m]] = there[m]
    <3>0. m \in DOMAIN A
      BY <1>5
    <3>1. Rank(tabs, p, f[m]) = (m - 1) + 1
      BY ONLY <1>4, <3>0, RankIs, List(tabs)
    <3>2. (m - 1) + 1 = m
      BY <1>5
    <3> QED BY <2>1, <3>1, <3>2
  <2>3. /\ DOMAIN r = DOMAIN tabs /\ r = [i \in DOMAIN r |-> r[i]]
        /\ \A i \in DOMAIN tabs : tabs[i].pane # p => r[i] = tabs[i]
    OBVIOUS
  <2> QED BY <2>1, <2>2, <2>3 DEF Reorders
<1>7. /\ \A t \in ToSet(there) : t.pane = p
      /\ \A t \in ToSet(there), u \in ToSet(tabs) : u.pane # p => t.id # u.id
  <2>1. \A t \in ToSet(there) : t.pane = p /\ \E v \in ToSet(tabs) : v.id = t.id /\ v.pane = p
    BY <1>2, <1>3
  <2> QED BY <2>1, ListIs
<1>8. List(r) /\ ToSet(r) = {t \in ToSet(tabs) : t.pane # p} \union ToSet(there)
  BY ONLY <1>3, <1>6, <1>7, ReordersIs, List(tabs)
<1>9. {t \in ToSet(tabs) : t.pane # p} \union ToSet(there) = (ToSet(tabs) \ {old}) \union {tab}
  BY <1>2, <1>3
<1> QED BY <1>8, <1>9

-----------------------------------------------------------------------------
(* The window *)

Record(w) ==
  w = [x \in {"tabs", "root", "focus", "activeId", "zoomed", "unread"} |-> w[x]]
Typed(w) ==
  /\ Record(w) /\ List(w.tabs) /\ Root(w.root)
  /\ w.focus \in Pane /\ w.activeId \in Tab \cup {Nobody} /\ w.zoomed \in Pane \cup {Nobody}
  /\ w.unread \subseteq Tab

\* FrontsAreThere of the tabs T, at every pane but some.
Shows(T, root, p) ==
  IF \E t \in T : t.pane = p THEN \E t \in T : t.pane = p /\ t.id = root.front[p]
                             ELSE root.front[p] = Nobody
Fronts(T, root, some) ==
  (\A t \in T : t.pane \in Panes(root)) /\ \A p \in Panes(root) \ some : Shows(T, root, p)

\* FocusIsFront
Focused(w) ==
  /\ w.focus \in Panes(w.root) /\ w.activeId = w.root.front[w.focus]
  /\ w.zoomed \in {Nobody, w.focus}

\* UnreadIsHidden
Known(unread, T) == \A id \in unread : \E t \in T : t.id = id /\ t.session
Hidden(unread, T, root, zoomed) ==
  \A t \in T : t.id \in unread => ~TerminalIsVisible(t, root, zoomed)

Good(w) ==
  /\ Typed(w) /\ Fronts(ToSet(w.tabs), w.root, {}) /\ Focused(w)
  /\ Known(w.unread, ToSet(w.tabs)) /\ Hidden(w.unread, ToSet(w.tabs), w.root, w.zoomed)

LEMMA GoodIs ==
  ASSUME NEW w, Good(w)
  PROVE  /\ Typed(w) /\ Record(w) /\ List(w.tabs) /\ Root(w.root)
         /\ Fronts(ToSet(w.tabs), w.root, {})
         /\ Known(w.unread, ToSet(w.tabs)) /\ Hidden(w.unread, ToSet(w.tabs), w.root, w.zoomed)
         /\ w.focus \in Panes(w.root) /\ w.activeId = w.root.front[w.focus]
         /\ w.zoomed \in {Nobody, w.focus}
BY DEF Good, Typed, Focused

LEMMA TabIs ==
  ASSUME NEW tabs, List(tabs), NEW t \in ToSet(tabs)
  PROVE  /\ t \in TabRecord /\ t.id \in Tab /\ t.id # Nobody /\ t.pane \in Pane
         /\ t.id \in Ids(tabs) /\ Named(tabs, t.id) = t
BY ListIs, NamedIs, TabsAssumption DEF TabRecord

\* What makes a window consistent.
LEMMA GoodMade ==
  ASSUME NEW w, Record(w), List(w.tabs), Root(w.root), w.focus \in Panes(w.root),
         w.activeId = w.root.front[w.focus], w.zoomed \in {Nobody, w.focus},
         Fronts(ToSet(w.tabs), w.root, {}), Known(w.unread, ToSet(w.tabs)),
         Hidden(w.unread, ToSet(w.tabs), w.root, w.zoomed)
  PROVE  Good(w)
<1>1. w.focus \in Pane /\ w.activeId \in Tab \cup {Nobody} /\ w.zoomed \in Pane \cup {Nobody}
  BY RootIs
<1>2. w.unread \subseteq Tab
  BY TabIs DEF Known
<1> QED BY <1>1, <1>2 DEF Good, Typed, Focused

\* clearVisibleOutput() leaves the marks no one can see.
LEMMA ClearedIs ==
  ASSUME NEW tabs, NEW root, NEW zoomed, NEW unread, Known(unread, ToSet(tabs)),
         NEW rest, rest = ClearVisible(unread, tabs, root, zoomed)
  PROVE  Known(rest, ToSet(tabs)) /\ Hidden(rest, ToSet(tabs), root, zoomed)
BY DEF Known, Hidden, ClearVisible

\* focusPane() of a window whose panes show what they should.
LEMMA FocusPaneIs ==
  ASSUME NEW w, Typed(w), Fronts(ToSet(w.tabs), w.root, {}), Known(w.unread, ToSet(w.tabs)),
         NEW p \in Panes(w.root)
  PROVE  Good(FocusPane(w, p))
<1>1. PICK v : v = FocusPane(w, p)
  OBVIOUS
<1>2. Record(w) /\ List(w.tabs) /\ Root(w.root)
  BY DEF Typed
<1>3. /\ Record(v) /\ v.tabs = w.tabs /\ v.root = w.root /\ v.focus = p
      /\ v.activeId = w.root.front[p] /\ v.zoomed \in {Nobody, p}
      /\ v.unread = ClearVisible(w.unread, w.tabs, w.root, v.zoomed)
  BY <1>1, <1>2 DEF FocusPane, Record
<1>4. Known(v.unread, ToSet(w.tabs)) /\ Hidden(v.unread, ToSet(w.tabs), w.root, v.zoomed)
  BY <1>3, ClearedIs
<1>5. Good(v)
  BY <1>2, <1>3, <1>4, GoodMade
<1> QED BY <1>1, <1>5

\* activate() of a tab whose pane may show something else.
LEMMA ActivateIs ==
  ASSUME NEW w, Typed(w), NEW t \in ToSet(w.tabs), Fronts(ToSet(w.tabs), w.root, {t.pane}),
         Known(w.unread, ToSet(w.tabs))
  PROVE  Good(Activate(w, t.id))
<1>1. Record(w) /\ List(w.tabs) /\ Root(w.root)
  BY DEF Typed
<1>2. Named(w.tabs, t.id) = t /\ t.id \in Tab /\ t.pane \in Panes(w.root)
  BY <1>1, TabIs DEF Fronts
<1>3. PICK root : root = SetFront(w.root, t.pane, t.id)
  OBVIOUS
<1>4. /\ Root(root) /\ Panes(root) = Panes(w.root)
      /\ \A q \in Panes(w.root) : root.front[q] = IF q = t.pane THEN t.id ELSE w.root.front[q]
  BY <1>1, <1>2, <1>3, SetFrontIs
<1>5. PICK v : v = [w EXCEPT !.root = root]
  OBVIOUS
<1>6. /\ Record(v) /\ v.tabs = w.tabs /\ v.root = root /\ v.focus = w.focus
      /\ v.activeId = w.activeId /\ v.zoomed = w.zoomed /\ v.unread = w.unread
  BY <1>1, <1>5 DEF Record
<1>7. Typed(v)
  BY <1>4, <1>6 DEF Typed
<1>8. Fronts(ToSet(v.tabs), v.root, {})
  BY <1>2, <1>4, <1>6 DEF Fronts, Shows
<1>9. Good(FocusPane(v, t.pane))
  BY <1>2, <1>4, <1>6, <1>7, <1>8, FocusPaneIs
<1>10. Activate(w, t.id) = FocusPane(v, t.pane)
  BY <1>2, <1>3, <1>5 DEF Activate
<1> QED BY <1>9, <1>10

LEMMA ToggleZoomIs ==
  ASSUME NEW w, Good(w), NEW p \in Panes(w.root)
  PROVE  Good(ToggleZoom(w, p))
<1>1. PICK v : v = ToggleZoom(w, p)
  OBVIOUS
<1>2. /\ Record(w) /\ List(w.tabs) /\ Root(w.root) /\ Known(w.unread, ToSet(w.tabs))
      /\ Fronts(ToSet(w.tabs), w.root, {})
  BY GoodIs
<1>3. /\ Record(v) /\ v.tabs = w.tabs /\ v.root = w.root /\ v.focus = p
      /\ v.activeId = w.root.front[p] /\ v.zoomed \in {Nobody, p}
      /\ v.unread = ClearVisible(w.unread, w.tabs, w.root, v.zoomed)
  BY <1>1, <1>2 DEF ToggleZoom, Record
<1>4. Known(v.unread, ToSet(w.tabs)) /\ Hidden(v.unread, ToSet(w.tabs), w.root, v.zoomed)
  BY <1>2, <1>3, ClearedIs
<1>5. Good(v)
  BY <1>2, <1>3, <1>4, GoodMade
<1> QED BY <1>1, <1>5

LEMMA OpenIs ==
  ASSUME NEW w, Good(w), NEW id \in Tab, id \notin Ids(w.tabs), NEW session \in BOOLEAN
  PROVE  Good(Open(w, id, session))
<1>0. /\ Record(w) /\ Fronts(ToSet(w.tabs), w.root, {}) /\ Known(w.unread, ToSet(w.tabs))
      /\ w.focus \in Panes(w.root) /\ w.zoomed \in {Nobody, w.focus}
      /\ Hidden(w.unread, ToSet(w.tabs), w.root, w.zoomed)
      /\ List(w.tabs) /\ Root(w.root) /\ w.focus \in Pane
  BY GoodIs, RootIs
<1>2. PICK p : p = w.focus
  OBVIOUS
<1>3. PICK new : new = NewTab(id, p, session)
  OBVIOUS
<1>4. /\ new \in TabRecord /\ new.id = id /\ new.pane = p /\ ~new.pinned
  BY <1>0, <1>2, <1>3, TabsAssumption DEF NewTab, TabRecord
<1>5. PICK tabs : tabs = Append(w.tabs, new)
  OBVIOUS
<1>6. List(tabs) /\ ToSet(tabs) = ToSet(w.tabs) \union {new}
  BY <1>0, <1>4, <1>5, AppendedIs
<1>7. PICK root : root = SetFront(w.root, p, id)
  OBVIOUS
<1>8. /\ Root(root) /\ Panes(root) = Panes(w.root) /\ p \in Panes(root)
      /\ \A q \in Panes(w.root) : root.front[q] = IF q = p THEN id ELSE w.root.front[q]
  BY <1>0, <1>2, <1>7, SetFrontIs
<1>9. PICK v : v = Open(w, id, session)
  OBVIOUS
<1>10. /\ Record(v) /\ v.tabs = tabs /\ v.root = root /\ v.focus = p /\ v.activeId = id
       /\ v.zoomed = w.zoomed /\ v.unread = w.unread
  BY <1>0, <1>2, <1>3, <1>5, <1>7, <1>9 DEF Open, Record
<1>11. Fronts(ToSet(tabs), root, {})
  BY <1>0, <1>2, <1>4, <1>6, <1>8 DEF Fronts, Shows
<1>12. Known(w.unread, ToSet(tabs))
  BY <1>0, <1>6 DEF Known
<1>13. id \notin w.unread /\ \A t \in ToSet(w.tabs) : t.id # id
  <2>1. Ids(w.tabs) = {t.id : t \in ToSet(w.tabs)}
    BY <1>0, ListIs
  <2> QED BY <1>0, <2>1 DEF Known
<1>14. Hidden(w.unread, ToSet(tabs), root, w.zoomed)
  <2> SUFFICES ASSUME NEW t \in ToSet(tabs), t.id \in w.unread
               PROVE  ~TerminalIsVisible(t, root, w.zoomed)
    BY DEF Hidden
  <2>1. t \in ToSet(w.tabs) /\ t.id # id
    BY <1>4, <1>6, <1>13
  <2>2. ~TerminalIsVisible(t, w.root, w.zoomed)
    BY <1>0, <2>1 DEF Hidden
  <2> QED BY <1>8, <2>1, <2>2 DEF TerminalIsVisible
<1>15. Good(v)
  BY <1>0, <1>2, <1>6, <1>8, <1>10, <1>11, <1>12, <1>14, GoodMade
<1> QED BY <1>9, <1>15

\* One of natural numbers is at most their sum.
LEMMA SumHolds ==
  ASSUME NEW s \in Seq(Int), \A i \in 1 .. Len(s) : s[i] \in Nat, NEW k \in 1 .. Len(s)
  PROVE  s[k] <= SumOf(s)
<1>0. Len(s) \in Nat
  BY LenProperties
<1>1. PICK f : Sums(f, s) /\ SumOf(s) = f[Len(s)]
  BY SumIsLast
<1>2. \A n \in 0 .. Len(s) : f[n] = IF n = 0 THEN 0 ELSE f[n - 1] + s[n]
  BY <1>1 DEF Sums
<1>3. \A n \in Nat : n <= Len(s) => f[n] \in Int
  BY <1>1, PrefixesAreInts
<1> DEFINE S == {n \in Nat : n <= Len(s) /\ ~(f[n] >= 0)}
           T == {n \in Nat : k <= n /\ n <= Len(s) /\ ~(s[k] <= f[n])}
<1>4. S = {}
  <2>1. SUFFICES ASSUME S # {} PROVE FALSE
    OBVIOUS
  <2>2. PICK m \in S : \A n \in S : m <= n
    BY <2>1, SmallestNat
  <2>3. m \in Nat /\ m <= Len(s) /\ ~(f[m] >= 0) /\ m \in 0 .. Len(s)
    BY <1>0
  <2>4. m # 0
    BY <1>0, <1>2, <2>3
  <2>5. m - 1 \in Nat /\ m - 1 <= Len(s) /\ m - 1 \notin S
    BY <1>0, <2>2, <2>3, <2>4
  <2>6. f[m - 1] >= 0 /\ f[m - 1] \in Int
    BY <1>3, <2>5
  <2>7. f[m] = f[m - 1] + s[m] /\ s[m] \in Nat
    BY <1>0, <1>2, <2>3, <2>4
  <2> QED BY <2>3, <2>6, <2>7
<1>5. T = {}
  <2>1. SUFFICES ASSUME T # {} PROVE FALSE
    OBVIOUS
  <2>2. PICK m \in T : \A n \in T : m <= n
    <3>1. T \in SUBSET Nat
      OBVIOUS
    <3> QED BY <2>1, <3>1, SmallestNat
  <2>3. m \in Nat /\ k <= m /\ m <= Len(s) /\ ~(s[k] <= f[m]) /\ m \in 0 .. Len(s) /\ m # 0
    BY <1>0
  <2>4. m - 1 \in Nat /\ m - 1 <= Len(s)
    BY <1>0, <2>3
  <2>5. f[m] = f[m - 1] + s[m] /\ s[m] \in Nat /\ f[m - 1] \in Int
    BY <1>0, <1>2, <1>3, <2>3, <2>4
  <2>6. CASE m = k
    <3>1. f[m - 1] >= 0
      BY <1>4, <2>4
    <3> QED BY <2>3, <2>5, <2>6, <3>1
  <2>7. CASE m # k
    <3>1. k <= m - 1 /\ m - 1 \notin T /\ s[k] \in Nat
      BY <1>0, <2>2, <2>3, <2>4, <2>7
    <3>2. s[k] <= f[m - 1]
      BY <2>4, <3>1
    <3> QED BY <2>3, <2>5, <3>1, <3>2
  <2> QED BY <2>6, <2>7
<1>6. s[k] <= f[Len(s)]
  BY <1>0, <1>5
<1> QED BY <1>1, <1>6

\* The bound leaves room for one more file of a tab.
Size(w) ==
  Len(w.tabs) + Cardinality(Panes(w.root)) + SumOf([i \in DOMAIN w.tabs |-> w.tabs[i].editors])

LEMMA SizeIs ==
  ASSUME NEW w, List(w.tabs), Root(w.root)
  PROVE  /\ Size(w) \in Nat
         /\ \A t \in ToSet(w.tabs) : t.editors \in Nat /\ t.editors <= Size(w)
<1>1. PICK s : s = [i \in DOMAIN w.tabs |-> w.tabs[i].editors]
  OBVIOUS
<1>2. /\ Len(w.tabs) \in Nat /\ DOMAIN w.tabs = 1 .. Len(w.tabs)
      /\ \A i \in DOMAIN w.tabs : w.tabs[i].editors \in Nat
  BY ListIs, TabsAssumption DEF TabRecord
<1>3. s \in Seq(Int) /\ Len(s) = Len(w.tabs) /\ \A j \in 1 .. Len(s) : s[j] \in Nat
  <2>1. s \in [1 .. Len(w.tabs) -> Int] /\ \A j \in 1 .. Len(w.tabs) : s[j] \in Nat
    BY <1>1, <1>2
  <2>2. s \in Seq(Int) /\ DOMAIN s = 1 .. Len(w.tabs)
    BY <1>2, <2>1
  <2>3. Len(s) = Len(w.tabs)
    BY <1>2, <2>2, LenProperties
  <2> QED BY <2>1, <2>2, <2>3
<1>4. SumOf(s) \in Nat
  BY <1>3, SumIsNat
<1>5. Cardinality(Panes(w.root)) \in Nat
  BY RootIs, FS_CardinalityType
<1>6. PICK a \in Nat, b \in Nat, c \in Nat :
        a = Len(w.tabs) /\ b = Cardinality(Panes(w.root)) /\ c = SumOf(s)
  BY <1>2, <1>4, <1>5
<1>7. Size(w) = a + b + c
  BY <1>1, <1>6 DEF Size
<1>8. \A t \in ToSet(w.tabs) : t.editors \in Nat /\ t.editors <= c
  <2> SUFFICES ASSUME NEW t \in ToSet(w.tabs)
               PROVE  t.editors \in Nat /\ t.editors <= c
    OBVIOUS
  <2>1. PICK i \in 1 .. Len(w.tabs) : w.tabs[i] = t
    BY <1>2, ListIs
  <2>2. s[i] <= SumOf(s)
    BY <1>3, SumHolds
  <2> QED BY <1>1, <1>2, <1>6, <2>1, <2>2
<1> QED BY <1>6, <1>7, <1>8

LEMMA EditorsFit ==
  ASSUME NEW w, List(w.tabs), Root(w.root), Size(w) + 1 <= MaxSize, NEW t \in ToSet(w.tabs)
  PROVE  t.editors + 1 \in 0 .. MaxSize
BY SizeIs, TabsAssumption

\* A tab in the place of another of its name and pane.
Swaps(U, T, old, new) ==
  U = (T \ {old}) \union {new} /\ old \in T /\ new.id = old.id /\ new.pane = old.pane

LEMMA SwapsIs ==
  ASSUME NEW tabs, List(tabs), NEW U, NEW old, NEW new, Swaps(U, ToSet(tabs), old, new), NEW root
  PROVE  /\ Fronts(ToSet(tabs), root, {}) => Fronts(U, root, {})
         /\ \A unread : Known(unread, ToSet(tabs)) /\ (old.id \in unread => new.session)
              => Known(unread, U)
         /\ \A unread, zoomed :
              /\ Hidden(unread, ToSet(tabs), root, zoomed)
              /\ new.id \in unread => ~TerminalIsVisible(new, root, zoomed)
              => Hidden(unread, U, root, zoomed)
<1> DEFINE T == ToSet(tabs)
<1>1. \A t \in T : t = old \/ t \in U
  BY DEF Swaps
<1>2. \A t \in U : t = new \/ t \in T
  BY DEF Swaps
<1>3. new \in U /\ old \in T /\ new.id = old.id /\ new.pane = old.pane
  BY DEF Swaps
<1> HIDE DEF T
<1>4. \A p : (\E t \in U : t.pane = p) <=> (\E t \in T : t.pane = p)
  BY <1>1, <1>2, <1>3
<1>5. \A p, id : (\E t \in U : t.pane = p /\ t.id = id) <=> (\E t \in T : t.pane = p /\ t.id = id)
  BY <1>1, <1>2, <1>3
<1>6. Fronts(T, root, {}) => Fronts(U, root, {})
  <2>1. \A p : Shows(T, root, p) => Shows(U, root, p)
    BY <1>4, <1>5 DEF Shows
  <2> QED BY <1>2, <1>3, <2>1 DEF Fronts
<1>7. \A unread : Known(unread, T) /\ (old.id \in unread => new.session) => Known(unread, U)
  BY <1>1, <1>3 DEF Known
<1>8. \A unread, zoomed : /\ Hidden(unread, T, root, zoomed)
                          /\ new.id \in unread => ~TerminalIsVisible(new, root, zoomed)
                          => Hidden(unread, U, root, zoomed)
  BY <1>2 DEF Hidden
<1> QED BY <1>6, <1>7, <1>8 DEF T

\* What stays when the tabs of a window are edited.
LEMMA EditedIs ==
  ASSUME NEW w, Good(w), NEW old, NEW new, NEW v, Record(v), List(v.tabs),
         Swaps(ToSet(v.tabs), ToSet(w.tabs), old, new), v.root = w.root, v.focus = w.focus,
         v.activeId = w.activeId, v.zoomed = w.zoomed, old.id \in w.unread => new.session,
         \/ /\ v.unread = w.unread
            /\ new.id \in w.unread => ~TerminalIsVisible(new, w.root, w.zoomed)
         \/ v.unread = ClearVisible(w.unread, v.tabs, w.root, w.zoomed)
  PROVE  Good(v)
<1>1. /\ List(w.tabs) /\ Root(w.root) /\ Fronts(ToSet(w.tabs), w.root, {})
      /\ Known(w.unread, ToSet(w.tabs)) /\ Hidden(w.unread, ToSet(w.tabs), w.root, w.zoomed)
      /\ w.focus \in Panes(w.root) /\ w.activeId = w.root.front[w.focus]
      /\ w.zoomed \in {Nobody, w.focus}
  BY GoodIs
<1>2. Fronts(ToSet(v.tabs), w.root, {}) /\ Known(w.unread, ToSet(v.tabs))
  BY <1>1, SwapsIs
<1>3. Known(v.unread, ToSet(v.tabs)) /\ Hidden(v.unread, ToSet(v.tabs), w.root, w.zoomed)
  <2>1. CASE /\ v.unread = w.unread
             /\ new.id \in w.unread => ~TerminalIsVisible(new, w.root, w.zoomed)
    BY <1>1, <1>2, <2>1, SwapsIs
  <2>2. CASE v.unread = ClearVisible(w.unread, v.tabs, w.root, w.zoomed)
    BY <1>2, <2>2, ClearedIs
  <2> QED BY <2>1, <2>2
<1> QED BY <1>1, <1>2, <1>3, GoodMade

LEMMA ReplaceEmptyIs ==
  ASSUME NEW w, Good(w), NEW t \in ToSet(w.tabs), ~t.session
  PROVE  Good(ReplaceEmpty(w, t))
<1>1. Record(w) /\ List(w.tabs) /\ Known(w.unread, ToSet(w.tabs))
  BY GoodIs
<1>2. PICK new : new = [NewTab(t.id, t.pane, TRUE) EXCEPT !.pinned = t.pinned]
  OBVIOUS
<1>3. /\ t \in TabRecord /\ new \in TabRecord /\ new.id = t.id /\ new.pane = t.pane
      /\ new.pinned = t.pinned
  <2>1. t \in TabRecord
    BY <1>1, TabIs
  <2>2. PICK x : x = NewTab(t.id, t.pane, TRUE)
    OBVIOUS
  <2>3. 0 \in 0 .. MaxSize
    BY TabsAssumption
  <2>4. x \in TabRecord /\ x.id = t.id /\ x.pane = t.pane
    BY <2>1, <2>2, <2>3 DEF TabRecord, NewTab
  <2>5. new = [x EXCEPT !.pinned = t.pinned] /\ t.pinned \in BOOLEAN
    BY <1>2, <2>1, <2>2 DEF TabRecord
  <2> QED BY <2>1, <2>4, <2>5 DEF TabRecord
<1>4. PICK tabs : tabs = Edit(w.tabs, new)
  OBVIOUS
<1>5. List(tabs) /\ Swaps(ToSet(tabs), ToSet(w.tabs), t, new)
  BY <1>1, <1>3, <1>4, EditIs DEF Swaps
<1>6. PICK v : v = ReplaceEmpty(w, t)
  OBVIOUS
<1>7. v = [w EXCEPT !.tabs = tabs]
  BY <1>1, <1>2, <1>4, <1>6 DEF ReplaceEmpty
<1>8. /\ Record(v) /\ v.root = w.root /\ v.focus = w.focus /\ v.activeId = w.activeId
      /\ v.zoomed = w.zoomed /\ v.tabs = tabs /\ v.unread = w.unread
  BY <1>1, <1>7 DEF Record
<1>9. t.id \notin w.unread
  BY <1>1, ListIs DEF Known
<1>10. Good(v)
  BY <1>3, <1>5, <1>8, <1>9, EditedIs
<1> QED BY <1>6, <1>10

LEMMA ShowEditorIs ==
  ASSUME NEW w, Good(w), NEW t \in ToSet(w.tabs), NEW more \in {0, 1},
         t.session \/ t.editors > 0, t.editors + more \in 1 .. MaxSize
  PROVE  Good(ShowEditor(w, t, more))
<1>1. Record(w) /\ List(w.tabs) /\ Known(w.unread, ToSet(w.tabs))
  BY GoodIs
<1>2. PICK new : new = [t EXCEPT !.editors = @ + more, !.shown = FALSE]
  OBVIOUS
<1>3. t \in TabRecord
  BY <1>1, TabIs
<1>4. t.editors + more \in 0 .. MaxSize /\ t.editors + more # 0
  BY TabsAssumption
<1>5. /\ new \in TabRecord /\ new.id = t.id /\ new.pane = t.pane /\ new.pinned = t.pinned
      /\ new.session = t.session /\ new.editors = t.editors + more /\ ~new.shown
  BY <1>2, <1>3, <1>4 DEF TabRecord
<1>6. PICK tabs : tabs = Edit(w.tabs, new)
  OBVIOUS
<1>7. List(tabs) /\ Swaps(ToSet(tabs), ToSet(w.tabs), t, new)
  BY <1>1, <1>5, <1>6, EditIs DEF Swaps
<1>8. PICK v : v = ShowEditor(w, t, more)
  OBVIOUS
<1>9. v = [w EXCEPT !.tabs = tabs]
  BY <1>1, <1>2, <1>6, <1>8 DEF ShowEditor
<1>10. /\ Record(v) /\ v.root = w.root /\ v.focus = w.focus /\ v.activeId = w.activeId
       /\ v.zoomed = w.zoomed /\ v.tabs = tabs /\ v.unread = w.unread
  BY <1>1, <1>9 DEF Record
<1>11. t.id \in w.unread => t.session
  BY <1>1, ListIs DEF Known
<1>12. ~TerminalIsVisible(new, w.root, w.zoomed)
  BY <1>4, <1>5 DEF TerminalIsVisible
<1>13. Good(v)
  BY <1>5, <1>7, <1>10, <1>11, <1>12, EditedIs
<1> QED BY <1>8, <1>13

\* An edit after which clearVisibleOutput() runs.
LEMMA WithTabsIs ==
  ASSUME NEW w, Good(w), NEW t \in ToSet(w.tabs), NEW new \in TabRecord, new.id = t.id,
         new.pane = t.pane, new.pinned = t.pinned, new.session = t.session
  PROVE  Good(WithTabs(w, Edit(w.tabs, new)))
<1>1. Record(w) /\ List(w.tabs) /\ Known(w.unread, ToSet(w.tabs))
  BY GoodIs
<1>2. PICK tabs : tabs = Edit(w.tabs, new)
  OBVIOUS
<1>3. List(tabs) /\ Swaps(ToSet(tabs), ToSet(w.tabs), t, new)
  BY <1>1, <1>2, EditIs DEF Swaps
<1>4. PICK unread, v : /\ unread = ClearVisible(w.unread, tabs, w.root, w.zoomed)
                       /\ v = WithTabs(w, tabs)
  OBVIOUS
<1>5. v = [w EXCEPT !.tabs = tabs, !.unread = unread]
  BY <1>1, <1>4 DEF WithTabs
<1>6. /\ Record(v) /\ v.root = w.root /\ v.focus = w.focus /\ v.activeId = w.activeId
      /\ v.zoomed = w.zoomed /\ v.tabs = tabs /\ v.unread = unread
  BY <1>1, <1>5 DEF Record
<1>7. t.id \in w.unread => t.session
  BY <1>1, ListIs DEF Known
<1>8. Good(v)
  BY <1>3, <1>4, <1>6, <1>7, EditedIs
<1> QED BY <1>2, <1>4, <1>8

LEMMA CloseEditorIs ==
  ASSUME NEW w, Good(w), NEW t \in ToSet(w.tabs), t.editors > 0
  PROVE  Good(CloseEditor(w, t))
<1>1. PICK new : new = [t EXCEPT !.editors = @ - 1, !.shown = @ /\ t.editors > 1]
  OBVIOUS
<1>2. t \in TabRecord
  BY GoodIs, TabIs
<1>3. t.editors - 1 \in 0 .. MaxSize /\ (t.shown /\ t.editors > 1) \in BOOLEAN
  BY <1>2, TabsAssumption DEF TabRecord
<1>4. /\ new \in TabRecord /\ new.id = t.id /\ new.pane = t.pane /\ new.pinned = t.pinned
      /\ new.session = t.session
  BY <1>1, <1>2, <1>3 DEF TabRecord
<1>5. CloseEditor(w, t) = WithTabs(w, Edit(w.tabs, new))
  BY <1>1 DEF CloseEditor
<1> QED BY <1>4, <1>5, WithTabsIs

LEMMA ShowTerminalIs ==
  ASSUME NEW w, Good(w), NEW t \in ToSet(w.tabs)
  PROVE  Good(ShowTerminal(w, t))
<1>1. PICK new : new = [t EXCEPT !.shown = TRUE]
  OBVIOUS
<1>2. t \in TabRecord
  BY GoodIs, TabIs
<1>3. /\ new \in TabRecord /\ new.id = t.id /\ new.pane = t.pane /\ new.pinned = t.pinned
      /\ new.session = t.session
  BY <1>1, <1>2 DEF TabRecord
<1>4. ShowTerminal(w, t) = WithTabs(w, Edit(w.tabs, new))
  BY <1>1 DEF ShowTerminal
<1> QED BY <1>3, <1>4, WithTabsIs

LEMMA NotifyOutputIs ==
  ASSUME NEW w, Good(w), NEW t \in ToSet(w.tabs), t.session
  PROVE  Good(NotifyOutput(w, t.id))
<1>1. /\ Record(w) /\ List(w.tabs) /\ Root(w.root) /\ Fronts(ToSet(w.tabs), w.root, {})
      /\ Known(w.unread, ToSet(w.tabs)) /\ Hidden(w.unread, ToSet(w.tabs), w.root, w.zoomed)
      /\ w.focus \in Panes(w.root) /\ w.activeId = w.root.front[w.focus]
      /\ w.zoomed \in {Nobody, w.focus}
  BY GoodIs
<1>2. Named(w.tabs, t.id) = t
  BY <1>1, TabIs
<1>3. PICK unread : unread = IF TerminalIsVisible(t, w.root, w.zoomed) THEN w.unread \ {t.id}
                             ELSE w.unread \cup {t.id}
  OBVIOUS
<1>4. PICK v : v = NotifyOutput(w, t.id)
  OBVIOUS
<1>5. v = [w EXCEPT !.unread = unread]
  BY <1>1, <1>2, <1>3, <1>4 DEF NotifyOutput
<1>6. /\ Record(v) /\ v.root = w.root /\ v.focus = w.focus /\ v.activeId = w.activeId
      /\ v.zoomed = w.zoomed /\ v.tabs = w.tabs /\ v.unread = unread
  BY <1>1, <1>5 DEF Record
<1>7. Known(unread, ToSet(w.tabs))
  BY <1>1, <1>3 DEF Known
<1>8. Hidden(unread, ToSet(w.tabs), w.root, w.zoomed)
  <2> SUFFICES ASSUME NEW u \in ToSet(w.tabs), u.id \in unread
               PROVE  ~TerminalIsVisible(u, w.root, w.zoomed)
    BY DEF Hidden
  <2>1. CASE u.id = t.id
    <3>1. u = t
      BY <1>1, <2>1, ListIs
    <3> QED BY <1>3, <3>1
  <2>2. CASE u.id # t.id
    BY <1>1, <1>3, <2>2 DEF Hidden
  <2> QED BY <2>1, <2>2
<1>9. Good(v)
  BY <1>1, <1>6, <1>7, <1>8, GoodMade
<1> QED BY <1>4, <1>9

LEMMA SetPinnedIs ==
  ASSUME NEW w, Good(w), NEW t \in ToSet(w.tabs), NEW pinned \in BOOLEAN
  PROVE  Good(SetPinned(w, t.id, pinned))
<1>1. Record(w) /\ List(w.tabs) /\ Known(w.unread, ToSet(w.tabs))
      /\ Hidden(w.unread, ToSet(w.tabs), w.root, w.zoomed)
  BY GoodIs
<1>2. t \in TabRecord /\ Named(w.tabs, t.id) = t
  BY <1>1, TabIs
<1>3. PICK tab : tab = [t EXCEPT !.pinned = pinned]
  OBVIOUS
<1>4. /\ tab \in TabRecord /\ tab.id = t.id /\ tab.pane = t.pane /\ tab.session = t.session
      /\ tab.editors = t.editors /\ tab.shown = t.shown
  BY <1>2, <1>3 DEF TabRecord
<1>5. PICK others : others = Without(InPane(w.tabs, t.pane), t.id)
  OBVIOUS
<1>6. PICK there : there = InsertAt(others, GroupEnd(others), tab)
  OBVIOUS
<1>7. PICK r : r = [i \in DOMAIN w.tabs |->
                      IF w.tabs[i].pane = t.pane THEN there[Rank(w.tabs, t.pane, i)]
                      ELSE w.tabs[i]]
  OBVIOUS
<1>8. List(r) /\ ToSet(r) = (ToSet(w.tabs) \ {t}) \union {tab}
  <2>1. PICK tabs, p : tabs = w.tabs /\ p = t.pane
    OBVIOUS
  <2>2. /\ List(tabs) /\ t \in ToSet(tabs) /\ tab \in TabRecord /\ tab.id = t.id
        /\ tab.pane = t.pane /\ p = t.pane /\ others = Without(InPane(tabs, p), t.id)
        /\ there = InsertAt(others, GroupEnd(others), tab)
        /\ r = [i \in DOMAIN tabs |->
                  IF tabs[i].pane = p THEN there[Rank(tabs, p, i)] ELSE tabs[i]]
    BY <1>1, <1>4, <1>5, <1>6, <1>7, <2>1
  <2>3. List(r) /\ ToSet(r) = (ToSet(tabs) \ {t}) \union {tab}
    BY ONLY <2>2, RegroupIs
  <2> QED BY <2>1, <2>3
<1>9. PICK v : v = SetPinned(w, t.id, pinned)
  OBVIOUS
<1>10. v = [w EXCEPT !.tabs = r]
  <2>1. SetPinned(w, t.id, pinned) =
          [w EXCEPT !.tabs = [i \in DOMAIN w.tabs |->
             IF w.tabs[i].pane = tab.pane THEN there[Rank(w.tabs, tab.pane, i)] ELSE w.tabs[i]]]
    <3>1. tab = [Named(w.tabs, t.id) EXCEPT !.pinned = pinned]
      BY <1>2, <1>3
    <3>2. others = Without(InPane(w.tabs, tab.pane), t.id)
      BY <1>4, <1>5
    <3> QED BY ONLY <1>6, <3>1, <3>2 DEF SetPinned, GroupEnd, Rank
  <2> QED BY <1>4, <1>7, <1>9, <2>1
<1>11. /\ Record(v) /\ v.root = w.root /\ v.focus = w.focus /\ v.activeId = w.activeId
       /\ v.zoomed = w.zoomed /\ v.tabs = r /\ v.unread = w.unread
  BY <1>1, <1>10 DEF Record
<1>12. Swaps(ToSet(r), ToSet(w.tabs), t, tab)
  BY <1>4, <1>8 DEF Swaps
<1>13. t.id \in w.unread => t.session
  BY <1>1, ListIs DEF Known
<1>14. tab.id \in w.unread => ~TerminalIsVisible(tab, w.root, w.zoomed)
  BY <1>1, <1>4 DEF Hidden, TerminalIsVisible
<1>15. Good(v)
  BY <1>4, <1>8, <1>11, <1>12, <1>13, <1>14, EditedIs
<1> QED BY <1>9, <1>15

LEMMA CycleIs ==
  ASSUME NEW w, Good(w), Len(InPane(w.tabs, w.focus)) > 1, NEW backwards \in BOOLEAN
  PROVE  Good(Cycle(w, backwards))
<1>1. /\ Record(w) /\ List(w.tabs) /\ Root(w.root) /\ Fronts(ToSet(w.tabs), w.root, {})
      /\ Known(w.unread, ToSet(w.tabs)) /\ Hidden(w.unread, ToSet(w.tabs), w.root, w.zoomed)
      /\ w.focus \in Panes(w.root) /\ w.activeId = w.root.front[w.focus]
      /\ w.zoomed \in {Nobody, w.focus}
  BY GoodIs
<1>2. PICK there : there = InPane(w.tabs, w.focus)
  OBVIOUS
<1>3. /\ List(there) /\ ToSet(there) = {t \in ToSet(w.tabs) : t.pane = w.focus}
      /\ Ids(there) = {t.id : t \in {u \in ToSet(w.tabs) : u.pane = w.focus}}
  BY <1>1, <1>2, InPaneIs
<1>4. Len(there) \in Nat /\ DOMAIN there = 1 .. Len(there) /\ Len(there) > 1
  BY <1>2, <1>3, ListIs
<1>5. w.activeId \in Ids(there)
  <2>1. there # <<>>
    BY <1>4
  <2>2. \E t \in ToSet(w.tabs) : t.pane = w.focus
    BY <1>3, <2>1, ListIs
  <2> QED BY <1>1, <1>3, <2>2 DEF Fronts, Shows
<1>6. PICK i, n : i = IndexOf(there, w.activeId) /\ n = Len(there)
  OBVIOUS
<1>7. i \in 1 .. n /\ n \in Nat /\ n > 1
  BY <1>3, <1>4, <1>5, <1>6, IndexIs
<1>8. PICK k : k = ((i + (IF backwards THEN -2 ELSE 0) + n) % n) + 1
  OBVIOUS
<1>9. k \in 1 .. n
  <2>1. i + (IF backwards THEN -2 ELSE 0) + n \in Int
    BY <1>7
  <2> QED BY <1>7, <1>8, <2>1
<1>10. PICK tab : tab = there[k]
  OBVIOUS
<1>11. tab \in ToSet(w.tabs) /\ tab.pane = w.focus /\ tab.id \in Tab
  <2>1. tab \in ToSet(there)
    BY <1>3, <1>4, <1>6, <1>9, <1>10, ListIs
  <2> QED BY <1>1, <1>3, <2>1, TabIs
<1>12. Around(there, IndexOf(there, w.activeId), backwards) = tab
  BY <1>6, <1>8, <1>10 DEF Around
<1>13. PICK root : root = SetFront(w.root, w.focus, tab.id)
  OBVIOUS
<1>14. /\ Root(root) /\ Panes(root) = Panes(w.root)
       /\ \A q \in Panes(w.root) : root.front[q] = IF q = w.focus THEN tab.id ELSE w.root.front[q]
  BY <1>1, <1>11, <1>13, SetFrontIs
<1>15. PICK v : v = Cycle(w, backwards)
  OBVIOUS
<1>16. v = [w EXCEPT !.unread = @ \ {tab.id}, !.activeId = tab.id, !.root = root]
  BY <1>1, <1>2, <1>12, <1>13, <1>15 DEF Cycle, Record
<1>17. /\ Record(v) /\ v.tabs = w.tabs /\ v.root = root /\ v.focus = w.focus
       /\ v.activeId = tab.id /\ v.zoomed = w.zoomed /\ v.unread = w.unread \ {tab.id}
  BY <1>1, <1>16 DEF Record
<1>18. Fronts(ToSet(w.tabs), root, {})
  BY <1>1, <1>11, <1>14 DEF Fronts, Shows
<1>19. Known(v.unread, ToSet(w.tabs))
  BY <1>1, <1>17 DEF Known
<1>20. Hidden(v.unread, ToSet(w.tabs), root, w.zoomed)
  <2> SUFFICES ASSUME NEW t \in ToSet(w.tabs), t.id \in v.unread
               PROVE  ~TerminalIsVisible(t, root, w.zoomed)
    BY DEF Hidden
  <2>1. t.id \in w.unread /\ t.id # tab.id
    BY <1>17
  <2>2. ~TerminalIsVisible(t, w.root, w.zoomed)
    BY <1>1, <2>1 DEF Hidden
  <2> QED BY <1>14, <2>1, <2>2 DEF TerminalIsVisible
<1>21. Good(v)
  BY <1>1, <1>14, <1>17, <1>18, <1>19, <1>20, GoodMade
<1> QED BY <1>15, <1>21

LEMMA SplitIs ==
  ASSUME NEW w, Good(w), NEW p \in Panes(w.root), NEW d \in Directions,
         NEW new \in Pane, new \notin Panes(w.root)
  PROVE  /\ Good(Split(w, p, d, new)) /\ Split(w, p, d, new).tabs = w.tabs
         /\ new \in Panes(Split(w, p, d, new).root) /\ Split(w, p, d, new).focus = new
<1>1. /\ Record(w) /\ List(w.tabs) /\ Root(w.root) /\ Fronts(ToSet(w.tabs), w.root, {})
      /\ Known(w.unread, ToSet(w.tabs))
  BY GoodIs
<1>2. PICK root : root = InsertSplit(w.root, p, d, new)
  OBVIOUS
<1>3. /\ Root(root) /\ Panes(root) = Panes(w.root) \cup {new} /\ root.front[new] = Nobody
      /\ \A q \in Panes(w.root) : root.front[q] = w.root.front[q]
  BY <1>1, <1>2, InsertSplitIs
<1>4. PICK v : v = Split(w, p, d, new)
  OBVIOUS
<1>5. /\ Record(v) /\ v.tabs = w.tabs /\ v.root = root /\ v.focus = new /\ v.activeId = Nobody
      /\ v.zoomed = Nobody /\ v.unread = ClearVisible(w.unread, w.tabs, root, Nobody)
  BY <1>1, <1>2, <1>4 DEF Split, Record
<1>6. Fronts(ToSet(w.tabs), root, {})
  BY <1>1, <1>3 DEF Fronts, Shows
<1>7. Known(v.unread, ToSet(w.tabs)) /\ Hidden(v.unread, ToSet(w.tabs), root, Nobody)
  BY <1>1, <1>5, ClearedIs
<1>8. Good(v)
  BY <1>1, <1>3, <1>5, <1>6, <1>7, GoodMade
<1> QED BY <1>3, <1>4, <1>5, <1>8

LEMMA SplitActivePaneIs ==
  ASSUME NEW w, Good(w), NEW d \in Directions, NEW new \in Pane, new \notin Panes(w.root),
         NEW id \in Tab, id \notin Ids(w.tabs)
  PROVE  Good(SplitActivePane(w, d, new, id))
<1>1. w.focus \in Panes(w.root)
  BY GoodIs
<1>2. PICK v : v = Split(w, w.focus, d, new)
  OBVIOUS
<1>3. Good(v) /\ v.tabs = w.tabs
  BY <1>1, <1>2, SplitIs
<1>4. Good(Open(v, id, TRUE))
  BY <1>3, OpenIs
<1> QED BY <1>2, <1>4 DEF SplitActivePane

\* A pane is gone from the tree, with the tabs it had.
LEMMA CollapsedIs ==
  ASSUME NEW w, Good(w), NEW p \in Panes(w.root), Panes(w.root) # {p}, NEW tabs, List(tabs),
         ToSet(tabs) = {t \in ToSet(w.tabs) : t.pane # p}
  PROVE  Good(Collapsed(w, p, tabs))
<1>1. /\ Record(w) /\ List(w.tabs) /\ Root(w.root) /\ Fronts(ToSet(w.tabs), w.root, {})
      /\ Known(w.unread, ToSet(w.tabs))
      /\ w.focus \in Panes(w.root) /\ w.activeId = w.root.front[w.focus]
      /\ w.zoomed \in {Nobody, w.focus}
  BY GoodIs
<1>2. PICK root, next, zoomed, unread :
        /\ root = RemovePane(w.root, p) /\ next = FocusAfter(w.root, p)
        /\ zoomed = IF w.zoomed = p THEN Nobody ELSE w.zoomed
        /\ unread = ClearVisible(w.unread \cap Ids(tabs), tabs, root, zoomed)
  OBVIOUS
<1>3. /\ Root(root) /\ Panes(root) = Panes(w.root) \ {p}
      /\ \A q \in Panes(w.root) \ {p} : root.front[q] = w.root.front[q]
  BY <1>1, <1>2, RemovePaneIs
<1>4. next \in Panes(root)
  BY <1>1, <1>2, <1>3, FocusAfterIs
<1>5. PICK v : v = Collapsed(w, p, tabs)
  OBVIOUS
<1>6. /\ Record(v) /\ v.tabs = tabs /\ v.root = root /\ v.zoomed = zoomed /\ v.unread = unread
      /\ v.focus = (IF w.focus = p THEN next ELSE w.focus)
      /\ v.activeId = (IF w.focus = p THEN w.root.front[next] ELSE w.activeId)
  BY <1>2, <1>5 DEF Collapsed, Record
<1>7. v.focus \in Panes(root) /\ v.activeId = root.front[v.focus]
  BY <1>1, <1>3, <1>4, <1>6
<1>8. v.zoomed \in {Nobody, v.focus}
  BY <1>1, <1>2, <1>6
<1>9. Fronts(ToSet(tabs), root, {})
  BY <1>1, <1>3 DEF Fronts, Shows
<1>10. Known(w.unread \cap Ids(tabs), ToSet(tabs))
  <2>1. Ids(tabs) = {t.id : t \in ToSet(tabs)}
    BY ListIs
  <2>2. \A t, u \in ToSet(w.tabs) : t.id = u.id => t = u
    BY <1>1, ListIs
  <2> QED BY <1>1, <2>1, <2>2 DEF Known
<1>11. Known(unread, ToSet(tabs)) /\ Hidden(unread, ToSet(tabs), root, zoomed)
  BY <1>2, <1>10, ClearedIs
<1>12. Good(v)
  BY <1>3, <1>6, <1>7, <1>8, <1>9, <1>11, GoodMade
<1> QED BY <1>5, <1>12

LEMMA ClosePaneIs ==
  ASSUME NEW w, Good(w), NEW p \in Panes(w.root), Panes(w.root) # {p}
  PROVE  Good(ClosePane(w, p))
<1>1. List(w.tabs)
  BY GoodIs
<1> DEFINE I == {i \in DOMAIN w.tabs : w.tabs[i].pane # p}
<1>2. PICK tabs : tabs = AtPlaces(w.tabs, I)
  OBVIOUS
<1>3. List(tabs) /\ ToSet(tabs) = {w.tabs[i] : i \in I}
  BY <1>1, <1>2, PartIs
<1>4. ToSet(tabs) = {t \in ToSet(w.tabs) : t.pane # p}
  BY <1>3 DEF ToSet
<1>5. Good(Collapsed(w, p, tabs))
  BY <1>3, <1>4, CollapsedIs
<1> QED BY <1>2, <1>5 DEF ClosePane

Succeeds(T, p, id) ==
  IF id = Nobody THEN \A t \in T : t.pane # p ELSE \E t \in T : t.pane = p /\ t.id = id

\* A tab takes over for one that left a pane, if there is one.
LEMMA ReplacementIs ==
  ASSUME NEW tabs, List(tabs), NEW p, NEW index \in Nat, index >= 1, NEW id,
         id = TakesOver(InPane(tabs, p), index)
  PROVE  id \in Tab \cup {Nobody} /\ Succeeds(ToSet(tabs), p, id)
<1>1. PICK there : there = InPane(tabs, p)
  OBVIOUS
<1>2. /\ List(there) /\ ToSet(there) = {t \in ToSet(tabs) : t.pane = p}
      /\ Ids(there) = {t.id : t \in {u \in ToSet(tabs) : u.pane = p}}
  BY <1>1, InPaneIs
<1>3. CASE there = <<>>
  <2>1. id = Nobody
    BY <1>1, <1>2, <1>3, TakesOverIs
  <2>2. ToSet(there) = {}
    BY <1>2, <1>3, ListIs
  <2> QED BY <1>2, <2>1, <2>2 DEF Succeeds
<1>4. CASE there # <<>>
  <2>1. id \in Ids(there)
    BY <1>1, <1>2, <1>4, TakesOverIs
  <2>2. PICK t \in ToSet(tabs) : t.pane = p /\ t.id = id
    BY <1>2, <2>1
  <2>3. id \in Tab /\ id # Nobody
    BY <2>2, TabIs
  <2> QED BY <2>2, <2>3 DEF Succeeds
<1> QED BY <1>3, <1>4

\* What the pane shows then.
Remains(T, U, t) == \A u \in T : u.pane = t.pane => u = t \/ u \in U

LEMMA LeftIs ==
  ASSUME NEW T, NEW U, NEW t \in T, NEW p, p = t.pane, Remains(T, U, t), NEW id, Succeeds(U, p, id),
         NEW root, NEW after, Shows(T, root, p), NEW was, was = root.front[p], NEW is,
         is = after.front[p], was = t.id => is = id, was # t.id => is = was
  PROVE  Shows(U, after, p)
<1>1. CASE was = t.id
  BY <1>1 DEF Shows, Succeeds
<1>2. CASE was # t.id
  <2>1. PICK u \in T : u.pane = p /\ u.id = was
    BY DEF Shows
  <2>2. u \in U /\ u.id = is
    BY <1>2, <2>1 DEF Remains
  <2> QED BY <2>1, <2>2 DEF Shows
<1> QED BY <1>1, <1>2

LEMMA CloseIs ==
  ASSUME NEW w, Good(w), NEW t \in ToSet(w.tabs)
  PROVE  Good(Close(w, t.id))
<1>1. /\ Record(w) /\ List(w.tabs) /\ Root(w.root) /\ Fronts(ToSet(w.tabs), w.root, {})
      /\ Known(w.unread, ToSet(w.tabs))
      /\ w.focus \in Panes(w.root) /\ w.activeId = w.root.front[w.focus]
      /\ w.zoomed \in {Nobody, w.focus}
  BY GoodIs
<1>2. PICK p, tabs, index, replacement, front, root, unread :
        /\ p = t.pane /\ tabs = Without(w.tabs, t.id)
        /\ index = IndexOf(InPane(w.tabs, p), t.id)
        /\ replacement = TakesOver(InPane(tabs, p), index)
        /\ front = IF w.root.front[p] = t.id THEN replacement ELSE w.root.front[p]
        /\ root = SetFront(w.root, p, front)
        /\ unread = ClearVisible(w.unread \ {t.id}, tabs, root, w.zoomed)
  OBVIOUS
<1>3. Named(w.tabs, t.id) = t /\ p \in Panes(w.root) /\ t.id \in Tab /\ t.id # Nobody
  BY <1>1, <1>2, TabIs DEF Fronts
<1>4. List(tabs) /\ ToSet(tabs) = {u \in ToSet(w.tabs) : u.id # t.id}
  BY <1>1, <1>2, WithoutIs
<1>5. ToSet(tabs) = ToSet(w.tabs) \ {t}
  BY <1>1, <1>4, ListIs
<1>6. index \in Nat /\ index >= 1
  <2>1. PICK there : there = InPane(w.tabs, p)
    OBVIOUS
  <2>2. List(there) /\ t.id \in Ids(there)
    BY <1>1, <1>2, <2>1, InPaneIs
  <2> QED BY <1>2, <2>1, <2>2, IndexIs
<1>7. replacement \in Tab \cup {Nobody} /\ Succeeds(ToSet(tabs), p, replacement)
  BY <1>2, <1>4, <1>6, ReplacementIs
<1>8. /\ IsFiniteSet(Panes(w.root))
      /\ \A q \in Panes(w.root) : w.root.front[q] \in Tab \cup {Nobody}
  BY <1>1, RootIs
<1>9. PICK v : v = Close(w, t.id)
  OBVIOUS
<1>10. v = IF replacement = Nobody /\ Cardinality(Panes(w.root)) > 1 THEN Collapsed(w, p, tabs)
           ELSE [w EXCEPT !.tabs = tabs, !.root = root, !.unread = unread,
                          !.activeId = IF @ = t.id THEN front ELSE @]
  BY <1>2, <1>3, <1>9 DEF Close
<1>11. CASE replacement = Nobody /\ Cardinality(Panes(w.root)) > 1
  <2>1. Panes(w.root) # {p}
    <3>1. Cardinality({p}) = 1
      BY FS_Singleton
    <3> QED BY <1>11, <3>1
  <2>2. ToSet(tabs) = {u \in ToSet(w.tabs) : u.pane # p}
    BY <1>2, <1>5, <1>7, <1>11 DEF Succeeds
  <2>3. Good(Collapsed(w, p, tabs))
    BY <1>3, <1>4, <2>1, <2>2, CollapsedIs
  <2> QED BY <1>9, <1>10, <1>11, <2>3
<1>12. CASE ~(replacement = Nobody /\ Cardinality(Panes(w.root)) > 1)
  <2>1. v = [w EXCEPT !.tabs = tabs, !.root = root, !.unread = unread,
                      !.activeId = IF w.activeId = t.id THEN front ELSE w.activeId]
    BY <1>1, <1>10, <1>12 DEF Record
  <2>2. /\ Record(v) /\ v.tabs = tabs /\ v.root = root /\ v.unread = unread
        /\ v.focus = w.focus /\ v.zoomed = w.zoomed
        /\ v.activeId = IF w.activeId = t.id THEN front ELSE w.activeId
    BY <1>1, <2>1 DEF Record
  <2>3. front \in Tab \cup {Nobody}
    BY <1>2, <1>3, <1>7, <1>8
  <2>4. /\ Root(root) /\ Panes(root) = Panes(w.root)
        /\ \A q \in Panes(w.root) : root.front[q] = IF q = p THEN front ELSE w.root.front[q]
    <3>1. Root(w.root) /\ p \in Panes(w.root) /\ root = SetFront(w.root, p, front)
      BY <1>1, <1>2, <1>3
    <3> QED BY ONLY <2>3, <3>1, SetFrontIs
  <2>5. \A q \in Panes(w.root) : q # p => w.root.front[q] # t.id
    <3> SUFFICES ASSUME NEW q \in Panes(w.root), q # p, w.root.front[q] = t.id
                 PROVE  FALSE
      OBVIOUS
    <3>1. PICK u \in ToSet(w.tabs) : u.pane = q /\ u.id = t.id
      BY <1>1, <1>3 DEF Fronts, Shows
    <3>2. u = t
      BY <1>1, <3>1, ListIs
    <3> QED BY <1>2, <3>1, <3>2
  <2>6. v.activeId = root.front[v.focus]
    <3>1. CASE w.focus = p
      <4>1. w.activeId = w.root.front[p] /\ root.front[v.focus] = front
        BY <1>1, <1>3, <2>2, <2>4, <3>1
      <4>2. front = IF w.root.front[p] = t.id THEN replacement ELSE w.root.front[p]
        BY <1>2
      <4> QED BY ONLY <2>2, <4>1, <4>2
    <3>2. CASE w.focus # p
      BY <1>1, <2>2, <2>4, <2>5, <3>2
    <3> QED BY <3>1, <3>2
  <2>7. Fronts(ToSet(tabs), root, {})
    <3>1. \A u \in ToSet(tabs) : u.pane \in Panes(root)
      BY <1>1, <1>5, <2>4 DEF Fronts
    <3>2. Shows(ToSet(tabs), root, p)
      <4>1. /\ w.root.front[p] = t.id => root.front[p] = replacement
            /\ w.root.front[p] # t.id => root.front[p] = w.root.front[p]
        BY <1>2, <1>3, <2>4
      <4>2. Remains(ToSet(w.tabs), ToSet(tabs), t) /\ p = t.pane
        BY <1>2, <1>5 DEF Remains
      <4>3. Shows(ToSet(w.tabs), w.root, p)
        BY <1>1, <1>3 DEF Fronts
      <4>4. PICK T, U, before, was, is :
              /\ T = ToSet(w.tabs) /\ U = ToSet(tabs) /\ before = w.root
              /\ was = before.front[p] /\ is = root.front[p]
        OBVIOUS
      <4>5. /\ Remains(T, U, t) /\ Shows(T, before, p) /\ Succeeds(U, p, replacement)
            /\ was = t.id => is = replacement
            /\ was # t.id => is = was
        BY <1>7, <4>1, <4>2, <4>3, <4>4
      <4>6. t \in T /\ p = t.pane
        BY <4>2, <4>4
      <4>7. Shows(U, root, p)
        BY ONLY <4>4, <4>5, <4>6, LeftIs
      <4> QED BY <4>4, <4>7
    <3>3. \A q \in Panes(root) : q # p => Shows(ToSet(tabs), root, q)
      <4> SUFFICES ASSUME NEW q \in Panes(w.root), q # p
                   PROVE  Shows(ToSet(tabs), root, q)
        BY <2>4
      <4>1. Shows(ToSet(w.tabs), w.root, q) /\ root.front[q] = w.root.front[q]
        BY <1>1, <2>4 DEF Fronts
      <4>2. \A u \in ToSet(w.tabs) : u.pane = q => u \in ToSet(tabs)
        BY <1>2, <1>5
      <4>3. \A u \in ToSet(tabs) : u \in ToSet(w.tabs)
        BY <1>5
      <4> QED BY <4>1, <4>2, <4>3 DEF Shows
    <3> QED BY <3>1, <3>2, <3>3 DEF Fronts
  <2>8. Known(w.unread \ {t.id}, ToSet(tabs))
    BY <1>1, <1>4 DEF Known
  <2>9. Known(unread, ToSet(tabs)) /\ Hidden(unread, ToSet(tabs), root, w.zoomed)
    BY <1>2, <2>8, ClearedIs
  <2>10. Good(v)
    BY <1>1, <1>4, <2>2, <2>4, <2>6, <2>7, <2>9, GoodMade
  <2> QED BY <1>9, <2>10
<1> QED BY <1>11, <1>12

At(t, p) == [t EXCEPT !.pane = p]
Becomes(U, T, old, new) == U = (T \ {old}) \union {new}

\* A tab goes to a place of a pane.
LEMMA TabMoves ==
  ASSUME NEW tabs, List(tabs), NEW t \in ToSet(tabs), NEW p \in Pane, NEW target, NEW edge,
         NEW moved, moved = At(t, p), NEW r,
         r = InsertIntoPane(Without(tabs, t.id), t, p, target, edge)
  PROVE  List(r) /\ Becomes(ToSet(r), ToSet(tabs), t, moved)
<1>1. PICK rest : rest = Without(tabs, t.id)
  OBVIOUS
<1>2. List(rest) /\ ToSet(rest) = {u \in ToSet(tabs) : u.id # t.id}
  BY <1>1, WithoutIs
<1>3. ToSet(rest) = ToSet(tabs) \ {t} /\ t \in TabRecord
  BY <1>2, ListIs
<1>4. t.id \notin Ids(rest)
  <2>1. Ids(rest) = {u.id : u \in ToSet(rest)}
    BY <1>2, ListIs
  <2> QED BY <1>2, <2>1
<1>5. List(r) /\ ToSet(r) = ToSet(rest) \union {moved}
  BY <1>1, <1>2, <1>3, <1>4, InsertIntoPaneIs DEF At
<1> QED BY <1>3, <1>5 DEF Becomes

LEMMA MoveTabToPaneIs ==
  ASSUME NEW w, Good(w), NEW t \in ToSet(w.tabs), NEW p \in Panes(w.root), NEW target, NEW edge
  PROVE  Good(MoveTabToPane(w, t.id, p, target, edge))
<1>1. /\ Record(w) /\ List(w.tabs) /\ Root(w.root) /\ Fronts(ToSet(w.tabs), w.root, {})
      /\ Known(w.unread, ToSet(w.tabs)) /\ Hidden(w.unread, ToSet(w.tabs), w.root, w.zoomed)
      /\ w.focus \in Panes(w.root) /\ w.activeId = w.root.front[w.focus]
      /\ w.zoomed \in {Nobody, w.focus}
  BY GoodIs
<1>2. PICK source, tabs, moved :
        /\ source = t.pane /\ moved = [t EXCEPT !.pane = p]
        /\ tabs = InsertIntoPane(Without(w.tabs, t.id), t, p, target, edge)
  OBVIOUS
<1>3. PICK index, remaining, replacement, front :
        /\ index = IndexOf(InPane(w.tabs, source), t.id) /\ remaining = InPane(tabs, source)
        /\ replacement = TakesOver(InPane(tabs, source), index)
        /\ front = IF w.root.front[source] = t.id THEN replacement ELSE w.root.front[source]
  OBVIOUS
<1>4. PICK half, both, root, zoomed, unread :
        /\ half = SetFront(w.root, source, front) /\ both = SetFront(half, p, t.id)
        /\ root = (IF remaining = <<>> THEN RemovePane(both, source) ELSE both)
        /\ zoomed = (IF w.zoomed = p THEN p ELSE Nobody)
        /\ unread = ClearVisible(w.unread, tabs, root, zoomed)
  OBVIOUS
<1>5. /\ Named(w.tabs, t.id) = t /\ source \in Panes(w.root) /\ t.id \in Tab /\ t.id # Nobody
      /\ p \in Pane
  BY <1>1, <1>2, TabIs, RootIs DEF Fronts
<1>6. /\ List(tabs) /\ ToSet(tabs) = (ToSet(w.tabs) \ {t}) \union {moved}
      /\ moved.pane = p /\ moved.id = t.id /\ moved.session = t.session
      /\ t.pane = p => moved = t
  <2>1. PICK list : list = w.tabs
    OBVIOUS
  <2>2. /\ List(list) /\ t \in ToSet(list) /\ p \in Pane /\ moved = At(t, p)
        /\ tabs = InsertIntoPane(Without(list, t.id), t, p, target, edge)
    BY <1>1, <1>2, <1>5, <2>1 DEF At
  <2>3. List(tabs) /\ Becomes(ToSet(tabs), ToSet(list), t, moved)
    BY ONLY <2>2, TabMoves
  <2>4. t \in TabRecord
    BY <1>1, TabIs
  <2>5. /\ moved.pane = p /\ moved.id = t.id /\ moved.session = t.session
        /\ t.pane = p => moved = t
    BY <1>2, <2>4 DEF TabRecord
  <2> QED BY <2>1, <2>3, <2>5 DEF Becomes
<1>7. PICK v : v = MoveTabToPane(w, t.id, p, target, edge)
  OBVIOUS
<1>8. CASE source = p
  <2>1. ToSet(tabs) = ToSet(w.tabs)
    BY <1>2, <1>6, <1>8
  <2>2. v = [w EXCEPT !.tabs = tabs]
    BY <1>2, <1>5, <1>7, <1>8 DEF MoveTabToPane
  <2>3. /\ Record(v) /\ v.tabs = tabs /\ v.root = w.root /\ v.focus = w.focus
        /\ v.activeId = w.activeId /\ v.zoomed = w.zoomed /\ v.unread = w.unread
    BY <1>1, <2>2 DEF Record
  <2>4. /\ List(v.tabs) /\ Root(v.root) /\ v.focus \in Panes(v.root)
        /\ v.activeId = v.root.front[v.focus] /\ v.zoomed \in {Nobody, v.focus}
        /\ Fronts(ToSet(v.tabs), v.root, {}) /\ Known(v.unread, ToSet(v.tabs))
        /\ Hidden(v.unread, ToSet(v.tabs), v.root, v.zoomed)
    BY <1>1, <1>6, <2>1, <2>3
  <2>5. Good(v)
    BY ONLY <2>3, <2>4, GoodMade
  <2> QED BY <1>7, <2>5
<1>9. CASE source # p
  <2>1. v = [tabs |-> tabs, root |-> root, zoomed |-> zoomed, focus |-> p, activeId |-> t.id,
             unread |-> unread]
    <3>1. front = IF w.root.front[source] # t.id THEN w.root.front[source]
                  ELSE TakesOver(remaining, index)
      BY <1>3
    <3> QED BY <1>2, <1>3, <1>4, <1>5, <1>7, <1>9, <3>1 DEF MoveTabToPane
  <2>2. /\ Record(v) /\ v.tabs = tabs /\ v.root = root /\ v.focus = p
        /\ v.activeId = t.id /\ v.zoomed = zoomed /\ v.unread = unread
    BY <2>1 DEF Record
  <2>3. index \in Nat /\ index >= 1
    <3>1. PICK there : there = InPane(w.tabs, source)
      OBVIOUS
    <3>2. List(there) /\ t.id \in Ids(there)
      BY <1>1, <1>2, <3>1, InPaneIs
    <3> QED BY <1>3, <3>1, <3>2, IndexIs
  <2>4. replacement \in Tab \cup {Nobody} /\ Succeeds(ToSet(tabs), source, replacement)
    BY <1>3, <1>6, <2>3, ReplacementIs
  <2>5. front \in Tab \cup {Nobody}
    <3>1. w.root.front[source] \in Tab \cup {Nobody}
      BY <1>1, <1>5, RootIs
    <3> QED BY <1>3, <2>4, <3>1
  <2>6. /\ Root(half) /\ Panes(half) = Panes(w.root)
        /\ \A q \in Panes(w.root) :
             half.front[q] = IF q = source THEN front ELSE w.root.front[q]
    <3>1. Root(w.root) /\ source \in Panes(w.root) /\ half = SetFront(w.root, source, front)
      BY <1>1, <1>4, <1>5
    <3> QED BY ONLY <2>5, <3>1, SetFrontIs
  <2>7. /\ Root(both) /\ Panes(both) = Panes(w.root)
        /\ \A q \in Panes(w.root) : both.front[q] = IF q = p THEN t.id ELSE half.front[q]
    <3>1. /\ p \in Panes(half) /\ both = SetFront(half, p, t.id)
          /\ t.id \in Tab \cup {Nobody} /\ Root(half)
      BY <1>4, <1>5, <2>6
    <3>2. /\ Root(both) /\ Panes(both) = Panes(half)
          /\ \A q \in Panes(half) : both.front[q] = IF q = p THEN t.id ELSE half.front[q]
      BY ONLY <3>1, SetFrontIs
    <3> QED BY <2>6, <3>2
  <2>8. Fronts(ToSet(tabs), both, {})
    <3>1. \A u \in ToSet(tabs) : u.pane \in Panes(both)
      BY <1>1, <1>6, <2>7 DEF Fronts
    <3>2. Shows(ToSet(tabs), both, source)
      <4>1. /\ w.root.front[source] = t.id => both.front[source] = replacement
            /\ w.root.front[source] # t.id => both.front[source] = w.root.front[source]
        <5>1. both.front[source] = front
          BY <1>5, <1>9, <2>6, <2>7
        <5> QED BY <1>3, <5>1
      <4>2. Remains(ToSet(w.tabs), ToSet(tabs), t) /\ source = t.pane
        BY <1>2, <1>6 DEF Remains
      <4>3. Shows(ToSet(w.tabs), w.root, source)
        BY <1>1, <1>5 DEF Fronts
      <4>4. CASE w.root.front[source] = t.id
        BY <2>4, <4>1, <4>4 DEF Shows, Succeeds
      <4>5. CASE w.root.front[source] # t.id
        <5>1. PICK u \in ToSet(w.tabs) : u.pane = source /\ u.id = w.root.front[source]
          BY <4>2, <4>3 DEF Shows
        <5>2. u \in ToSet(tabs) /\ u.id = both.front[source]
          BY <4>1, <4>2, <4>5, <5>1 DEF Remains
        <5> QED BY <5>1, <5>2 DEF Shows
      <4> QED BY <4>4, <4>5
    <3>3. Shows(ToSet(tabs), both, p)
      <4>1. both.front[p] = t.id /\ moved \in ToSet(tabs)
        BY <1>6, <2>7
      <4> QED BY <1>6, <4>1 DEF Shows
    <3>4. \A q \in Panes(both) : q # p /\ q # source => Shows(ToSet(tabs), both, q)
      <4> SUFFICES ASSUME NEW q \in Panes(w.root), q # p, q # source
                   PROVE  Shows(ToSet(tabs), both, q)
        BY <2>7
      <4>1. Shows(ToSet(w.tabs), w.root, q) /\ both.front[q] = w.root.front[q]
        BY <1>1, <2>6, <2>7 DEF Fronts
      <4>2. \A u \in ToSet(w.tabs) : u.pane = q => u \in ToSet(tabs)
        BY <1>2, <1>6
      <4>3. \A u \in ToSet(tabs) : u.pane = q => u \in ToSet(w.tabs)
        BY <1>6
      <4> QED BY <4>1, <4>2, <4>3 DEF Shows
    <3> QED BY <3>1, <3>2, <3>3, <3>4 DEF Fronts
  <2>9. Root(root) /\ p \in Panes(root) /\ root.front[p] = t.id /\ Fronts(ToSet(tabs), root, {})
    <3>1. CASE remaining # <<>>
      BY <1>4, <2>7, <2>8, <3>1
    <3>2. CASE remaining = <<>>
      <4>1. \A u \in ToSet(tabs) : u.pane # source
        <5>1. List(remaining) /\ ToSet(remaining) = {u \in ToSet(tabs) : u.pane = source}
          BY <1>3, <1>6, InPaneIs
        <5>2. ToSet(remaining) = {}
          BY <3>2, <5>1, ListIs
        <5> QED BY <5>1, <5>2
      <4>2. root = RemovePane(both, source)
        BY <1>4, <3>2
      <4>3. Panes(both) # {source} /\ source \in Panes(both)
        BY <1>5, <1>9, <2>7
      <4>4. /\ Root(root) /\ Panes(root) = Panes(both) \ {source}
            /\ \A q \in Panes(both) \ {source} : root.front[q] = both.front[q]
        BY ONLY <2>7, <4>2, <4>3, RemovePaneIs
      <4>5. p \in Panes(root) /\ root.front[p] = t.id
        BY <1>9, <2>7, <4>4
      <4>6. Fronts(ToSet(tabs), root, {})
        BY <2>8, <4>1, <4>4 DEF Fronts, Shows
      <4> QED BY <4>4, <4>5, <4>6
    <3> QED BY <3>1, <3>2
  <2>10. Known(w.unread, ToSet(tabs))
    <3>1. \A u \in ToSet(w.tabs) : u = t \/ u \in ToSet(tabs)
      BY <1>6
    <3>2. moved \in ToSet(tabs)
      BY <1>6
    <3> QED BY <1>1, <1>6, <3>1, <3>2 DEF Known
  <2>11. Known(unread, ToSet(tabs)) /\ Hidden(unread, ToSet(tabs), root, zoomed)
    BY <1>4, <2>10, ClearedIs
  <2>12. zoomed \in {Nobody, p}
    BY <1>4
  <2>13. Good(v)
    BY <1>6, <2>2, <2>9, <2>11, <2>12, GoodMade
  <2> QED BY <1>7, <2>13
<1> QED BY <1>8, <1>9

LEMMA MoveToNewPaneIs ==
  ASSUME NEW w, Good(w), NEW t \in ToSet(w.tabs), NEW d \in Directions,
         NEW new \in Pane, new \notin Panes(w.root)
  PROVE  Good(MoveToNewPane(w, t.id, d, new))
<1>1. Named(w.tabs, t.id) = t /\ t.pane \in Panes(w.root)
  BY GoodIs, TabIs DEF Fronts
<1>2. PICK v : v = Split(w, t.pane, d, new)
  OBVIOUS
<1>3. Good(v) /\ v.tabs = w.tabs /\ new \in Panes(v.root)
  BY <1>1, <1>2, SplitIs
<1>4. Good(MoveTabToPane(v, t.id, new, Nobody, "after"))
  BY <1>3, MoveTabToPaneIs
<1> QED BY <1>1, <1>2, <1>4 DEF MoveToNewPane

LEMMA AdoptIs ==
  ASSUME NEW w, Good(w), NEW t \in TabRecord, t.id \notin Ids(w.tabs), t.session,
         NEW p \in Panes(w.root), t.pane = p, NEW target, NEW edge
  PROVE  Good(Adopt(w, t, p, target, edge))
<1>1. /\ Typed(w) /\ Record(w) /\ List(w.tabs) /\ Root(w.root) /\ Fronts(ToSet(w.tabs), w.root, {})
      /\ Known(w.unread, ToSet(w.tabs)) /\ p \in Pane
  BY GoodIs, RootIs
<1>2. PICK tabs : tabs = InsertIntoPane(w.tabs, t, p, target, edge)
  OBVIOUS
<1>3. [t EXCEPT !.pane = p] = t
  BY DEF TabRecord
<1>4. List(tabs) /\ ToSet(tabs) = ToSet(w.tabs) \union {t}
  BY <1>1, <1>2, <1>3, InsertIntoPaneIs
<1>5. PICK v : v = [w EXCEPT !.tabs = tabs]
  OBVIOUS
<1>6. /\ Record(v) /\ v.tabs = tabs /\ v.root = w.root /\ v.focus = w.focus
      /\ v.activeId = w.activeId /\ v.zoomed = w.zoomed /\ v.unread = w.unread
  BY <1>1, <1>5 DEF Record
<1>7. Typed(v)
  BY <1>1, <1>4, <1>6 DEF Typed
<1>8. Fronts(ToSet(v.tabs), v.root, {t.pane})
  BY <1>1, <1>4, <1>6 DEF Fronts, Shows
<1>9. Known(v.unread, ToSet(v.tabs)) /\ t \in ToSet(v.tabs)
  BY <1>1, <1>4, <1>6 DEF Known
<1>10. Good(Activate(v, t.id))
  BY <1>7, <1>8, <1>9, ActivateIs
<1>11. Adopt(w, t, p, target, edge) = Activate(v, t.id)
  BY <1>1, <1>2, <1>5 DEF Adopt, Record
<1> QED BY <1>10, <1>11

LEMMA ClearedTab ==
  ASSUME NEW t \in TabRecord
  PROVE  /\ Cleared(t) \in TabRecord /\ Cleared(t).id = t.id /\ Cleared(t).pane = t.pane
         /\ Cleared(t).pinned = t.pinned
<1>1. 0 \in 0 .. MaxSize
  BY TabsAssumption
<1>2. PICK a : a = [t EXCEPT !.editors = 0]
  OBVIOUS
<1>3. /\ a \in TabRecord /\ a.id = t.id /\ a.pane = t.pane /\ a.pinned = t.pinned
  BY <1>1, <1>2 DEF TabRecord
<1>4. PICK b : b = [a EXCEPT !.shown = FALSE]
  OBVIOUS
<1>5. /\ b \in TabRecord /\ b.id = t.id /\ b.pane = t.pane /\ b.pinned = t.pinned
  BY <1>3, <1>4 DEF TabRecord
<1>6. b = Cleared(t)
  BY <1>2, <1>4 DEF Cleared
<1> QED BY <1>5, <1>6

LEMMA SavedOrderIs ==
  ASSUME NEW tabs, List(tabs), NEW root, Root(root),
         \A i \in DOMAIN tabs : tabs[i].pane \in Panes(root)
  PROVE  /\ Orders(SavedOrder(tabs, root), SavedTabs(tabs)) /\ IsFiniteSet(SavedTabs(tabs))
         /\ SavedTabs(tabs) \subseteq DOMAIN tabs
         /\ \A i, j \in SavedTabs(tabs) :
              <<i, j>> \in SavedOrder(tabs, root) /\ tabs[i].pane = tabs[j].pane => i < j
<1>1. PICK S, order : S = SavedTabs(tabs) /\ order = SavedOrder(tabs, root)
  OBVIOUS
<1>2. /\ Len(tabs) \in Nat /\ DOMAIN tabs = 1 .. Len(tabs) /\ S \subseteq DOMAIN tabs
      /\ S \subseteq Nat
  BY <1>1, ListIs DEF SavedTabs
<1>3. IsFiniteSet(S)
  <2>1. IsFiniteSet(1 .. Len(tabs))
    BY <1>2, FS_Interval
  <2> QED BY <1>2, <2>1, FS_Subset
<1>4. PICK at : at = [i \in S |-> root.at[tabs[i].pane]]
  OBVIOUS
<1>5. /\ Panes(root) = DOMAIN root.at /\ Places(root.at) /\ Whole(root.at)
  BY RootIs
<1>6. \A i \in S : at[i] \in Seq(Directions) /\ at[i] = root.at[tabs[i].pane]
                   /\ tabs[i].pane \in DOMAIN root.at
  BY <1>2, <1>4, <1>5 DEF Places
<1>7. \A i, j \in S : <<i, j>> \in order
        <=> (tabs[i].pane = tabs[j].pane /\ i < j) \/ Precedes(at[i], at[j])
  BY <1>1, <1>6 DEF SavedOrder
<1>8. \A i, j \in S : tabs[i].pane = tabs[j].pane => ~Precedes(at[i], at[j]) /\ at[i] = at[j]
  BY <1>6, PrecedesIsStrict
<1>9. \A i, j \in S : Precedes(at[i], at[j]) => tabs[i].pane # tabs[j].pane
  BY <1>8
<1>10. \A x \in S : <<x, x>> \notin order
  BY <1>2, <1>7, <1>8
<1>11. ASSUME NEW x \in S, NEW y \in S, NEW z \in S, <<x, y>> \in order, <<y, z>> \in order
       PROVE  <<x, z>> \in order
  <2>1. CASE tabs[x].pane = tabs[y].pane /\ tabs[y].pane = tabs[z].pane
    <3>1. x < y /\ y < z
      BY <1>7, <1>8, <1>11, <2>1
    <3>2. x < z
      BY <1>2, <3>1
    <3> QED BY <1>7, <2>1, <3>2
  <2>2. CASE tabs[x].pane = tabs[y].pane /\ tabs[y].pane # tabs[z].pane
    <3>1. Precedes(at[y], at[z]) /\ at[x] = at[y]
      BY <1>7, <1>8, <1>11, <2>2
    <3> QED BY <1>7, <3>1
  <2>3. CASE tabs[x].pane # tabs[y].pane /\ tabs[y].pane = tabs[z].pane
    <3>1. Precedes(at[x], at[y]) /\ at[y] = at[z]
      BY <1>7, <1>8, <1>11, <2>3
    <3> QED BY <1>7, <3>1
  <2>4. CASE tabs[x].pane # tabs[y].pane /\ tabs[y].pane # tabs[z].pane
    <3>1. Precedes(at[x], at[y]) /\ Precedes(at[y], at[z])
      BY <1>7, <1>11, <2>4
    <3>2. Precedes(at[x], at[z])
      BY <1>6, <3>1, PrecedesFollows
    <3> QED BY <1>7, <3>2
  <2> QED BY <2>1, <2>2, <2>3, <2>4
<1>12. ASSUME NEW x \in S, NEW y \in S
       PROVE  x = y \/ <<x, y>> \in order \/ <<y, x>> \in order
  <2>1. CASE tabs[x].pane = tabs[y].pane
    BY <1>2, <1>7, <2>1
  <2>2. CASE tabs[x].pane # tabs[y].pane
    <3>1. Precedes(at[x], at[y]) \/ Precedes(at[y], at[x])
      <4>1. PICK f, p, q : f = root.at /\ p = tabs[x].pane /\ q = tabs[y].pane
        OBVIOUS
      <4>2. /\ Places(f) /\ Whole(f) /\ p \in DOMAIN f /\ q \in DOMAIN f /\ p # q
            /\ at[x] = f[p] /\ at[y] = f[q]
        BY <1>5, <1>6, <2>2, <4>1
      <4>3. Precedes(f[p], f[q]) \/ Precedes(f[q], f[p])
        BY ONLY <4>2, PrecedesDecides
      <4> QED BY <4>2, <4>3
    <3> QED BY <1>7, <3>1
  <2> QED BY <2>1, <2>2
<1>13. Orders(order, S)
  BY <1>10, <1>11, <1>12 DEF Orders
<1>14. ASSUME NEW i \in S, NEW j \in S, <<i, j>> \in order, tabs[i].pane = tabs[j].pane
       PROVE  i < j
  BY <1>7, <1>9, <1>14
<1> QED BY <1>1, <1>2, <1>3, <1>13, <1>14

LEMMA RestoredIs ==
  ASSUME NEW tabs, List(tabs), NEW root, Root(root),
         \A i \in DOMAIN tabs : tabs[i].pane \in Panes(root), NEW r, r = Restored(tabs, root)
  PROVE  /\ List(r) /\ \A u \in ToSet(r) : \E i \in SavedTabs(tabs) : u = Cleared(tabs[i])
         /\ \A i \in SavedTabs(tabs) : Cleared(tabs[i]) \in ToSet(r)
<1>1. PICK S, order : S = SavedTabs(tabs) /\ order = SavedOrder(tabs, root)
  OBVIOUS
<1>2. /\ Orders(order, S) /\ IsFiniteSet(S) /\ S \subseteq DOMAIN tabs
      /\ \A i, j \in S : <<i, j>> \in order /\ tabs[i].pane = tabs[j].pane => i < j
  BY <1>1, SavedOrderIs
<1>3. PICK n, place : n = Cardinality(S) /\ place = InOrder(S, order)
  OBVIOUS
<1>4. n \in Nat /\ Lists(place, S, order)
  BY ONLY <1>2, <1>3, InOrderLists
<1>5. /\ place \in [1 .. n -> S] /\ \A x \in S : \E m \in 1 .. n : place[m] = x
      /\ \A i, j \in 1 .. n : i < j => <<place[i], place[j]>> \in order
  BY ONLY <1>3, <1>4 DEF Lists
<1>6. /\ DOMAIN tabs = 1 .. Len(tabs) /\ Len(tabs) \in Nat
      /\ \A i \in DOMAIN tabs : tabs[i] \in TabRecord
  BY ListIs
<1>7. /\ r = [m \in DOMAIN place |-> Cleared(tabs[place[m]])]
      /\ DOMAIN place = 1 .. n
  BY <1>1, <1>3, <1>5 DEF Restored
<1>8. /\ DOMAIN r = 1 .. n /\ r = [m \in 1 .. n |-> r[m]]
      /\ \A m \in 1 .. n : r[m] = Cleared(tabs[place[m]])
  BY <1>7
<1>9. \A m \in 1 .. n : place[m] \in S /\ place[m] \in DOMAIN tabs
  BY ONLY <1>2, <1>5
<1>10. \A m \in 1 .. n : /\ r[m] \in TabRecord /\ r[m].id = tabs[place[m]].id
                         /\ r[m].pane = tabs[place[m]].pane
                         /\ r[m].pinned = tabs[place[m]].pinned
  BY <1>6, <1>8, <1>9, ClearedTab
<1>11. r \in Seq(TabRecord)
  BY ONLY <1>4, <1>8, <1>10
<1>12. Distinct(r)
  <2> SUFFICES ASSUME NEW l \in 1 .. n, NEW m \in 1 .. n, r[l].id = r[m].id, l # m
               PROVE  FALSE
    BY <1>8 DEF Distinct
  <2>1. place[l] = place[m]
    <3>1. tabs[place[l]].id = tabs[place[m]].id
      BY <1>10
    <3> QED BY <1>9, <3>1 DEF List, Distinct
  <2>2. l < m \/ m < l
    BY <1>4
  <2>3. <<place[l], place[l]>> \in order
    BY ONLY <1>5, <2>1, <2>2
  <2> QED BY <1>2, <1>9, <2>3 DEF Orders
<1>13. Grouped(r)
  <2> SUFFICES ASSUME NEW l \in 1 .. n, NEW m \in 1 .. n, r[l].pane = r[m].pane, l < m, r[m].pinned
               PROVE  r[l].pinned
    BY <1>8 DEF Grouped
  <2>1. tabs[place[l]].pane = tabs[place[m]].pane /\ tabs[place[m]].pinned
    BY <1>10
  <2>2. place[l] < place[m]
    BY ONLY <1>2, <1>5, <1>9, <2>1, l < m
  <2>3. tabs[place[l]].pinned
    BY <1>9, <2>1, <2>2 DEF List, Grouped
  <2> QED BY <1>10, <2>3
<1>14. \A u \in ToSet(r) : \E i \in S : u = Cleared(tabs[i])
  BY <1>8, <1>9 DEF ToSet
<1>15. ASSUME NEW i \in S PROVE Cleared(tabs[i]) \in ToSet(r)
  <2>1. PICK m \in 1 .. n : place[m] = i
    BY <1>5
  <2> QED BY <1>8, <2>1 DEF ToSet
<1> QED BY <1>1, <1>11, <1>12, <1>13, <1>14, <1>15 DEF List

LEMMA RestoredFrontIs ==
  ASSUME NEW tabs, List(tabs), NEW root, NEW p
  PROVE  IF \E i \in SavedTabs(tabs) : tabs[i].pane = p
         THEN \E i \in SavedTabs(tabs) :
                tabs[i].pane = p /\ RestoredFront(tabs, root, p) = tabs[i].id
         ELSE RestoredFront(tabs, root, p) = Nobody
<1>1. PICK S : S = {i \in SavedTabs(tabs) : tabs[i].pane = p}
  OBVIOUS
<1>2. RestoredFront(tabs, root, p) =
        IF root.front[p] \in {tabs[i].id : i \in S} THEN root.front[p]
        ELSE IF S = {} THEN Nobody ELSE tabs[Min(S)].id
  BY <1>1 DEF RestoredFront
<1>3. S \in SUBSET Nat
  BY <1>1, ListIs DEF SavedTabs
<1>4. CASE S = {}
  BY <1>1, <1>2, <1>4
<1>5. CASE S # {}
  <2>1. Min(S) \in S
    BY <1>3, <1>5, MinIs
  <2>2. \E i \in S : RestoredFront(tabs, root, p) = tabs[i].id
    BY <1>2, <1>5, <2>1
  <2> QED BY <1>1, <1>5, <2>2
<1> QED BY <1>4, <1>5

LEMMA ReopenIs ==
  ASSUME NEW w, Good(w)
  PROVE  Good(Reopen(w))
<1>1. /\ Record(w) /\ List(w.tabs) /\ Root(w.root) /\ Fronts(ToSet(w.tabs), w.root, {})
      /\ w.focus \in Panes(w.root)
  BY GoodIs
<1>2. PICK tabs, root : tabs = w.tabs /\ root = w.root
  OBVIOUS
<1>3. /\ List(tabs) /\ Root(root) /\ \A i \in DOMAIN tabs : tabs[i].pane \in Panes(root)
      /\ \A i \in DOMAIN tabs : tabs[i] \in TabRecord /\ tabs[i].id \in Tab
  <2>1. List(tabs) /\ Root(root) /\ \A t \in ToSet(tabs) : t.pane \in Panes(root)
    BY <1>1, <1>2 DEF Fronts
  <2> QED BY <2>1, ListIs DEF TabRecord
<1>4. PICK r, front : /\ r = Restored(tabs, root)
                      /\ front = [p \in Panes(root) |-> RestoredFront(tabs, root, p)]
  OBVIOUS
<1>5. PICK after : after = [at |-> root.at, front |-> front]
  OBVIOUS
<1>6. PICK v : v = Reopen(w)
  OBVIOUS
<1>7. /\ Record(v) /\ v.tabs = r /\ v.root = after /\ v.focus = w.focus
      /\ v.activeId = RestoredFront(tabs, root, w.focus) /\ v.zoomed = Nobody /\ v.unread = {}
  BY <1>1, <1>2, <1>4, <1>5, <1>6 DEF Reopen, Record
<1>8. /\ List(r) /\ \A u \in ToSet(r) : \E i \in SavedTabs(tabs) : u = Cleared(tabs[i])
      /\ \A i \in SavedTabs(tabs) : Cleared(tabs[i]) \in ToSet(r)
  BY <1>3, <1>4, RestoredIs
<1>9. \A i \in SavedTabs(tabs) :
        /\ Cleared(tabs[i]).id = tabs[i].id /\ Cleared(tabs[i]).pane = tabs[i].pane
        /\ tabs[i].pane \in Panes(root) /\ tabs[i].id \in Tab
  BY <1>3, ClearedTab DEF SavedTabs
<1>10. ASSUME NEW p \in Panes(root)
       PROVE  IF \E i \in SavedTabs(tabs) : tabs[i].pane = p
              THEN \E i \in SavedTabs(tabs) : tabs[i].pane = p /\ front[p] = tabs[i].id
              ELSE front[p] = Nobody
  <2>1. front[p] = RestoredFront(tabs, root, p)
    BY <1>4
  <2> QED BY <1>3, <2>1, RestoredFrontIs
<1>11. Root(after) /\ Panes(after) = Panes(root) /\ after.front = front
  <2>1. \A p \in Panes(root) : front[p] \in Tab \cup {Nobody}
    BY <1>9, <1>10
  <2>2. /\ front = [p \in Panes(root) |-> front[p]] /\ root.at = [p \in Panes(root) |-> root.at[p]]
        /\ Panes(root) \in SUBSET Pane /\ Panes(root) # {} /\ IsFiniteSet(Panes(root))
        /\ Places(root.at) /\ Whole(root.at)
    BY <1>3, <1>4, RootIs DEF Root, Maps, Panes
  <2>3. Root([at |-> root.at, front |-> front])
    BY <2>1, <2>2, RootMade
  <2> QED BY <1>5, <2>3 DEF Panes
<1>12. Fronts(ToSet(r), after, {})
  <2>1. \A u \in ToSet(r) : u.pane \in Panes(after)
    BY <1>8, <1>9, <1>11
  <2>2. \A p \in Panes(after) : Shows(ToSet(r), after, p)
    <3> SUFFICES ASSUME NEW p \in Panes(root)
                 PROVE  Shows(ToSet(r), after, p)
      BY <1>11
    <3>1. CASE ~\E i \in SavedTabs(tabs) : tabs[i].pane = p
      <4>1. \A u \in ToSet(r) : u.pane # p
        BY <1>8, <1>9, <3>1
      <4>2. after.front[p] = Nobody
        BY <1>10, <1>11, <3>1
      <4> QED BY <4>1, <4>2 DEF Shows
    <3>2. CASE \E i \in SavedTabs(tabs) : tabs[i].pane = p
      <4>1. PICK i \in SavedTabs(tabs) : tabs[i].pane = p /\ front[p] = tabs[i].id
        BY <1>10, <3>2
      <4>2. /\ Cleared(tabs[i]) \in ToSet(r) /\ Cleared(tabs[i]).pane = p
            /\ Cleared(tabs[i]).id = after.front[p]
        BY <1>8, <1>9, <1>11, <4>1
      <4> QED BY <4>2 DEF Shows
    <3> QED BY <3>1, <3>2
  <2> QED BY <2>1, <2>2 DEF Fronts
<1>13. Known({}, ToSet(r)) /\ Hidden({}, ToSet(r), after, Nobody)
  BY DEF Known, Hidden
<1>14. v.activeId = after.front[w.focus] /\ w.focus \in Panes(after)
  BY <1>1, <1>2, <1>4, <1>7, <1>11
<1>15. Good(v)
  BY <1>7, <1>8, <1>11, <1>12, <1>13, <1>14, GoodMade
<1> QED BY <1>6, <1>15

-----------------------------------------------------------------------------
(* The tree of a session set *)

\* The panes D of a tree are, below one branch, those of another tree.
Under(at, D, sub, m, d) ==
  /\ \A x \in D : m[x] \in DOMAIN sub
  /\ \A x, y \in D : m[x] = m[y] => x = y
  /\ \A y \in DOMAIN sub : \E x \in D : m[x] = y
  /\ \A x \in D : /\ at[x] \in Seq(Directions) /\ Len(at[x]) = Len(sub[m[x]]) + 1
                  /\ at[x][1] = d
                  /\ \A j \in 1 .. Len(sub[m[x]]) : at[x][j + 1] = sub[m[x]][j]

LeavesOf(at, D) == \A p, q \in D : Agree(at[p], at[q], Len(at[p])) => p = q
SiblingsOf(at, D) ==
  \A p \in D : \A i \in 2 .. Len(at[p]) :
    \E r \in D : i <= Len(at[r]) /\ Agree(at[p], at[r], i - 1) /\ at[r][i] = Opposite[at[p][i]]
BinaryOf(at, D) ==
  \A p, q \in D : \A i \in 2 .. Len(at[p]) :
    i <= Len(at[q]) /\ Agree(at[p], at[q], i - 1)
      => at[q][i] \in {at[p][i], Opposite[at[p][i]]}

LEMMA UnderIs ==
  ASSUME NEW sub, Places(sub), Whole(sub), NEW at, NEW D, NEW m, NEW d, Under(at, D, sub, m, d)
  PROVE  LeavesOf(at, D) /\ SiblingsOf(at, D) /\ BinaryOf(at, D)
<1>1. /\ \A x \in D : /\ m[x] \in DOMAIN sub /\ Len(sub[m[x]]) \in Nat
                      /\ Len(at[x]) = Len(sub[m[x]]) + 1 /\ at[x][1] = d
                      /\ \A j \in 1 .. Len(sub[m[x]]) : at[x][j + 1] = sub[m[x]][j]
      /\ \A x, y \in D : m[x] = m[y] => x = y
      /\ \A y \in DOMAIN sub : \E x \in D : m[x] = y
  BY PlaceIs DEF Under
<1>2. \A x \in D : \A i \in 2 .. Len(at[x]) :
        i - 1 \in 1 .. Len(sub[m[x]]) /\ at[x][i] = sub[m[x]][i - 1]
  <2> SUFFICES ASSUME NEW x \in D, NEW i \in 2 .. Len(at[x])
               PROVE  i - 1 \in 1 .. Len(sub[m[x]]) /\ at[x][i] = sub[m[x]][i - 1]
    OBVIOUS
  <2>1. PICK n : n = Len(sub[m[x]])
    OBVIOUS
  <2>2. i - 1 \in 1 .. n
    BY <1>1, <2>1
  <2>3. at[x][(i - 1) + 1] = sub[m[x]][i - 1]
    BY <1>1, <2>1, <2>2
  <2> QED BY <2>1, <2>2, <2>3
<1>3. \A x, y \in D : \A k \in Nat : Agree(at[x], at[y], k + 1) => Agree(sub[m[x]], sub[m[y]], k)
  <2> SUFFICES ASSUME NEW x \in D, NEW y \in D, NEW k \in Nat, Agree(at[x], at[y], k + 1)
               PROVE  Agree(sub[m[x]], sub[m[y]], k)
    OBVIOUS
  <2>1. k <= Len(sub[m[x]]) /\ k <= Len(sub[m[y]])
    BY <1>1 DEF Agree
  <2>2. ASSUME NEW j \in 1 .. k PROVE sub[m[x]][j] = sub[m[y]][j]
    <3>1. j \in 1 .. Len(sub[m[x]]) /\ j \in 1 .. Len(sub[m[y]]) /\ j + 1 \in 1 .. k + 1
      BY <1>1, <2>1
    <3> QED BY <1>1, <3>1 DEF Agree
  <2> QED BY <2>1, <2>2 DEF Agree
<1>4. \A x, y \in D : \A k \in Nat : Agree(sub[m[x]], sub[m[y]], k) => Agree(at[x], at[y], k + 1)
  <2> SUFFICES ASSUME NEW x \in D, NEW y \in D, NEW k \in Nat, Agree(sub[m[x]], sub[m[y]], k)
               PROVE  Agree(at[x], at[y], k + 1)
    OBVIOUS
  <2>1. /\ k <= Len(sub[m[x]]) /\ k <= Len(sub[m[y]])
        /\ k + 1 <= Len(at[x]) /\ k + 1 <= Len(at[y])
    BY <1>1 DEF Agree
  <2>2. ASSUME NEW j \in 1 .. k + 1 PROVE at[x][j] = at[y][j]
    <3>1. CASE j = 1
      BY <1>1, <3>1
    <3>2. CASE j # 1
      <4>1. j - 1 \in 1 .. k /\ j \in 2 .. Len(at[x]) /\ j \in 2 .. Len(at[y])
        BY <1>1, <2>1, <3>2
      <4> QED BY <1>2, <4>1 DEF Agree
    <3> QED BY <3>1, <3>2
  <2> QED BY <2>1, <2>2 DEF Agree
<1>5. LeavesOf(at, D)
  <2> SUFFICES ASSUME NEW p \in D, NEW q \in D, Agree(at[p], at[q], Len(at[p]))
               PROVE  p = q
    BY DEF LeavesOf
  <2>1. Agree(sub[m[p]], sub[m[q]], Len(sub[m[p]]))
    BY <1>1, <1>3
  <2> QED BY <1>1, <2>1 DEF Whole, Leaves
<1>6. SiblingsOf(at, D)
  <2> SUFFICES ASSUME NEW p \in D, NEW i \in 2 .. Len(at[p])
               PROVE  \E r \in D : /\ i <= Len(at[r]) /\ Agree(at[p], at[r], i - 1)
                                   /\ at[r][i] = Opposite[at[p][i]]
    BY DEF SiblingsOf
  <2>1. PICK k : k = i - 1
    OBVIOUS
  <2>2. k \in 1 .. Len(sub[m[p]]) /\ at[p][i] = sub[m[p]][k] /\ k \in Nat /\ k - 1 \in Nat
    BY <1>1, <1>2, <2>1
  <2>3. PICK s \in DOMAIN sub :
          k <= Len(sub[s]) /\ Agree(sub[m[p]], sub[s], k - 1) /\ sub[s][k] = Opposite[sub[m[p]][k]]
    BY <1>1, <2>2 DEF Whole, Siblings
  <2>4. PICK r \in D : m[r] = s
    BY <1>1
  <2>5. i \in 2 .. Len(at[r])
    BY <1>1, <2>1, <2>2, <2>3, <2>4
  <2>6. at[r][i] = Opposite[at[p][i]]
    BY <1>2, <2>1, <2>2, <2>3, <2>4, <2>5
  <2>7. Agree(at[p], at[r], (k - 1) + 1)
    BY <1>4, <2>2, <2>3, <2>4
  <2>8. (k - 1) + 1 = i - 1
    BY <2>1, <2>2
  <2> QED BY <2>5, <2>6, <2>7, <2>8
<1>7. BinaryOf(at, D)
  <2> SUFFICES ASSUME NEW p \in D, NEW q \in D, NEW i \in 2 .. Len(at[p]), i <= Len(at[q]),
                      Agree(at[p], at[q], i - 1)
               PROVE  at[q][i] \in {at[p][i], Opposite[at[p][i]]}
    BY DEF BinaryOf
  <2>1. PICK k : k = i - 1
    OBVIOUS
  <2>2. k \in 1 .. Len(sub[m[p]]) /\ at[p][i] = sub[m[p]][k] /\ k \in Nat /\ k - 1 \in Nat
    BY <1>1, <1>2, <2>1
  <2>3. i \in 2 .. Len(at[q])
    BY <1>1
  <2>4. k <= Len(sub[m[q]]) /\ at[q][i] = sub[m[q]][k]
    BY <1>1, <1>2, <2>1, <2>3
  <2>5. (k - 1) + 1 = i - 1
    BY <2>1, <2>2
  <2>6. Agree(sub[m[p]], sub[m[q]], k - 1)
    BY <1>3, <2>2, <2>5
  <2>7. sub[m[q]][k] \in {sub[m[p]][k], Opposite[sub[m[p]][k]]}
    BY <1>1, <2>2, <2>4, <2>6 DEF Whole, Binary
  <2> QED BY <2>2, <2>4, <2>7
<1> QED BY <1>5, <1>6, <1>7

LEMMA UnderBegins ==
  ASSUME NEW sub, Places(sub), NEW at, NEW D, NEW m, NEW d, Under(at, D, sub, m, d)
  PROVE  \A x \in D : at[x] \in Seq(Directions) /\ Len(at[x]) \in Nat /\ 1 <= Len(at[x])
                     /\ at[x][1] = d
<1> SUFFICES ASSUME NEW x \in D
             PROVE  at[x] \in Seq(Directions) /\ Len(at[x]) \in Nat /\ 1 <= Len(at[x])
                    /\ at[x][1] = d
  OBVIOUS
<1>1. PICK n : n = Len(sub[m[x]])
  OBVIOUS
<1>2. n \in Nat
  BY <1>1, PlaceIs DEF Under
<1>3. Len(at[x]) = n + 1 /\ at[x] \in Seq(Directions) /\ at[x][1] = d
  BY <1>1 DEF Under
<1> QED BY <1>2, <1>3

\* Two trees below the sides of a split are one tree.
LEMMA HalvesAreWhole ==
  ASSUME NEW at, NEW A, NEW B, DOMAIN at = A \cup B, A # {}, B # {}, NEW d \in Directions,
         NEW first, Places(first), Whole(first), NEW f, Under(at, A, first, f, d),
         NEW second, Places(second), Whole(second), NEW g, Under(at, B, second, g, Opposite[d])
  PROVE  Places(at) /\ Whole(at)
<1>1. PICK e : e = Opposite[d]
  OBVIOUS
<1>2. e \in Directions /\ e # d /\ Opposite[e] = d /\ Opposite[d] = e
  BY <1>1, OppositeIs
<1>3. /\ LeavesOf(at, A) /\ SiblingsOf(at, A) /\ BinaryOf(at, A)
  BY UnderIs
<1>4. /\ LeavesOf(at, B) /\ SiblingsOf(at, B) /\ BinaryOf(at, B)
  BY UnderIs
<1>5. /\ \A x \in A : at[x] \in Seq(Directions) /\ Len(at[x]) \in Nat /\ 1 <= Len(at[x])
                     /\ at[x][1] = d
      /\ \A x \in B : at[x] \in Seq(Directions) /\ Len(at[x]) \in Nat /\ 1 <= Len(at[x])
                     /\ at[x][1] = e
  <2>1. Under(at, B, second, g, e)
    BY <1>1
  <2> QED BY <2>1, UnderBegins
<1>6. Places(at)
  BY <1>5 DEF Places
<1>7. \A x \in A, y \in B : \A k \in Nat :
        k > 0 => ~Agree(at[x], at[y], k) /\ ~Agree(at[y], at[x], k)
  <2> SUFFICES ASSUME NEW x \in A, NEW y \in B, NEW k \in Nat, k > 0
               PROVE  ~Agree(at[x], at[y], k) /\ ~Agree(at[y], at[x], k)
    OBVIOUS
  <2>1. 1 \in 1 .. k /\ at[x][1] # at[y][1]
    BY <1>2, <1>5
  <2> QED BY <2>1 DEF Agree
<1>8. Leaves(at)
  <2> SUFFICES ASSUME NEW p \in A \cup B, NEW q \in A \cup B, Agree(at[p], at[q], Len(at[p]))
               PROVE  p = q
    BY DEF Leaves
  <2>1. Len(at[p]) \in Nat /\ Len(at[p]) > 0
    BY <1>5
  <2>2. (p \in A /\ q \in A) \/ (p \in B /\ q \in B)
    BY <1>7, <2>1
  <2> QED BY <1>3, <1>4, <2>2 DEF LeavesOf
<1>9. Siblings(at)
  <2> SUFFICES ASSUME NEW p \in A \cup B, NEW i \in 1 .. Len(at[p])
               PROVE  \E r \in A \cup B : /\ i <= Len(at[r]) /\ Agree(at[p], at[r], i - 1)
                                          /\ at[r][i] = Opposite[at[p][i]]
    BY DEF Siblings
  <2>1. CASE i = 1
    <3>1. \A r \in A \cup B : i <= Len(at[r]) /\ Agree(at[p], at[r], i - 1)
      BY <1>5, <2>1 DEF Agree
    <3>2. CASE p \in A
      <4>1. PICK r \in B : TRUE
        OBVIOUS
      <4> QED BY <1>2, <1>5, <2>1, <3>1, <3>2, <4>1
    <3>3. CASE p \in B
      <4>1. PICK r \in A : TRUE
        OBVIOUS
      <4> QED BY <1>2, <1>5, <2>1, <3>1, <3>3, <4>1
    <3> QED BY <3>2, <3>3
  <2>2. CASE i # 1
    <3>1. i \in 2 .. Len(at[p])
      BY <1>5, <2>2
    <3> QED BY <1>3, <1>4, <3>1 DEF SiblingsOf
  <2> QED BY <2>1, <2>2
<1>10. Binary(at)
  <2> SUFFICES ASSUME NEW p \in A \cup B, NEW q \in A \cup B, NEW i \in 1 .. Len(at[p]),
                      i <= Len(at[q]), Agree(at[p], at[q], i - 1)
               PROVE  at[q][i] \in {at[p][i], Opposite[at[p][i]]}
    BY DEF Binary
  <2>1. CASE i = 1
    <3>1. at[p][1] \in {d, e} /\ at[q][1] \in {d, e}
      BY <1>5
    <3> QED BY <1>2, <2>1, <3>1
  <2>2. CASE i # 1
    <3>1. i \in 2 .. Len(at[p]) /\ i - 1 \in Nat /\ i - 1 > 0
      BY <1>5, <2>2
    <3>2. (p \in A /\ q \in A) \/ (p \in B /\ q \in B)
      BY <1>7, <3>1
    <3> QED BY <1>3, <1>4, <3>1, <3>2 DEF BinaryOf
  <2> QED BY <2>1, <2>2
<1> QED BY <1>6, <1>8, <1>9, <1>10 DEF Whole

LEMMA BranchIs ==
  ASSUME NEW s \in Seq(Directions), NEW d \in Directions
  PROVE  /\ <<d>> \o s \in Seq(Directions) /\ Len(<<d>> \o s) = Len(s) + 1
         /\ (<<d>> \o s)[1] = d /\ \A j \in 1 .. Len(s) : (<<d>> \o s)[j + 1] = s[j]
<1>1. Len(s) \in Nat
  BY LenProperties
<1>2. <<d>> \in Seq(Directions) /\ Len(<<d>>) = 1 /\ <<d>>[1] = d
  OBVIOUS
<1> QED BY <1>1, <1>2

Tree(at, n) == DOMAIN at = 1 .. n /\ Places(at) /\ Whole(at)

LEMMA BesideIs ==
  ASSUME NEW n \in Nat, NEW half \in 1 .. n, half < n, NEW side \in Directions,
         NEW first, Tree(first, half), NEW second, Tree(second, n - half)
  PROVE  Tree(Beside(first, second, half, n, side), n)
<1>1. PICK at : at = Beside(first, second, half, n, side)
  OBVIOUS
<1>2. /\ DOMAIN at = 1 .. n
      /\ \A i \in 1 .. n : at[i] = IF i <= half THEN <<side>> \o first[i]
                                   ELSE <<Opposite[side]>> \o second[i - half]
  BY <1>1 DEF Beside
<1>3. PICK A, B : A = 1 .. half /\ B = (half + 1) .. n
  OBVIOUS
<1>4. DOMAIN at = A \cup B /\ A # {} /\ B # {}
  <2>1. 1 \in A /\ n \in B
    BY <1>3
  <2>2. 1 .. n = A \cup B
    BY <1>3
  <2> QED BY <1>2, <2>1, <2>2
<1>5. PICK f, g : f = [x \in A |-> x] /\ g = [x \in B |-> x - half]
  OBVIOUS
<1>6. Opposite[side] \in Directions
  BY OppositeIs
<1>7. Under(at, A, first, f, side)
  <2>0. DOMAIN first = 1 .. half /\ \A y \in DOMAIN first : first[y] \in Seq(Directions)
    BY DEF Tree, Places
  <2>1. \A x \in A : /\ f[x] = x /\ x \in 1 .. half /\ first[x] \in Seq(Directions)
                     /\ at[x] = <<side>> \o first[x]
    <3> SUFFICES ASSUME NEW x \in A
                 PROVE  /\ f[x] = x /\ x \in 1 .. half /\ first[x] \in Seq(Directions)
                        /\ at[x] = <<side>> \o first[x]
      OBVIOUS
    <3>1. x \in 1 .. n /\ x <= half /\ x \in 1 .. half /\ f[x] = x
      BY <1>3, <1>5
    <3>2. first[x] \in Seq(Directions)
      BY <2>0, <3>1
    <3> QED BY <1>2, <3>1, <3>2
  <2>2. \A x \in A : /\ at[x] \in Seq(Directions) /\ Len(at[x]) = Len(first[x]) + 1
                     /\ at[x][1] = side
                     /\ \A j \in 1 .. Len(first[x]) : at[x][j + 1] = first[x][j]
    <3> SUFFICES ASSUME NEW x \in A
                 PROVE  /\ at[x] \in Seq(Directions) /\ Len(at[x]) = Len(first[x]) + 1
                        /\ at[x][1] = side
                        /\ \A j \in 1 .. Len(first[x]) : at[x][j + 1] = first[x][j]
      OBVIOUS
    <3>1. PICK s : s = first[x]
      OBVIOUS
    <3>2. s \in Seq(Directions) /\ at[x] = <<side>> \o s
      BY <2>1, <3>1
    <3> QED BY ONLY <3>1, <3>2, side \in Directions, BranchIs
  <2>3. DOMAIN first = A
    BY <1>3 DEF Tree
  <2> QED BY <2>1, <2>2, <2>3 DEF Under
<1>8. Under(at, B, second, g, Opposite[side])
  <2>1. \A x \in B : /\ g[x] = x - half /\ g[x] \in 1 .. n - half /\ x \in 1 .. n /\ ~(x <= half)
    BY <1>3, <1>5
  <2>2. DOMAIN second = 1 .. n - half /\ \A y \in DOMAIN second : second[y] \in Seq(Directions)
    BY DEF Tree, Places
  <2>3. \A x \in B : /\ second[g[x]] \in Seq(Directions)
                     /\ at[x] = <<Opposite[side]>> \o second[g[x]]
    BY <1>2, <2>1, <2>2
  <2>4. \A x \in B : /\ at[x] \in Seq(Directions) /\ Len(at[x]) = Len(second[g[x]]) + 1
                     /\ at[x][1] = Opposite[side]
                     /\ \A j \in 1 .. Len(second[g[x]]) : at[x][j + 1] = second[g[x]][j]
    <3> SUFFICES ASSUME NEW x \in B
                 PROVE  /\ at[x] \in Seq(Directions) /\ Len(at[x]) = Len(second[g[x]]) + 1
                        /\ at[x][1] = Opposite[side]
                        /\ \A j \in 1 .. Len(second[g[x]]) : at[x][j + 1] = second[g[x]][j]
      OBVIOUS
    <3>1. PICK s, d : s = second[g[x]] /\ d = Opposite[side]
      OBVIOUS
    <3>2. s \in Seq(Directions) /\ d \in Directions /\ at[x] = <<d>> \o s
      BY <1>6, <2>3, <3>1
    <3> QED BY ONLY <3>1, <3>2, BranchIs
  <2>5. \A x, y \in B : g[x] = g[y] => x = y
    BY <1>3, <2>1
  <2>6. \A y \in DOMAIN second : \E x \in B : g[x] = y
    <3> SUFFICES ASSUME NEW y \in 1 .. n - half
                 PROVE  \E x \in B : g[x] = y
      BY <2>2
    <3>1. y + half \in B /\ (y + half) - half = y
      BY <1>3
    <3> QED BY <2>1, <3>1
  <2> QED BY <2>1, <2>2, <2>4, <2>5, <2>6 DEF Under
<1>9. Places(at) /\ Whole(at)
  <2>1. Places(first) /\ Whole(first) /\ Places(second) /\ Whole(second)
    BY DEF Tree
  <2> QED BY <1>4, <1>7, <1>8, <2>1, HalvesAreWhole
<1> QED BY <1>1, <1>2, <1>9 DEF Tree

LEMMA OneIsTree == Tree(<< <<>> >>, 1)
<1>1. PICK at : at = << <<>> >>
  OBVIOUS
<1>2. DOMAIN at = 1 .. 1 /\ at[1] = <<>>
  BY <1>1
<1>3. \A x \in DOMAIN at : x = 1 /\ at[x] \in Seq(Directions) /\ Len(at[x]) = 0
  <2>1. <<>> \in Seq(Directions) /\ Len(<<>>) = 0
    OBVIOUS
  <2>2. \A x \in DOMAIN at : x = 1
    BY <1>2
  <2> QED BY <1>2, <2>1, <2>2
<1>4. Places(at) /\ Leaves(at) /\ Siblings(at) /\ Binary(at)
  BY <1>3 DEF Places, Leaves, Siblings, Binary
<1> QED BY <1>1, <1>2, <1>4 DEF Tree, Whole

\* The numbers that the halves of a split share out.
LEMMA HalfIs ==
  ASSUME NEW n \in Nat, n > 1
  PROVE  /\ (n + 1) \div 2 \in 1 .. n - 1 /\ n - ((n + 1) \div 2) \in 1 .. n - 1
OBVIOUS

LEMMA SetTreesAgree ==
  ASSUME NEW layout, NEW f, NEW g, NEW n \in Nat, n > 0, \A i \in 1 .. n - 1 : f[i] = g[i]
  PROVE  SetTree(layout, f, n) = SetTree(layout, g, n)
<1>1. CASE n = 1
  BY <1>1 DEF SetTree
<1>2. CASE n # 1
  <2>1. PICK half : half = (n + 1) \div 2
    OBVIOUS
  <2>2. half \in 1 .. n - 1 /\ n - half \in 1 .. n - 1
    BY <1>2, <2>1, HalfIs
  <2>3. f[half] = g[half] /\ f[n - half] = g[n - half]
    BY <2>2
  <2> QED BY <2>1, <2>3 DEF SetTree
<1> QED BY <1>1, <1>2

\* buildSessionSetTree() gives n panes, side by side or in a grid, one tree.
LEMMA SetTreeIs ==
  ASSUME NEW layout, NEW f, NEW n \in Nat, n > 0,
         \A i \in 1 .. n - 1 : \A depth \in 0 .. 1 : Tree(f[i][depth], i)
  PROVE  \A depth \in 0 .. 1 : Tree(SetTree(layout, f, n)[depth], n)
<1> SUFFICES ASSUME NEW depth \in 0 .. 1
             PROVE  Tree(SetTree(layout, f, n)[depth], n)
  OBVIOUS
<1>1. CASE n = 1
  <2>1. SetTree(layout, f, n)[depth] = << <<>> >>
    BY <1>1 DEF SetTree
  <2> QED BY <1>1, <2>1, OneIsTree
<1>2. CASE n # 1
  <2>1. PICK half, side :
          /\ half = (n + 1) \div 2
          /\ side = IF layout = "rows" \/ (layout = "grid" /\ depth = 1) THEN "up" ELSE "left"
    OBVIOUS
  <2>2. SetTree(layout, f, n)[depth] =
          Beside(f[half][1 - depth], f[n - half][1 - depth], half, n, side)
    BY <1>2, <2>1 DEF SetTree
  <2>3. half \in 1 .. n - 1 /\ n - half \in 1 .. n - 1 /\ half \in 1 .. n /\ half < n
    <3>1. half \in 1 .. n - 1 /\ n - half \in 1 .. n - 1
      BY <1>2, <2>1, HalfIs
    <3> QED BY <3>1
  <2>4. side \in Directions /\ 1 - depth \in 0 .. 1
    BY <2>1 DEF Directions
  <2>5. Tree(f[half][1 - depth], half) /\ Tree(f[n - half][1 - depth], n - half)
    BY <2>3, <2>4
  <2> QED BY <2>2, <2>3, <2>4, <2>5, BesideIs
<1> QED BY <1>1, <1>2

Trees(places, layout, k) == places = [n \in 1 .. k |-> SetTree(layout, places, n)]

LEMMA TreesExist ==
  ASSUME NEW layout, NEW N \in Nat
  PROVE  \E places : Trees(places, layout, N)
<1> DEFINE S == {k \in Nat : k <= N /\ ~\E f : Trees(f, layout, k)}
<1>1. SUFFICES ASSUME S # {}
               PROVE  FALSE
  OBVIOUS
<1>2. PICK m \in S : \A k \in S : m <= k
  BY <1>1, SmallestNat
<1>3. m \in Nat /\ m <= N /\ ~\E f : Trees(f, layout, m)
  OBVIOUS
<1>4. CASE m = 0
  <2>1. PICK f : f = [n \in 1 .. 0 |-> 0]
    OBVIOUS
  <2>2. f = [n \in 1 .. 0 |-> SetTree(layout, f, n)]
    BY <2>1
  <2> QED BY <1>3, <1>4, <2>2 DEF Trees
<1>5. CASE m # 0
  <2>1. m - 1 \in Nat /\ m - 1 <= N /\ m - 1 \notin S
    BY <1>2, <1>3, <1>5
  <2>2. PICK f : Trees(f, layout, m - 1)
    BY <2>1
  <2>3. \A n \in 1 .. m - 1 : f[n] = SetTree(layout, f, n)
    <3>1. PICK h : h = [n \in 1 .. m - 1 |-> SetTree(layout, f, n)]
      OBVIOUS
    <3>2. f = h
      BY <2>2, <3>1 DEF Trees
    <3> QED BY <3>1, <3>2
  <2>4. PICK g : g = [n \in 1 .. m |-> IF n = m THEN SetTree(layout, f, m) ELSE f[n]]
    OBVIOUS
  <2>5. \A n \in 1 .. m - 1 : g[n] = f[n] /\ n # m /\ n \in 1 .. m
    BY <1>3, <2>4
  <2>6. ASSUME NEW n \in 1 .. m PROVE g[n] = SetTree(layout, g, n)
    <3>1. \A i \in 1 .. n - 1 : g[i] = f[i]
      BY <1>3, <2>5
    <3>2. SetTree(layout, g, n) = SetTree(layout, f, n)
      <4>1. n \in Nat /\ n > 0
        BY <1>3
      <4> QED BY <3>1, <4>1, SetTreesAgree
    <3>3. CASE n = m
      BY <2>4, <3>2, <3>3
    <3>4. CASE n # m
      <4>1. n \in 1 .. m - 1
        BY <1>3, <3>4
      <4> QED BY <2>3, <2>5, <3>2, <4>1
    <3> QED BY <3>3, <3>4
  <2>7. g = [n \in 1 .. m |-> SetTree(layout, g, n)]
    <3>1. g = [n \in 1 .. m |-> g[n]]
      BY <2>4
    <3> QED BY <2>6, <3>1
  <2> QED BY <1>3, <2>7 DEF Trees
<1> QED BY <1>4, <1>5

LEMMA SetPlacesIs ==
  ASSUME NEW layout, NEW N \in Nat, N > 0
  PROVE  Tree(SetPlaces(layout, N), N)
<1>1. PICK f : Trees(f, layout, N) /\ SetPlaces(layout, N) = f[N][0]
  <2> DEFINE f == CHOOSE f : Trees(f, layout, N)
  <2>1. SetPlaces(layout, N) = f[N][0]
    BY DEF SetPlaces, Trees
  <2>2. Trees(f, layout, N)
    BY TreesExist
  <2> QED BY <2>1, <2>2
<1>2. \A n \in 1 .. N : f[n] = SetTree(layout, f, n)
  <2>1. PICK h : h = [n \in 1 .. N |-> SetTree(layout, f, n)]
    OBVIOUS
  <2>2. f = h
    BY <1>1, <2>1 DEF Trees
  <2> QED BY <2>1, <2>2
<1> DEFINE S == {n \in Nat : n \in 1 .. N /\ \E depth \in 0 .. 1 : ~Tree(f[n][depth], n)}
<1>3. S = {}
  <2>1. SUFFICES ASSUME S # {}
                 PROVE  FALSE
    OBVIOUS
  <2>2. PICK m \in S : \A k \in S : m <= k
    BY <2>1, SmallestNat
  <2>3. \A i \in 1 .. m - 1 : \A depth \in 0 .. 1 : Tree(f[i][depth], i)
    BY <2>2
  <2>4. \A depth \in 0 .. 1 : Tree(SetTree(layout, f, m)[depth], m)
    BY <2>3, SetTreeIs
  <2> QED BY <1>2, <2>4
<1>4. N \in 1 .. N /\ 0 \in 0 .. 1
  OBVIOUS
<1> QED BY <1>1, <1>3, <1>4

\* The panes of a tree by other names.
Renames(at, sub, m) ==
  /\ \A p \in DOMAIN at : m[p] \in DOMAIN sub /\ at[p] = sub[m[p]]
  /\ \A p, q \in DOMAIN at : m[p] = m[q] => p = q
  /\ \A y \in DOMAIN sub : \E p \in DOMAIN at : m[p] = y

LEMMA RenamedIsWhole ==
  ASSUME NEW sub, Places(sub), Whole(sub), NEW at, NEW m, Renames(at, sub, m)
  PROVE  Places(at) /\ Whole(at)
<1> USE DEF Renames
<1>1. Places(at)
  BY DEF Places
<1>2. Leaves(at)
  <2> SUFFICES ASSUME NEW p \in DOMAIN at, NEW q \in DOMAIN at, Agree(at[p], at[q], Len(at[p]))
               PROVE  p = q
    BY DEF Leaves
  <2>1. m[p] \in DOMAIN sub /\ m[q] \in DOMAIN sub /\ at[p] = sub[m[p]] /\ at[q] = sub[m[q]]
    OBVIOUS
  <2>2. m[p] = m[q]
    BY <2>1 DEF Whole, Leaves
  <2> QED BY <2>2
<1>3. Siblings(at)
  <2> SUFFICES ASSUME NEW p \in DOMAIN at, NEW i \in 1 .. Len(at[p])
               PROVE  \E r \in DOMAIN at : /\ i <= Len(at[r]) /\ Agree(at[p], at[r], i - 1)
                                           /\ at[r][i] = Opposite[at[p][i]]
    BY DEF Siblings
  <2>1. m[p] \in DOMAIN sub /\ at[p] = sub[m[p]]
    OBVIOUS
  <2>2. PICK y \in DOMAIN sub : /\ i <= Len(sub[y]) /\ Agree(at[p], sub[y], i - 1)
                                /\ sub[y][i] = Opposite[at[p][i]]
    BY <2>1 DEF Whole, Siblings
  <2>3. PICK r \in DOMAIN at : m[r] = y
    OBVIOUS
  <2> QED BY <2>2, <2>3
<1>4. Binary(at)
  <2> SUFFICES ASSUME NEW p \in DOMAIN at, NEW q \in DOMAIN at, NEW i \in 1 .. Len(at[p]),
                      i <= Len(at[q]), Agree(at[p], at[q], i - 1)
               PROVE  at[q][i] \in {at[p][i], Opposite[at[p][i]]}
    BY DEF Binary
  <2>1. m[p] \in DOMAIN sub /\ m[q] \in DOMAIN sub /\ at[p] = sub[m[p]] /\ at[q] = sub[m[q]]
    OBVIOUS
  <2> QED BY <2>1 DEF Whole, Binary
<1> QED BY <1>1, <1>2, <1>3, <1>4 DEF Whole

\* The panes that a set of k sessions is given.
Given(panes, layout, k) ==
  /\ panes \in [1 .. (IF layout = "tabs" THEN 1 ELSE k) -> Pane] /\ IsInjective(panes)

LEMMA SetRootIs ==
  ASSUME NEW k \in Nat, k > 0, NEW ids \in [1 .. k -> Tab], NEW layout, NEW panes,
         Given(panes, layout, k), NEW root, root = SetRoot(ids, panes, layout)
  PROVE  /\ Root(root) /\ Panes(root) = ToSet(panes)
         /\ \A i \in DOMAIN panes :
              root.front[panes[i]] = IF Len(panes) = 1 THEN ids[k] ELSE ids[i]
<1>1. PICK n : n = IF layout = "tabs" THEN 1 ELSE k
  OBVIOUS
<1>2. /\ n \in Nat /\ n > 0 /\ panes \in [1 .. n -> Pane] /\ DOMAIN panes = 1 .. n
      /\ \A i, j \in 1 .. n : panes[i] = panes[j] => i = j
      /\ n = 1 \/ n = k
  BY <1>1 DEF Given, IsInjective
<1>3. Len(panes) = n /\ Last(ids) = ids[k]
  <2>1. ids \in Seq(Tab) /\ Len(ids) = k
    OBVIOUS
  <2>2. Len(panes) = n
    BY <1>2
  <2> QED BY <2>1, <2>2 DEF Last
<1>4. PICK m : m = [p \in ToSet(panes) |-> IndexIn(panes, p)]
  OBVIOUS
<1>5. ToSet(panes) = {panes[i] : i \in 1 .. n}
  BY <1>2 DEF ToSet
<1>6. \A p \in ToSet(panes) : m[p] \in 1 .. n /\ panes[m[p]] = p
  BY <1>2, <1>4, <1>5 DEF IndexIn
<1>7. \A i \in 1 .. n : panes[i] \in ToSet(panes) /\ m[panes[i]] = i
  BY <1>2, <1>5, <1>6
<1>8. PICK sub : sub = SetPlaces(layout, n)
  OBVIOUS
<1>9. DOMAIN sub = 1 .. n /\ Places(sub) /\ Whole(sub)
  BY <1>2, <1>8, SetPlacesIs DEF Tree
<1>10. PICK at, front : /\ at = [p \in ToSet(panes) |-> sub[m[p]]]
                        /\ front = [p \in ToSet(panes) |-> IF n = 1 THEN ids[k] ELSE ids[m[p]]]
  OBVIOUS
<1>11. root = [at |-> at, front |-> front]
  BY <1>3, <1>4, <1>8, <1>10 DEF SetRoot
<1>12. Places(at) /\ Whole(at)
  <2>1. DOMAIN at = ToSet(panes)
    BY <1>10
  <2>2. \A p \in DOMAIN at : m[p] \in DOMAIN sub /\ at[p] = sub[m[p]]
    BY <1>6, <1>9, <1>10
  <2>3. \A p, q \in DOMAIN at : m[p] = m[q] => p = q
    BY <1>6, <2>1
  <2>4. \A y \in DOMAIN sub : \E p \in DOMAIN at : m[p] = y
    BY <1>7, <1>9, <2>1
  <2>5. Renames(at, sub, m)
    BY <2>2, <2>3, <2>4 DEF Renames
  <2> QED BY ONLY <1>9, <2>5, RenamedIsWhole
<1>13. \A p \in ToSet(panes) : front[p] \in Tab \cup {Nobody}
  <2>1. \A p \in ToSet(panes) : m[p] \in 1 .. n /\ (n # 1 => m[p] \in 1 .. k) /\ k \in 1 .. k
    BY <1>2, <1>6
  <2> QED BY <1>10, <2>1
<1>14. ToSet(panes) \in SUBSET Pane /\ ToSet(panes) # {} /\ IsFiniteSet(ToSet(panes))
  <2>1. IsFiniteSet(1 .. n) /\ 1 \in 1 .. n
    BY <1>2, FS_Interval
  <2>2. IsFiniteSet({panes[i] : i \in 1 .. n})
    <3>1. PICK T : T = {panes[i] : i \in 1 .. n}
      OBVIOUS
    <3>2. panes \in Surjection(1 .. n, T)
      BY <1>2, <3>1 DEF Surjection
    <3> QED BY ONLY <2>1, <3>1, <3>2, FS_Surjection
  <2> QED BY <1>2, <1>5, <2>1, <2>2
<1>15. at = [p \in ToSet(panes) |-> at[p]] /\ front = [p \in ToSet(panes) |-> front[p]]
  BY <1>10
<1>16. Root([at |-> at, front |-> front])
  BY <1>12, <1>13, <1>14, <1>15, RootMade
<1>17. Panes(root) = ToSet(panes) /\ root.front = front
  BY <1>10, <1>11 DEF Panes
<1>18. \A i \in DOMAIN panes : root.front[panes[i]] = IF Len(panes) = 1 THEN ids[k] ELSE ids[i]
  BY <1>2, <1>3, <1>7, <1>10, <1>17
<1> QED BY <1>11, <1>16, <1>17, <1>18

\* The tabs of the set, in its one pane or one in each.
SetTab(ids, panes, i) == NewTab(ids[i], panes[Min({i, Len(panes)})], TRUE)

SetTabs(tabs, ids, panes, k) ==
  /\ List(tabs) /\ DOMAIN tabs = 1 .. k
  /\ \A i \in 1 .. k : /\ tabs[i].id = ids[i]
                      /\ IF Len(panes) = 1 THEN tabs[i].pane = panes[1]
                         ELSE i \in DOMAIN panes /\ tabs[i].pane = panes[i]

LEMMA SetTabsAre ==
  ASSUME NEW k \in Nat, k > 0, NEW ids \in [1 .. k -> Tab], IsInjective(ids), NEW layout,
         NEW panes, Given(panes, layout, k), NEW tabs,
         tabs = [i \in DOMAIN ids |-> SetTab(ids, panes, i)]
  PROVE  SetTabs(tabs, ids, panes, k)
<1>1. PICK n : n = IF layout = "tabs" THEN 1 ELSE k
  OBVIOUS
<1>2. /\ n \in Nat /\ n > 0 /\ panes \in [1 .. n -> Pane] /\ DOMAIN panes = 1 .. n
      /\ n = 1 \/ n = k
  BY <1>1 DEF Given
<1>3. Len(panes) = n
  BY <1>2
<1>4. \A i \in 1 .. k : Min({i, n}) = IF n = 1 THEN 1 ELSE i
  <2> SUFFICES ASSUME NEW i \in 1 .. k
               PROVE  Min({i, n}) = IF n = 1 THEN 1 ELSE i
    OBVIOUS
  <2>1. PICK S : S = {i, n}
    OBVIOUS
  <2>2. S \in SUBSET Nat /\ S # {} /\ i \in S /\ n \in S
    BY <1>2, <2>1
  <2>3. Min(S) \in S /\ Min(S) <= i /\ Min(S) <= n
    BY <2>2, MinIs
  <2> QED BY <1>2, <2>1, <2>3
<1>5. PICK m : m = [i \in 1 .. k |-> IF n = 1 THEN 1 ELSE i]
  OBVIOUS
<1>6. \A i \in 1 .. k :
        /\ tabs[i] \in TabRecord /\ tabs[i].id = ids[i] /\ tabs[i].pinned = FALSE
        /\ tabs[i].pane = panes[m[i]] /\ (n # 1 => i \in DOMAIN panes)
  <2> SUFFICES ASSUME NEW i \in 1 .. k
               PROVE  /\ tabs[i] \in TabRecord /\ tabs[i].id = ids[i] /\ tabs[i].pinned = FALSE
                      /\ tabs[i].pane = panes[m[i]] /\ (n # 1 => i \in DOMAIN panes)
    OBVIOUS
  <2>1. Min({i, Len(panes)}) = m[i]
    BY <1>3, <1>4, <1>5
  <2>2. m[i] \in 1 .. n /\ (n # 1 => i \in DOMAIN panes)
    BY <1>2, <1>5
  <2>3. PICK id, p : id = ids[i] /\ p = panes[m[i]]
    OBVIOUS
  <2>4. id \in Tab /\ p \in Pane
    BY <1>2, <2>2, <2>3
  <2>5. tabs[i] = NewTab(id, p, TRUE)
    BY <2>1, <2>3 DEF SetTab
  <2>6. /\ tabs[i] \in TabRecord /\ tabs[i].id = id /\ tabs[i].pinned = FALSE
        /\ tabs[i].pane = p
    <3>1. PICK t : t = tabs[i]
      OBVIOUS
    <3>2. t = NewTab(id, p, TRUE)
      BY <2>5, <3>1
    <3>3. t \in TabRecord /\ t.id = id /\ t.pinned = FALSE /\ t.pane = p
      <4>1. 0 \in 0 .. MaxSize
        BY TabsAssumption
      <4> QED BY <2>4, <3>2, <4>1 DEF NewTab, TabRecord
    <3> QED BY <3>1, <3>3
  <2> QED BY <2>2, <2>3, <2>6
<1>7. tabs = [i \in 1 .. k |-> tabs[i]] /\ DOMAIN tabs = 1 .. k
  OBVIOUS
<1>8. tabs \in Seq(TabRecord)
  <2>1. \A i \in 1 .. k : tabs[i] \in TabRecord
    BY ONLY <1>6
  <2> QED BY ONLY <1>7, <2>1, k \in Nat
<1>9. Distinct(tabs)
  <2>1. \A i, j \in 1 .. k : ids[i] = ids[j] => i = j
    BY DEF IsInjective
  <2>2. \A i \in 1 .. k : tabs[i].id = ids[i]
    BY ONLY <1>6
  <2>3. DOMAIN tabs = 1 .. k
    BY <1>7
  <2> QED BY ONLY <2>1, <2>2, <2>3 DEF Distinct
<1>10. Grouped(tabs)
  BY <1>6, <1>7 DEF Grouped
<1>11. \A i \in 1 .. k : m[i] = IF n = 1 THEN 1 ELSE i
  BY <1>5
<1> QED BY <1>3, <1>6, <1>7, <1>8, <1>9, <1>10, <1>11 DEF List, SetTabs

LEMMA LaunchSetIs ==
  ASSUME NEW k \in Nat, k > 0, NEW ids \in [1 .. k -> Tab], IsInjective(ids), NEW layout,
         NEW panes, Given(panes, layout, k)
  PROVE  Good(LaunchSet(ids, panes, layout))
<1>1. PICK root, tabs : /\ root = SetRoot(ids, panes, layout)
                        /\ tabs = [i \in DOMAIN ids |-> SetTab(ids, panes, i)]
  OBVIOUS
<1>2. PICK v : v = LaunchSet(ids, panes, layout)
  OBVIOUS
<1>3. /\ Record(v) /\ v.tabs = tabs /\ v.root = root /\ v.focus = FirstPane(root, <<>>)
      /\ v.activeId = root.front[v.focus] /\ v.zoomed = Nobody /\ v.unread = {}
  BY <1>1, <1>2 DEF LaunchSet, SetTab, Record
<1>4. /\ Root(root) /\ Panes(root) = ToSet(panes)
      /\ \A i \in DOMAIN panes :
           root.front[panes[i]] = IF Len(panes) = 1 THEN ids[k] ELSE ids[i]
  BY <1>1, SetRootIs
<1>5. /\ List(tabs) /\ DOMAIN tabs = 1 .. k
      /\ \A i \in 1 .. k :
           /\ tabs[i].id = ids[i]
           /\ IF Len(panes) = 1 THEN tabs[i].pane = panes[1]
                                ELSE i \in DOMAIN panes /\ tabs[i].pane = panes[i]
  <2>1. SetTabs(tabs, ids, panes, k)
    BY <1>1, SetTabsAre
  <2> QED BY <2>1 DEF SetTabs
<1>6. /\ DOMAIN panes = 1 .. Len(panes) /\ (Len(panes) = 1 \/ Len(panes) = k)
      /\ 1 \in DOMAIN panes
  BY DEF Given
<1>7. v.focus \in Panes(root)
  BY <1>3, <1>4, FirstOfAll
<1>8. Fronts(ToSet(tabs), root, {})
  <2>1. ASSUME NEW t \in ToSet(tabs) PROVE t.pane \in Panes(root)
    <3>1. PICK i \in 1 .. k : t = tabs[i]
      <4>1. DOMAIN tabs = 1 .. k
        BY <1>5
      <4> QED BY ONLY <2>1, <4>1 DEF ToSet
    <3>2. \E j \in DOMAIN panes : t.pane = panes[j]
      BY <1>5, <1>6, <3>1
    <3> QED BY <1>4, <3>2 DEF ToSet
  <2>2. ASSUME NEW p \in Panes(root) PROVE Shows(ToSet(tabs), root, p)
    <3>1. PICK j \in DOMAIN panes : p = panes[j]
      BY <1>4 DEF ToSet
    <3>2. \E i \in 1 .. k : tabs[i].pane = p /\ tabs[i].id = root.front[p]
      <4>1. CASE Len(panes) = 1
        <5>1. j = 1 /\ k \in 1 .. k
          BY <1>6, <4>1
        <5> QED BY <1>4, <1>5, <3>1, <4>1, <5>1
      <4>2. CASE Len(panes) # 1
        <5>1. j \in 1 .. k
          BY <1>6, <4>2
        <5>2. tabs[j].id = ids[j] /\ tabs[j].pane = panes[j]
          BY ONLY <1>5, <4>2, <5>1
        <5>3. root.front[panes[j]] = ids[j]
          BY <1>4, <4>2
        <5> QED BY <3>1, <5>1, <5>2, <5>3
      <4> QED BY <4>1, <4>2
    <3>3. \E t \in ToSet(tabs) : t.pane = p /\ t.id = root.front[p]
      BY <1>5, <3>2 DEF ToSet
    <3> QED BY <3>3 DEF Shows
  <2> QED BY <2>1, <2>2 DEF Fronts
<1>9. Known({}, ToSet(tabs)) /\ Hidden({}, ToSet(tabs), root, Nobody)
  BY DEF Known, Hidden
<1>10. Good(v)
  BY <1>3, <1>4, <1>5, <1>7, <1>8, <1>9, GoodMade
<1> QED BY <1>2, <1>10

-----------------------------------------------------------------------------
(* The steps of the window *)

TabsInv == Good(window)

LEMMA HereIs ==
  ASSUME TabsInv
  PROVE  /\ Good(window) /\ Here = ToSet(window.tabs) /\ List(window.tabs) /\ Root(window.root)
         /\ Panes(window.root) \subseteq Pane /\ window.focus \in Panes(window.root)
         /\ \A t \in Here : t \in TabRecord /\ t.pane \in Panes(window.root)
BY GoodIs, RootIs, TabIs DEF TabsInv, Here, Fronts

LEMMA TabsStart == TabsInit => TabsInv
<1> SUFFICES ASSUME TabsInit
             PROVE  Good(window)
  BY DEF TabsInv
<1>1. PICK p \in Pane :
        window = [tabs |-> <<>>, root |-> OnePane(p), focus |-> p, activeId |-> Nobody,
                  zoomed |-> Nobody, unread |-> {}]
  BY DEF TabsInit
<1>2. PICK root : root = OnePane(p)
  OBVIOUS
<1>3. /\ Record(window) /\ window.tabs = <<>> /\ window.root = root /\ window.focus = p
      /\ window.activeId = Nobody /\ window.zoomed = Nobody /\ window.unread = {}
  BY <1>1, <1>2 DEF Record
<1>4. Root(root) /\ Panes(root) = {p} /\ root.front[p] = Nobody
  BY <1>2, OnePaneIs
<1>5. List(<<>>) /\ ToSet(<<>>) = {}
  BY EmptySeq DEF List, Distinct, Grouped, ToSet
<1>6. Fronts({}, root, {}) /\ Known({}, {}) /\ Hidden({}, {}, root, Nobody)
  BY <1>4 DEF Fronts, Shows, Known, Hidden
<1> QED BY <1>3, <1>4, <1>5, <1>6, GoodMade

LEMMA RoomIs ==
  ASSUME TabsInv, NEW more \in Nat, Room(more)
  PROVE  Size(window) \in Nat /\ Size(window) + more <= MaxSize
<1>1. List(window.tabs) /\ Root(window.root)
  BY HereIs
<1>2. Size(window) \in Nat
  BY <1>1, SizeIs
<1>3. Size(window) + more <= MaxSize
  BY DEF Room, Size
<1> QED BY <1>2, <1>3

LEMMA OpensTabKeeps ==
  ASSUME TabsInv, OpensTab
  PROVE  Good(window')
<1>1. ASSUME Room(1), NEW id \in FreshTab, NEW session \in BOOLEAN,
             window' = Open(window, id, session)
      PROVE  Good(window')
  BY <1>1, HereIs, OpenIs DEF FreshTab
<1>2. ASSUME NEW tab \in Here, ~tab.session, window' = ReplaceEmpty(window, tab)
      PROVE  Good(window')
  BY <1>2, HereIs, ReplaceEmptyIs
<1>3. ASSUME NEW id \in FreshTab, NEW p \in Panes(window.root), NEW pinned \in BOOLEAN,
             NEW shown \in BOOLEAN, NEW editors \in 0 .. 1, NEW spot \in Spots(p, id),
             Room(1 + editors),
             window' = Adopt(window, [NewTab(id, p, TRUE) EXCEPT !.pinned = pinned,
                                        !.editors = editors, !.shown = shown],
                             p, spot[1], spot[2])
      PROVE  Good(window')
  <2>1. PICK t : t = [NewTab(id, p, TRUE) EXCEPT !.pinned = pinned, !.editors = editors,
                                                 !.shown = shown]
    OBVIOUS
  <2>2. id \in Tab /\ id \notin Ids(window.tabs) /\ p \in Pane
    BY HereIs DEF FreshTab
  <2>3. 1 + editors \in Nat
    OBVIOUS
  <2>4. Size(window) \in Nat /\ Size(window) + (1 + editors) <= MaxSize
    BY <1>3, <2>3, RoomIs
  <2>5. editors \in 0 .. MaxSize
    BY <2>4, TabsAssumption
  <2>6. t = [id |-> id, pane |-> p, pinned |-> pinned, session |-> TRUE, editors |-> editors,
             shown |-> shown]
    BY <2>1 DEF NewTab
  <2>7. t \in TabRecord /\ t.id = id /\ t.pane = p /\ t.session
    BY <2>2, <2>5, <2>6 DEF TabRecord
  <2>8. window' = Adopt(window, t, p, spot[1], spot[2])
    BY <1>3, <2>1
  <2> QED BY <2>2, <2>7, <2>8, HereIs, AdoptIs
<1>4. CASE \E id \in FreshTab, p \in Panes(window.root), pinned, shown \in BOOLEAN,
              editors \in 0 .. 1 :
             \E spot \in Spots(p, id) :
               /\ Room(1 + editors) /\ (shown => editors > 0)
               /\ window' = Adopt(window, [NewTab(id, p, TRUE) EXCEPT !.pinned = pinned,
                                             !.editors = editors, !.shown = shown],
                                  p, spot[1], spot[2])
  <2>1. PICK id \in FreshTab, p \in Panes(window.root), pinned \in BOOLEAN,
             shown \in BOOLEAN, editors \in 0 .. 1 :
             \E spot \in Spots(p, id) :
               /\ Room(1 + editors)
               /\ window' = Adopt(window, [NewTab(id, p, TRUE) EXCEPT !.pinned = pinned,
                                             !.editors = editors, !.shown = shown],
                                  p, spot[1], spot[2])
    BY ONLY <1>4, Zenon
  <2>2. PICK spot \in Spots(p, id) :
          /\ Room(1 + editors)
          /\ window' = Adopt(window, [NewTab(id, p, TRUE) EXCEPT !.pinned = pinned,
                                        !.editors = editors, !.shown = shown],
                             p, spot[1], spot[2])
    BY ONLY <2>1
  <2> QED BY ONLY <1>3, <2>2
<1>5. CASE Room(1) /\ \E id \in FreshTab, session \in BOOLEAN : window' = Open(window, id, session)
  BY ONLY <1>1, <1>5
<1>6. CASE \E tab \in Here : ~tab.session /\ window' = ReplaceEmpty(window, tab)
  BY ONLY <1>2, <1>6
<1> QED BY <1>4, <1>5, <1>6 DEF OpensTab

LEMMA ClosesKeeps ==
  ASSUME TabsInv, Closes
  PROVE  Good(window')
<1>1. ASSUME NEW tab \in Here, window' = Close(window, tab.id)
      PROVE  Good(window')
  BY <1>1, HereIs, CloseIs
<1>2. ASSUME Cardinality(Panes(window.root)) > 1, NEW p \in Panes(window.root),
             window' = ClosePane(window, p)
      PROVE  Good(window')
  <2>1. Panes(window.root) # {p}
    <3>1. Cardinality({p}) = 1
      BY FS_Singleton
    <3> QED BY <1>2, <3>1
  <2> QED BY <1>2, <2>1, HereIs, ClosePaneIs
<1> QED BY <1>1, <1>2 DEF Closes

LEMMA FocusesKeeps ==
  ASSUME TabsInv, Focuses
  PROVE  Good(window')
<1>1. /\ Typed(window) /\ Fronts(ToSet(window.tabs), window.root, {})
      /\ Known(window.unread, ToSet(window.tabs))
  BY HereIs, GoodIs
<1>2. ASSUME NEW tab \in Here, window' = Activate(window, tab.id)
      PROVE  Good(window')
  <2>1. Fronts(ToSet(window.tabs), window.root, {tab.pane})
    BY <1>1 DEF Fronts
  <2> QED BY <1>1, <1>2, <2>1, HereIs, ActivateIs
<1>3. ASSUME NEW p \in Panes(window.root), window' = FocusPane(window, p)
      PROVE  Good(window')
  BY <1>1, <1>3, FocusPaneIs
<1>4. ASSUME Len(InPane(window.tabs, window.focus)) > 1, NEW backwards \in BOOLEAN,
             window' = Cycle(window, backwards)
      PROVE  Good(window')
  BY <1>4, HereIs, CycleIs
<1>5. ASSUME NEW p \in Panes(window.root), window' = ToggleZoom(window, p)
      PROVE  Good(window')
  BY <1>5, HereIs, ToggleZoomIs
<1> QED BY <1>2, <1>3, <1>4, <1>5 DEF Focuses

LEMMA MovesTabKeeps ==
  ASSUME TabsInv, MovesTab
  PROVE  Good(window')
<1>1. ASSUME NEW tab \in Here, NEW p \in Panes(window.root), NEW target, NEW edge,
             window' = MoveTabToPane(window, tab.id, p, target, edge)
      PROVE  Good(window')
  BY <1>1, HereIs, MoveTabToPaneIs
<1>2. ASSUME NEW tab \in Here, window' = SetPinned(window, tab.id, ~tab.pinned)
      PROVE  Good(window')
  BY <1>2, HereIs, SetPinnedIs
<1>3. ASSUME NEW direction \in Directions, NEW tab \in Here, NEW new \in FreshPane,
             window' = MoveToNewPane(window, tab.id, direction, new)
      PROVE  Good(window')
  BY <1>3, HereIs, MoveToNewPaneIs DEF FreshPane
<1> QED BY <1>1, <1>2, <1>3 DEF MovesTab, Spots

LEMMA SplitsKeeps ==
  ASSUME TabsInv, Splits
  PROVE  Good(window')
<1>1. ASSUME NEW p \in Panes(window.root), NEW direction \in Directions, NEW new \in FreshPane,
             window' = Split(window, p, direction, new)
      PROVE  Good(window')
  BY <1>1, HereIs, SplitIs DEF FreshPane
<1>2. ASSUME NEW direction \in Directions, NEW new \in FreshPane, NEW id \in FreshTab,
             window' = SplitActivePane(window, direction, new, id)
      PROVE  Good(window')
  BY <1>2, HereIs, SplitActivePaneIs DEF FreshPane, FreshTab
<1> QED BY <1>1, <1>2 DEF Splits

LEMMA EditsKeeps ==
  ASSUME TabsInv, Edits
  PROVE  Good(window')
<1> USE HereIs
<1>1. ASSUME NEW tab \in Here, tab.session, Room(1), window' = ShowEditor(window, tab, 1)
      PROVE  Good(window')
  <2>1. Size(window) + 1 <= MaxSize
    BY <1>1, RoomIs
  <2>2. tab.editors + 1 \in 0 .. MaxSize /\ tab.editors \in Nat
    BY <2>1, EditorsFit, SizeIs
  <2>3. tab.editors + 1 \in 1 .. MaxSize
    BY <2>2
  <2> QED BY <1>1, <2>3, ShowEditorIs
<1>2. ASSUME NEW tab \in Here, tab.editors > 0, window' = ShowEditor(window, tab, 0)
      PROVE  Good(window')
  <2>1. tab.editors + 0 \in 1 .. MaxSize
    BY <1>2, TabsAssumption DEF TabRecord
  <2> QED BY <1>2, <2>1, ShowEditorIs
<1>3. ASSUME NEW tab \in Here, tab.editors > 0, window' = CloseEditor(window, tab)
      PROVE  Good(window')
  BY <1>3, CloseEditorIs
<1>4. ASSUME NEW tab \in Here, window' = ShowTerminal(window, tab)
      PROVE  Good(window')
  BY <1>4, ShowTerminalIs
<1> QED BY <1>1, <1>2, <1>3, <1>4 DEF Edits

LEMMA OutputKeeps ==
  ASSUME TabsInv, Output
  PROVE  Good(window')
BY HereIs, NotifyOutputIs DEF Output

LEMMA ReplacesKeeps ==
  ASSUME TabsInv, Replaces
  PROVE  Good(window')
<1>1. ASSUME window' = Reopen(window)
      PROVE  Good(window')
  BY <1>1, HereIs, ReopenIs
<1>2. ASSUME NEW n \in 1 .. Cardinality(Tab), NEW layout, NEW ids \in [1 .. n -> Tab],
             NEW panes \in [1 .. (IF layout = "tabs" THEN 1 ELSE n) -> Pane],
             IsInjective(ids), IsInjective(panes), window' = LaunchSet(ids, panes, layout)
      PROVE  Good(window')
  <2>1. n \in Nat /\ n > 0
    OBVIOUS
  <2>2. Given(panes, layout, n)
    BY <1>2 DEF Given
  <2> QED BY <1>2, <2>1, <2>2, LaunchSetIs
<1> QED BY <1>1, <1>2 DEF Replaces

LEMMA TabsKeeps == TabsInv /\ [TabsNext]_window => TabsInv'
<1> SUFFICES ASSUME TabsInv, [TabsNext]_window
             PROVE  Good(window')
  BY DEF TabsInv
<1>1. CASE UNCHANGED window
  BY <1>1 DEF TabsInv
<1>2. CASE TabsNext
  BY <1>2, OpensTabKeeps, ClosesKeeps, FocusesKeeps, MovesTabKeeps, SplitsKeeps, EditsKeeps,
     OutputKeeps, ReplacesKeeps DEF TabsNext
<1> QED BY <1>1, <1>2

LEMMA TabsInvHolds == TabsSpec => []TabsInv
BY TabsStart, TabsKeeps, PTL DEF TabsSpec

LEMMA TabsAreTyped == TabsInv => TabsTypeOK
<1> SUFFICES ASSUME TabsInv
             PROVE  TabsTypeOK
  OBVIOUS
<1>1. /\ Record(window) /\ List(window.tabs) /\ Root(window.root) /\ window.unread \subseteq Tab
      /\ Here = ToSet(window.tabs)
  BY HereIs, GoodIs DEF Typed
<1>2. DOMAIN window = {"tabs", "root", "focus", "activeId", "zoomed", "unread"}
  BY <1>1 DEF Record
<1>3. \A tab \in Here : tab \in TabRecord
  BY HereIs
<1>4. IsInjective([i \in DOMAIN window.tabs |-> window.tabs[i].id])
  BY <1>1 DEF List, Distinct, IsInjective
<1>5. Panes(window.root) \subseteq Pane /\ DOMAIN window.root.front = Panes(window.root)
  BY <1>1, RootIs
<1> QED BY <1>1, <1>2, <1>3, <1>4, <1>5 DEF TabsTypeOK, TabRecord

LEMMA CanvasIsGood == TabsInv => CanvasIsConsistent
<1> SUFFICES ASSUME TabsInv
             PROVE  CanvasIsConsistent
  OBVIOUS
<1>1. /\ List(window.tabs) /\ Root(window.root) /\ Here = ToSet(window.tabs)
      /\ Fronts(Here, window.root, {})
      /\ Known(window.unread, Here) /\ Hidden(window.unread, Here, window.root, window.zoomed)
      /\ window.focus \in Panes(window.root)
      /\ window.activeId = window.root.front[window.focus]
      /\ window.zoomed \in {Nobody, window.focus}
  BY HereIs, GoodIs
<1>2. TreeIsWhole(window.root)
  BY <1>1, RootIs, WholeIs
<1>3. FrontsAreThere
  <2> SUFFICES ASSUME NEW p \in Panes(window.root)
               PROVE  LET there == Ids(InPane(window.tabs, p))
                      IN IF there = {} THEN window.root.front[p] = Nobody
                                       ELSE window.root.front[p] \in there
    BY <1>1 DEF FrontsAreThere, Fronts
  <2>1. PICK there : there = Ids(InPane(window.tabs, p))
    OBVIOUS
  <2>2. there = {t.id : t \in {u \in Here : u.pane = p}}
    BY <1>1, <2>1, InPaneIs
  <2>3. Shows(Here, window.root, p)
    BY <1>1 DEF Fronts
  <2>4. IF there = {} THEN window.root.front[p] = Nobody ELSE window.root.front[p] \in there
    BY <2>2, <2>3 DEF Shows
  <2> QED BY <2>1, <2>4
<1>4. FocusIsFront
  BY <1>1 DEF FocusIsFront
<1>5. PinnedFirst
  BY <1>1 DEF PinnedFirst, List, Grouped
<1>6. UnreadIsHidden
  BY <1>1 DEF UnreadIsHidden, Known, Hidden
<1> QED BY <1>2, <1>3, <1>4, <1>5, <1>6 DEF CanvasIsConsistent

\* What a window holds has its type, after any sequence of operations (tabs.ts).
THEOREM TabTypesHold == TabsSpec => []TabsTypeOK
BY TabsInvHolds, TabsAreTyped, PTL

\* The tree stays whole, each pane shows one of its tabs, the keyboard goes to the
\* focused pane's, pinned tabs stay first and marked tabs are hidden, after any
\* sequence of operations on any number of tabs and panes (tabs.ts).
THEOREM CanvasStaysConsistent == TabsSpec => []CanvasIsConsistent
BY TabsInvHolds, CanvasIsGood, PTL

=============================================================================
