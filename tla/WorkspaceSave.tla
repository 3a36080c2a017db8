----------------------------- MODULE WorkspaceSave -----------------------------
(***************************************************************************)
(* How one window keeps its layout in a workspace: WorkspaceRuntime in     *)
(* client/src/workspace-persistence.ts, the workspace routes it calls      *)
(* (server/src/routes/workspaces.ts) and a second client of these routes.  *)
(*                                                                         *)
(* A layout is a number, newer layouts of the window being greater.  A     *)
(* request is served in one step, and its answer is handled in another.    *)
(***************************************************************************)
EXTENDS Integers, FiniteSets

CONSTANTS Workspace, NoWorkspace,
          Saved,        \* the workspaces there are when the window starts
          MaxEdits,     \* bound: changes of the window's layout
          MaxOps,       \* bound: operations of the workspace dialog
          MaxTrouble    \* bound: requests that fail, and what the other client does

ASSUME SaveAssumption ==
  /\ Saved \subseteq Workspace /\ NoWorkspace \notin Workspace
  /\ {MaxEdits, MaxOps, MaxTrouble} \subseteq Nat

NoLayout == 0     \* also the empty lastSerialized
Blank == 1
StoredLayout == 2

VARIABLES
  store,    \* the workspaces table: what is saved, and whether it is locked
  rt,       \* the WorkspaceRuntime, with the catalog of the workspaces store
  auto,     \* the PUT of an autosave (`saving`)
  op,       \* the operation withBusy() runs, or start()
  fetched,  \* the catalog refreshCatalog() waits for, once it was read
  leaving,  \* the PUT of flushOnUnload()
  spent     \* what was used of the bounds

saveVars == <<store, rt, auto, op, fetched, leaving, spent>>

NoCatalog == [w \in {} |-> "absent"]
CatalogNow == [w \in Workspace |-> store[w].lock]
Present(w) == store[w].lock # "absent"

Request(kind, w) ==
  [kind |-> kind, ws |-> w, step |-> "sent", layout |-> NoLayout, pauses |-> FALSE,
   status |-> "none", lock |-> "absent"]

NoRequest == [Request("none", NoWorkspace) EXCEPT !.step = "idle"]

SaveInit ==
  /\ store = [w \in Workspace |->
                IF w \in Saved THEN [layout |-> StoredLayout, lock |-> "free"]
                ELSE [layout |-> NoLayout, lock |-> "absent"]]
  /\ rt = [phase |-> "starting", layout |-> Blank, last |-> NoLayout, pending |-> NoLayout,
           timer |-> FALSE, paused |-> FALSE, active |-> NoWorkspace,
           catalog |-> [w \in Workspace |-> "absent"]]
  /\ auto = NoRequest
  /\ op = Request("start", NoWorkspace)
  /\ fetched = NoCatalog
  /\ leaving = NoRequest
  /\ spent = [edits |-> 0, ops |-> 0, trouble |-> 0]

Spend(what, limit) ==
  /\ spent[what] < limit
  /\ spent' = [spent EXCEPT ![what] = @ + 1]

(***************************************************************************)
(* The runtime, as functions of its record.                                *)
(***************************************************************************)
\* activeWorkspaceIsLocked(), as far as this window knows.
Locked(r) == r.active # NoWorkspace /\ r.catalog[r.active] = "locked"

\* schedule(): the delay is any time.
Queued(r, layout) == [r EXCEPT !.pending = layout, !.timer = TRUE]

\* handleChange()
Changed(r) ==
  IF r.phase # "running" \/ r.paused \/ Locked(r) \/ r.layout = r.last THEN r
  ELSE Queued([r EXCEPT !.last = r.layout], r.layout)

\* What flushPending() does when no autosave is in flight.
SavesNow(r) == r.pending # NoLayout /\ ~Locked(r) /\ r.phase # "stopped"

Flushed(r) == IF SavesNow(r) \/ Locked(r) THEN [r EXCEPT !.pending = NoLayout] ELSE r

Autosave(r) ==
  IF SavesNow(r) THEN [Request("autosave", r.active) EXCEPT !.layout = r.pending] ELSE NoRequest

\* recordWorkspace() and recordActive()
Recorded(r, w, lock) == [r EXCEPT !.catalog[w] = lock]
RecordedActive(r, w, lock) == [Recorded(r, w, lock) EXCEPT !.active = w]

\* detachActiveWorkspace(), and what delete() does to the active workspace.
Detached(r, catalog) ==
  [r EXCEPT !.timer = FALSE, !.pending = NoLayout, !.last = r.layout, !.catalog = catalog,
            !.active = NoWorkspace]

Deleted(r, w) ==
  LET q == Recorded(r, w, "absent") IN
  IF w = r.active
    THEN [q EXCEPT !.pending = NoLayout, !.last = r.layout, !.active = NoWorkspace]
    ELSE q

\* What reconcileCatalog() does once another window was seen to lock.
Unqueued(r) == [r EXCEPT !.timer = FALSE, !.pending = NoLayout]

Reconciled(r, catalog) ==
  LET q == [r EXCEPT !.catalog = catalog] IN
  IF r.active # NoWorkspace /\ catalog[r.active] = "absent" THEN Detached(r, catalog)
  ELSE IF Locked(q) /\ ~Locked(r) THEN Unqueued(q)
  ELSE IF ~Locked(q) /\ Locked(r) THEN Changed(q) ELSE q

(***************************************************************************)
(* The server: what a request does to the table and how it is answered.    *)
(***************************************************************************)
Reply(q, status, w, lock) ==
  [q EXCEPT !.step = "served", !.status = status, !.ws = w, !.lock = lock]
Outcome(table, reply) == [table |-> table, reply |-> reply]

\* Variant: only the windows look at the lock.
OverwritesAnyway(w, explicit) == TRUE

\* saveWorkspace(): only an explicit save overwrites a locked workspace.
Overwrites(w, explicit) == store[w].lock = "free" \/ explicit

Create(q) ==
  {Outcome([store EXCEPT ![w] = [layout |-> q.layout, lock |-> "free"]],
           Reply(q, "ok", w, "free")) : w \in {v \in Workspace : ~Present(v)}}

\* PUT /api/workspaces
Put(q, explicit) ==
  IF q.ws = NoWorkspace THEN Create(q)
  ELSE IF ~Present(q.ws) THEN {Outcome(store, Reply(q, "missing", q.ws, "absent"))}
  ELSE IF ~Overwrites(q.ws, explicit) THEN {Outcome(store, Reply(q, "locked", q.ws, "locked"))}
  ELSE {Outcome([store EXCEPT ![q.ws].layout = q.layout],
                Reply(q, "ok", q.ws, store[q.ws].lock))}

\* The routes of one workspace answer its row, or a 404.
Row(q, w) ==
  IF Present(w) THEN [Reply(q, "ok", w, store[w].lock) EXCEPT !.layout = store[w].layout]
               ELSE Reply(q, "missing", w, "absent")

Patch(q, lock) ==
  IF Present(q.ws) THEN {Outcome([store EXCEPT ![q.ws].lock = lock], Reply(q, "ok", q.ws, lock))}
                  ELSE {Outcome(store, Row(q, q.ws))}

DeleteWorkspace(q) ==
  {Outcome([store EXCEPT ![q.ws] = [layout |-> NoLayout, lock |-> "absent"]], Row(q, q.ws))}

\* The startup workspace, the latest one or the one asked for; or none.
Load(q) ==
  {Outcome(store, Row(q, w)) : w \in {v \in Workspace : Present(v)}}
    \union {Outcome(store, Reply(q, "ok", NoWorkspace, "absent"))}

Outcomes(q) ==
  CASE q.kind = "autosave" -> Put(q, FALSE)
    [] q.kind = "save" -> Put(q, TRUE)
    [] q.kind = "saveAs" -> Create(q)
    [] q.kind = "lock" -> Patch(q, "locked")
    [] q.kind = "unlock" -> Patch(q, "free")
    [] q.kind = "delete" -> DeleteWorkspace(q)
    [] q.kind = "start" -> Load(q)
    [] OTHER -> {Outcome(store, Row(q, q.ws))}

AutosaveServed ==
  /\ auto.step = "sent"
  /\ \E out \in Outcomes(auto) : store' = out.table /\ auto' = out.reply
  /\ UNCHANGED <<rt, op, fetched, leaving, spent>>

OpServed ==
  /\ op.step = "sent"
  /\ \E out \in Outcomes(op) : store' = out.table /\ op' = out.reply
  /\ fetched' = IF op.kind = "start" THEN CatalogNow ELSE fetched
  /\ UNCHANGED <<rt, auto, leaving, spent>>

LeavingServed ==
  /\ leaving.step = "sent"
  /\ \E out \in Outcomes(leaving) : store' = out.table
  /\ leaving' = NoRequest
  /\ UNCHANGED <<rt, auto, op, fetched, spent>>

\* The request is lost, or its answer.
Lost(q) ==
  /\ q.step = "sent" /\ Spend("trouble", MaxTrouble)
  /\ store' \in {store} \union {out.table : out \in Outcomes(q)}

AutosaveLost ==
  /\ Lost(auto)
  /\ auto' = [auto EXCEPT !.step = "served", !.status = "error"]
  /\ UNCHANGED <<rt, op, fetched, leaving>>

OpLost ==
  /\ Lost(op)
  /\ op' = [op EXCEPT !.step = "served", !.status = "error"]
  /\ UNCHANGED <<rt, auto, fetched, leaving>>

OtherClient ==
  /\ Spend("trouble", MaxTrouble)
  /\ \E w \in Workspace :
       /\ Present(w)
       /\ \/ store' = [store EXCEPT ![w].lock = IF @ = "free" THEN "locked" ELSE "free"]
          \/ store' = [store EXCEPT ![w] = [layout |-> NoLayout, lock |-> "absent"]]
  /\ UNCHANGED <<rt, auto, op, fetched, leaving>>

(***************************************************************************)
(* The window.                                                             *)
(***************************************************************************)
Running == rt.phase = "running"

\* Tabs and panes change, by the user or by what a session reports.
LayoutChanges ==
  /\ rt.phase # "stopped" /\ Spend("edits", MaxEdits)
  /\ rt' = Changed([rt EXCEPT !.layout = StoredLayout + spent.edits + 1])
  /\ UNCHANGED <<store, auto, op, fetched, leaving>>

\* An autosave in flight takes care of what is queued when it ends.
TimerFires ==
  /\ Running /\ rt.timer
  /\ LET r == [rt EXCEPT !.timer = FALSE] IN
       IF auto.step # "idle" THEN rt' = r /\ UNCHANGED auto
                             ELSE rt' = Flushed(r) /\ auto' = Autosave(r)
  /\ UNCHANGED <<store, op, fetched, leaving, spent>>

\* flushNow() once no autosave is in flight: the next one, or the operation.
Flush(r, o) ==
  /\ rt' = Flushed(r)
  /\ auto' = Autosave(r)
  /\ op' = IF SavesNow(r) THEN o ELSE [o EXCEPT !.step = "sent", !.layout = r.layout]

\* The operations the dialog offers.
Offered ==
  {<<"saveAs", NoWorkspace>>}
    \union {<<"save", w>> : w \in {rt.active} \ {NoWorkspace}}
    \union {o \in {"open", "rename", "delete"} \X Workspace : rt.catalog[o[2]] # "absent"}
    \union {<<"lock", w>> : w \in {v \in Workspace : rt.catalog[v] = "free"}}
    \union {<<"unlock", w>> : w \in {v \in Workspace : rt.catalog[v] = "locked"}}

Begin(kind, w) ==
  LET pauses == kind \in {"saveAs", "save"} \/ (kind \in {"lock", "unlock"} /\ w = rt.active)
      flushes == kind \notin {"lock", "unlock"} \/ (kind = "lock" /\ w = rt.active)
      r == [rt EXCEPT !.paused = pauses, !.timer = @ /\ ~flushes,
                      !.pending = IF kind = "save" THEN NoLayout ELSE @]
      o == [Request(kind, w) EXCEPT !.pauses = pauses, !.step = "flushing"]
  IN  /\ Running /\ op.step = "idle" /\ Spend("ops", MaxOps)
      /\ \/ flushes /\ auto.step = "idle" /\ Flush(r, o)
         \/ flushes /\ auto.step # "idle" /\ rt' = r /\ op' = o /\ UNCHANGED auto
         \/ ~flushes /\ rt' = r /\ op' = [o EXCEPT !.step = "sent"] /\ UNCHANGED auto
      /\ UNCHANGED <<store, fetched, leaving>>

\* The `finally` of the operations that pause the autosave.
Finally(r) == IF op.pauses THEN Changed([r EXCEPT !.paused = FALSE]) ELSE r

AfterAutosave(r) ==
  CASE auto.status = "ok" -> RecordedActive(r, auto.ws, auto.lock)
    [] auto.status = "missing" ->
         IF r.active = auto.ws THEN Detached(r, [r.catalog EXCEPT ![auto.ws] = "absent"]) ELSE r
    [] auto.status = "locked" ->
         [r EXCEPT !.last = NoLayout, !.catalog[auto.ws] = IF @ = "absent" THEN @ ELSE "locked"]
    [] auto.status = "error" -> Queued(r, IF r.pending = NoLayout THEN auto.layout ELSE r.pending)

\* Variant: what was queued meanwhile waits for the next change.
LeftQueued(r) == r

Requeued(r) == IF r.pending # NoLayout THEN [r EXCEPT !.timer = TRUE] ELSE r

AutosaveAnswered ==
  LET r == Requeued(AfterAutosave(rt)) IN
  /\ Running /\ auto.step = "served"
  /\ \/ op.step # "flushing" /\ rt' = r /\ auto' = NoRequest /\ UNCHANGED op
     \/ op.step = "flushing" /\ auto.status # "error" /\ Flush(r, op)
     \/ op.step = "flushing" /\ auto.status = "error"
        /\ rt' = Finally(r) /\ auto' = NoRequest /\ op' = NoRequest
  /\ UNCHANGED <<store, fetched, leaving, spent>>

AnswerOf(kind) == Running /\ op.step = "served" /\ op.status = "ok" /\ op.kind = kind

\* The answer of save(), rename(), setLocked() and delete().
Kept(r) ==
  CASE op.kind = "save" -> RecordedActive([r EXCEPT !.last = op.layout], op.ws, op.lock)
    [] op.kind = "delete" -> Deleted(r, op.ws)
    [] OTHER -> Recorded(r, op.ws, op.lock)

Settled ==
  /\ \E kind \in {"save", "rename", "lock", "unlock", "delete"} : AnswerOf(kind)
  /\ rt' = Finally(Kept(rt)) /\ op' = NoRequest
  /\ UNCHANGED <<store, auto, fetched, leaving, spent>>

\* saveAs() opens what it created.
SavedAs ==
  /\ AnswerOf("saveAs")
  /\ op' = [op EXCEPT !.kind = "open created", !.step = "sent"]
  /\ UNCHANGED <<store, rt, auto, fetched, leaving, spent>>

CreatedOpened ==
  /\ AnswerOf("open created")
  /\ rt' = Finally(RecordedActive([rt EXCEPT !.last = op.layout], op.ws, op.lock))
  /\ op' = NoRequest
  /\ UNCHANGED <<store, auto, fetched, leaving, spent>>

Opened ==
  /\ AnswerOf("open")
  /\ rt' = RecordedActive([rt EXCEPT !.layout = op.layout, !.last = op.layout,
                                     !.pending = NoLayout], op.ws, op.lock)
  /\ op' = NoRequest
  /\ UNCHANGED <<store, auto, fetched, leaving, spent>>

OpFails ==
  /\ Running /\ op.step = "served" /\ op.status # "ok"
  /\ rt' = Finally(rt) /\ op' = NoRequest
  /\ UNCHANGED <<store, auto, fetched, leaving, spent>>

(***************************************************************************)
(* start(), the refreshes of the catalog and the end of the window.        *)
(***************************************************************************)
Starting == rt.phase = "starting" /\ op.step = "served"

\* A layout the user has changed meanwhile is not replaced.  `last` holds
\* what was read of a locked workspace.
Restores ==
  /\ Starting /\ op.kind = "start" /\ op.status = "ok" /\ op.ws # NoWorkspace
  /\ rt' = [rt EXCEPT !.catalog = fetched,
                      !.layout = IF @ = Blank THEN op.layout ELSE @,
                      !.last = IF op.lock = "locked" THEN op.layout ELSE NoLayout]
  /\ op' = [op EXCEPT !.kind = "open started", !.step = "sent"]
  /\ fetched' = NoCatalog
  /\ UNCHANGED <<store, auto, leaving, spent>>

\* What the start ends with; `before` is what is known to be saved.
Started(r, before) ==
  LET q == [r EXCEPT !.phase = "running", !.last = r.layout] IN
  IF r.layout # before THEN Queued(q, r.layout) ELSE q

StartsUnsaved ==
  /\ Starting /\ op.kind = "start" /\ op.status = "ok" /\ op.ws = NoWorkspace
  /\ rt' = Started([rt EXCEPT !.catalog = fetched], Blank)
  /\ op' = NoRequest /\ fetched' = NoCatalog
  /\ UNCHANGED <<store, auto, leaving, spent>>

StartsOpened ==
  /\ Starting /\ op.kind = "open started" /\ op.status = "ok"
  /\ rt' = LET r == RecordedActive(rt, op.ws, op.lock) IN
           IF rt.last # NoLayout THEN [r EXCEPT !.phase = "running"] ELSE Started(r, op.layout)
  /\ op' = NoRequest
  /\ UNCHANGED <<store, auto, fetched, leaving, spent>>

StartFails ==
  /\ Starting /\ op.status # "ok"
  /\ rt' = Started(rt, rt.layout)
  /\ op' = NoRequest /\ fetched' = NoCatalog
  /\ UNCHANGED <<store, auto, leaving, spent>>

RefreshRead ==
  /\ Running /\ fetched = NoCatalog
  /\ fetched' = CatalogNow
  /\ UNCHANGED <<store, rt, auto, op, leaving, spent>>

RefreshArrives ==
  /\ Running /\ fetched # NoCatalog
  /\ rt' = Reconciled(rt, fetched)
  /\ fetched' = NoCatalog
  /\ UNCHANGED <<store, auto, op, leaving, spent>>

\* flushOnUnload(), unless the layout is too large, and stop().
Stops ==
  /\ rt.phase # "stopped"
  /\ leaving' \in {NoRequest} \union {Autosave(rt)}
  /\ rt' = [rt EXCEPT !.phase = "stopped", !.timer = FALSE, !.pending = NoLayout]
  /\ UNCHANGED <<store, auto, op, fetched, spent>>

SaveNext ==
  \/ AutosaveServed \/ OpServed \/ LeavingServed \/ AutosaveLost \/ OpLost \/ OtherClient
  \/ LayoutChanges \/ TimerFires \/ AutosaveAnswered
  \/ \E o \in Offered : Begin(o[1], o[2])
  \/ Settled \/ SavedAs \/ CreatedOpened \/ Opened \/ OpFails
  \/ Restores \/ StartsUnsaved \/ StartsOpened \/ StartFails
  \/ RefreshRead \/ RefreshArrives \/ Stops

SaveSpec == SaveInit /\ [][SaveNext]_saveVars

-----------------------------------------------------------------------------
Steps == {"idle", "flushing", "sent", "served"}

\* The variables stay in their types, and the autosave rests only while an
\* operation runs that resumes it.
SaveTypeOK ==
  /\ \A w \in Workspace : store[w].layout \in Nat /\ store[w].lock \in {"absent", "free", "locked"}
  /\ rt.phase \in {"starting", "running", "stopped"}
  /\ rt.active \in Workspace \union {NoWorkspace}
  /\ {rt.layout, rt.last, rt.pending} \subseteq Nat
  /\ \A q \in {auto, op, leaving} : q.step \in Steps /\ q.ws \in Workspace \union {NoWorkspace}
  /\ rt.paused => op.pauses

\* A change that waits to be saved has somebody who will save it: the timer
\* runs, or the autosave in flight looks at what is queued when it ends,
\* whatever operations, refreshes, failures and locks came in between
\* (flushPending, flushNow and reconcileCatalog,
\* workspace-persistence.ts:430-438, 490-552).
QueuedIsSent == Running /\ rt.pending # NoLayout => rt.timer \/ auto.step # "idle"

\* The layout of a locked workspace is replaced by an explicit save alone:
\* not by an autosave that was sent before the lock, not by a window that has
\* not heard of it, nor by one that closes (saveWorkspace, database.ts:1926).
LockedIsKept ==
  [][\A w \in Workspace :
       store[w].lock = "locked" /\ store'[w].lock = "locked"
         /\ store'[w].layout # store[w].layout
       => op.kind = "save" /\ op.ws = w /\ op.step = "sent"]_saveVars

=============================================================================
