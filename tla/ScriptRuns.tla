------------------------------ MODULE ScriptRuns ------------------------------
(***************************************************************************)
(* Scripts that run on live SSH connections:                               *)
(* server/src/scripts/script-runs.ts.  A run holds a lease of its          *)
(* connection, so that the transport outlives the tab it was started from. *)
(* It ends by its exit, a cancel, its timeout, the end of its channel or   *)
(* the loss of the connection, whichever comes first.  The output is       *)
(* reduced to the number of characters of it.                              *)
(***************************************************************************)
EXTENDS Integers, FiniteSets, Sequences, SequencesExt

CONSTANTS Run,        \* the runs, each started once
          MaxRuns,    \* MAX_RUNS: finished runs are dropped from there on
          MaxHeld,    \* MAX_HELD_STDERR
          MaxPrinted  \* characters a script prints

ASSUME ScriptAssumption == MaxRuns \in Nat

VARIABLES
  runs,      \* runs[r]: the Run and what start() closes over
  finished,  \* the runs that have ended and are still listed, oldest first
  connected  \* the SSH connection is alive

scriptVars == <<runs, finished, connected>>

NoRun == [state |-> "none", listed |-> FALSE, lease |-> FALSE, channel |-> FALSE,
          exit |-> "none", job |-> "unknown", held |-> 0, output |-> 0, printed |-> 0,
          timer |-> FALSE, kill |-> FALSE]

ScriptInit ==
  /\ runs = [r \in Run |-> NoRun]
  /\ finished = <<>>
  /\ connected = TRUE

HasEnded(r) == runs[r].state \in {"completed", "failed", "cancelled", "timed-out"}
IsRunning(r) == runs[r].state = "running"
ListedRuns == {r \in Run : runs[r].listed}

\* finish(): the first end counts; what was held back of stderr is output then.
Finish(run, state) ==
  IF run.state # "running" THEN run
  ELSE [run EXCEPT !.state = state, !.timer = FALSE, !.output = @ + run.held, !.held = 0]

LeaseReleased(run) == [run EXCEPT !.lease = FALSE]

\* The end of stop(): the channel is closed and the lease given back.
LetGo(run) == [LeaseReleased(run) EXCEPT !.kill = FALSE, !.channel = FALSE]

RunEnds(r, run) ==
  /\ runs' = [runs EXCEPT ![r] = run]
  /\ finished' = IF IsRunning(r) THEN Append(finished, r) ELSE finished

(***************************************************************************)
(* start(): prune() drops runs that ended long ago, and the oldest when    *)
(* there are too many.                                                     *)
(***************************************************************************)
Newest(kept) ==
  LET size == Cardinality(ListedRuns) - (Len(finished) - Len(kept))
      drop == IF size < MaxRuns THEN 0 ELSE size - MaxRuns + 1 IN
  SubSeq(kept, (IF drop < Len(kept) THEN drop ELSE Len(kept)) + 1, Len(kept))

Pruned(kept) ==
  [q \in Run |-> IF q \in ToSet(finished) \ ToSet(kept)
                 THEN [runs[q] EXCEPT !.listed = FALSE] ELSE runs[q]]

StartRun(r) ==
  /\ runs[r].state = "none" /\ connected
  /\ \E expired \in 0 .. Len(finished) :
       LET kept == Newest(SubSeq(finished, expired + 1, Len(finished))) IN
       /\ finished' = kept
       /\ runs' = [Pruned(kept) EXCEPT ![r].state = "starting", ![r].lease = TRUE]
  /\ UNCHANGED connected

\* The host may have sent the exit status along with the reply.
ExecAnswered(r) ==
  /\ runs[r].state = "starting" /\ connected
  /\ \E timer \in BOOLEAN, exit \in {"none", "other"} :
       runs' = [runs EXCEPT ![r] = [@ EXCEPT !.state = "running", !.listed = TRUE,
                                             !.channel = TRUE, !.timer = timer, !.exit = exit]]
  /\ UNCHANGED <<finished, connected>>

ExecFails(r) ==
  /\ runs[r].state = "starting"
  /\ runs' = [runs EXCEPT ![r] = [LeaseReleased(@) EXCEPT !.state = "refused"]]
  /\ UNCHANGED <<finished, connected>>

(***************************************************************************)
(* What the host sends                                                     *)
(***************************************************************************)
Prints(r) == runs[r].channel /\ connected /\ UNCHANGED <<finished, connected>>
Says(r) == Prints(r) /\ runs[r].printed < MaxPrinted

Stdout(r) ==
  /\ Says(r)
  /\ runs' = [runs EXCEPT ![r].printed = @ + 1, ![r].output = @ + 1]

\* takeStderr(): held until the job marker comes, or too much is held.
Stderr(r) ==
  /\ Says(r)
  /\ LET run == runs[r] IN
     runs' = [runs EXCEPT ![r] =
       IF run.job # "unknown" THEN [run EXCEPT !.printed = @ + 1, !.output = @ + 1]
       ELSE IF run.held < MaxHeld THEN [run EXCEPT !.printed = @ + 1, !.held = @ + 1]
       ELSE [run EXCEPT !.printed = @ + 1, !.output = @ + run.held + 1, !.held = 0,
                        !.job = "given up"]]

Marker(r) ==
  /\ Prints(r) /\ runs[r].job = "unknown"
  /\ LET run == runs[r] IN
     runs' = [runs EXCEPT ![r] = [run EXCEPT !.job = "known", !.output = @ + run.held,
                                             !.held = 0]]

Exits(r) ==
  /\ Prints(r) /\ runs[r].exit = "none"
  /\ \E exit \in {"zero", "other"} : runs' = [runs EXCEPT ![r].exit = exit]

\* The channel closes: the exit status decides.
ChannelCloses(r) ==
  /\ runs[r].channel /\ connected
  /\ RunEnds(r, LeaseReleased(Finish([runs[r] EXCEPT !.channel = FALSE],
                                     IF runs[r].exit = "zero" THEN "completed" ELSE "failed")))
  /\ UNCHANGED connected

(***************************************************************************)
(* stop(): the process group is killed over the same connection first, if  *)
(* its marker has come.                                                    *)
(***************************************************************************)
\* Variant: the lease is given back before the kill command has been answered.
StoppedAtOnce(run, state) ==
  LET ended == Finish(run, state) IN
  IF run.job = "known" THEN LeaseReleased([ended EXCEPT !.kill = TRUE]) ELSE LetGo(ended)

StoppedRun(run, state) ==
  LET ended == Finish(run, state) IN
  IF run.job = "known" THEN [ended EXCEPT !.kill = TRUE] ELSE LetGo(ended)

Cancel(r) ==
  /\ runs[r].listed /\ IsRunning(r)
  /\ RunEnds(r, StoppedRun(runs[r], "cancelled"))
  /\ UNCHANGED connected

TimesOut(r) ==
  /\ runs[r].timer
  /\ RunEnds(r, StoppedRun(runs[r], "timed-out"))
  /\ UNCHANGED connected

\* The kill command was taken, refused, or not answered in five seconds.
KillAnswered(r) ==
  /\ runs[r].kill
  /\ runs' = [runs EXCEPT ![r] = LetGo(@)]
  /\ UNCHANGED <<finished, connected>>

StopAll ==
  /\ \E r \in Run : runs[r].listed /\ IsRunning(r)
  /\ runs' = [r \in Run |-> IF runs[r].listed /\ IsRunning(r)
                            THEN StoppedRun(runs[r], "cancelled") ELSE runs[r]]
  /\ \E order \in SetToSeqs({r \in Run : runs[r].listed /\ IsRunning(r)}) :
       finished' = finished \o order
  /\ UNCHANGED connected

\* Every run subscribed to the end of the connection ends; a pending exec fails.
LostRun(run) ==
  IF run.state = "starting" THEN [LeaseReleased(run) EXCEPT !.state = "refused"]
  ELSE IF run.lease THEN LeaseReleased(Finish(run, "failed")) ELSE run

RunsLost ==
  /\ connected /\ connected' = FALSE
  /\ runs' = [r \in Run |-> [LostRun(runs[r]) EXCEPT !.channel = FALSE]]
  /\ \E order \in SetToSeqs({r \in Run : IsRunning(r)}) : finished' = finished \o order

ScriptNext ==
  \/ \E r \in Run :
       \/ StartRun(r) \/ ExecAnswered(r) \/ ExecFails(r)
       \/ Stdout(r) \/ Stderr(r) \/ Marker(r) \/ Exits(r) \/ ChannelCloses(r)
       \/ Cancel(r) \/ TimesOut(r) \/ KillAnswered(r)
  \/ StopAll \/ RunsLost

ScriptSpec == ScriptInit /\ [][ScriptNext]_scriptVars

-----------------------------------------------------------------------------
States == {"none", "starting", "refused", "running", "completed", "failed", "cancelled",
           "timed-out"}

\* The types, and that the runs that have ended are queued once, to be dropped in order.
ScriptTypeOK ==
  /\ \A r \in Run :
       /\ runs[r].state \in States
       /\ runs[r].job \in {"unknown", "known", "given up"} /\ runs[r].held \in 0 .. MaxHeld
       /\ runs[r].printed \in 0 .. MaxPrinted /\ runs[r].output \in 0 .. MaxPrinted
  /\ IsInjective(finished) /\ connected \in BOOLEAN

\* A run holds its connection exactly as long as it needs it: while it starts and runs,
\* and, when it is stopped, until its processes have been killed over that connection.
LeaseOutlivesRun ==
  \A r \in Run :
    runs[r].lease <=> \/ runs[r].state \in {"starting", "running"}
                      \/ runs[r].kill /\ runs[r].channel

\* A run that is shown as running can still end: its channel is open, and it is listed,
\* where a cancel finds it.
RunningCanEnd ==
  \A r \in Run : IsRunning(r) => runs[r].listed /\ runs[r].channel /\ connected

\* Whatever ended the run, all that the script printed up to then can be read.
NothingIsHeldBack == \A r \in Run : HasEnded(r) => runs[r].output = runs[r].printed

\* A run that is still listed has ended or goes on; one that was dropped has ended.
OnlyEndedAreDropped ==
  \A r \in Run : runs[r].listed => IsRunning(r) \/ r \in ToSet(finished)

\* The runs of scripts keep their connections and their output.
ScriptRunsAreSound ==
  LeaseOutlivesRun /\ RunningCanEnd /\ NothingIsHeldBack /\ OnlyEndedAreDropped
=============================================================================
