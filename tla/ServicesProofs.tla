----------------------------- MODULE ServicesProofs ----------------------------
(***************************************************************************)
(* Proofs about eight components of the server that stand on their own:    *)
(* uploads through a temporary file, remote forwards, the calls of a       *)
(* NETCONF session, the runs of scripts, a remote desktop tab, one SSH     *)
(* dial, the password vault and automatic typing, for every number of      *)
(* uploads, forwards, calls, runs, tickets, ports, keys, passwords and     *)
(* credentials, every ladder of methods and every login sequence.          *)
(***************************************************************************)
EXTENDS SftpUpload, RemoteForwards, NetconfSession, ScriptRuns, DesktopSession,
        SshDial, PasswordVault, AutoTyping, SequenceLemmas, FiniteSetTheorems

-----------------------------------------------------------------------------
(* Uploads (SftpUpload) *)

Committing == {"look", "rename new", "posix rename", "rename", "unlink", "rename again"}
Overwriting == {"posix rename", "rename", "unlink", "rename again"}
Step == {"idle", "refused", "writing", "clean up", "failed", "done"} \union Committing

UploadState ==
  [step : Step, overwrite : BOOLEAN, replaced : {"none", "old"} \union Upload]

UploadTypes ==
  /\ destination \in {"none", "old"} \union Upload
  /\ temp \in [Upload -> {"none", "partial", "whole"}]
  /\ upload \in [Upload -> UploadState]
  /\ server \in [posixRename : BOOLEAN, renameReplaces : BOOLEAN, up : BOOLEAN]

\* What is renamed is a whole file, unless the rename before it was executed and
\* the connection was lost; an upload that ended while it lives has left nothing.
TempFollowsStep(u) ==
  /\ server.up /\ upload[u].step \in Committing => temp[u] = "whole"
  /\ upload[u].step \in {"idle", "refused", "done"} => temp[u] = "none"
  /\ server.up /\ upload[u].step = "failed" => temp[u] = "none"

\* Only an upload that may overwrite takes the way that does.
ReplacesAsAsked(u) ==
  /\ upload[u].step \in Overwriting => upload[u].overwrite
  /\ upload[u].step = "done" /\ ~upload[u].overwrite /\ ~server.renameReplaces
       => upload[u].replaced = "none"

UploadInv == UploadTypes /\ \A u \in Upload : TempFollowsStep(u) /\ ReplacesAsAsked(u)

\* The steps of the others, and a connection that is gone, disturb no upload.
LEMMA OneUploadStep ==
  ASSUME UploadInv, UploadTypes', NEW u \in Upload,
         server'.up => server.up,
         server'.renameReplaces <=> server.renameReplaces,
         \A v \in Upload : v # u => upload'[v] = upload[v] /\ temp'[v] = temp[v],
         TempFollowsStep(u)', ReplacesAsAsked(u)'
  PROVE  UploadInv'
BY DEF UploadInv, TempFollowsStep, ReplacesAsAsked

LEMMA ConnectionKeeps ==
  ASSUME UploadTypes, RequestAnswered \/ NotExecuted \/ ConnectionGone
  PROVE  /\ server' \in [posixRename : BOOLEAN, renameReplaces : BOOLEAN, up : BOOLEAN]
         /\ server'.up => server.up
         /\ server'.renameReplaces <=> server.renameReplaces
<1>1. /\ FALSE \in BOOLEAN
      /\ server \in [posixRename : BOOLEAN, renameReplaces : BOOLEAN, up : BOOLEAN]
  BY DEF UploadTypes
<1>2. CASE server' = server
  BY <1>1, <1>2
<1>3. CASE server' = [server EXCEPT !.up = FALSE]
  BY <1>1, <1>3
<1> QED BY <1>2, <1>3 DEF RequestAnswered, NotExecuted, ConnectionGone

LEMMA GoesFacts ==
  ASSUME UploadTypes, NEW u \in Upload, NEW s \in Step, Goes(u, s)
  PROVE  /\ upload' \in [Upload -> UploadState]
         /\ upload'[u].step = s /\ upload'[u].replaced = upload[u].replaced
         /\ upload'[u].overwrite <=> upload[u].overwrite
         /\ \A v \in Upload : v # u => upload'[v] = upload[v]
<1> DEFINE r == [upload[u] EXCEPT !.step = s]
<1>1. upload[u] \in UploadState
  BY DEF UploadTypes
<1>2. /\ r \in UploadState /\ r.step = s /\ r.replaced = upload[u].replaced
      /\ r.overwrite <=> upload[u].overwrite
  BY <1>1 DEF UploadState
<1>3. upload' = [upload EXCEPT ![u] = r]
  BY DEF Goes, UploadTypes
<1> HIDE DEF r
<1> QED BY <1>2, <1>3 DEF UploadTypes

\* A rename is executed with a whole file only, and replaces what is there only
\* where it may.
LEMMA RenameKeeps ==
  ASSUME UploadInv, NEW u \in Upload, NEW permitted \in BOOLEAN, NEW failed \in Step,
         upload[u].step \in Committing, RenameRequest(u, permitted, failed),
         failed \in Overwriting => upload[u].overwrite,
         failed \in {"clean up", "unlink"},
         permitted /\ ~upload[u].overwrite /\ ~server.renameReplaces => ~Exists
  PROVE  UploadInv'
<1>1. UploadTypes /\ TempFollowsStep(u) /\ ReplacesAsAsked(u)
  BY DEF UploadInv
<1>2. /\ server' \in [posixRename : BOOLEAN, renameReplaces : BOOLEAN, up : BOOLEAN]
      /\ server'.up => server.up
      /\ server'.renameReplaces <=> server.renameReplaces
  BY <1>1, ConnectionKeeps DEF RenameRequest
<1>3. ASSUME NEW next \in Step, server.up, MovedToDestination(u, next)
      PROVE  /\ UploadTypes' /\ temp'[u] = "none" /\ upload'[u].step = next
             /\ upload'[u].replaced = destination
             /\ upload'[u].overwrite <=> upload[u].overwrite
             /\ \A v \in Upload : v # u => upload'[v] = upload[v] /\ temp'[v] = temp[v]
  <2> DEFINE r == [upload[u] EXCEPT !.step = next, !.replaced = destination]
  <2>1. upload[u] \in UploadState /\ destination \in {"none", "old"} \union Upload
    BY <1>1 DEF UploadTypes
  <2>2. /\ r \in UploadState /\ r.step = next /\ r.replaced = destination
        /\ r.overwrite <=> upload[u].overwrite
    BY <2>1 DEF UploadState
  <2>3. upload' = [upload EXCEPT ![u] = r]
    BY <1>1, <1>3 DEF MovedToDestination, UploadTypes
  <2> HIDE DEF r
  <2>4. destination' = u
    BY <1>1, <1>3 DEF MovedToDestination, TempFollowsStep
  <2>5. temp' = [temp EXCEPT ![u] = "none"]
    BY <1>3 DEF MovedToDestination
  <2>6. UploadTypes'
    BY <1>1, <1>2, <2>2, <2>3, <2>4, <2>5 DEF UploadTypes
  <2> QED BY <1>1, <2>2, <2>3, <2>5, <2>6 DEF UploadTypes
<1>4. CASE server.up /\ permitted /\ RequestAnswered /\ MovedToDestination(u, "done")
  <2>1. "done" \in Step
    BY DEF Step
  <2>2. /\ UploadTypes' /\ temp'[u] = "none" /\ upload'[u].step = "done"
        /\ upload'[u].replaced = destination
        /\ upload'[u].overwrite <=> upload[u].overwrite
        /\ \A v \in Upload : v # u => upload'[v] = upload[v] /\ temp'[v] = temp[v]
    BY <1>3, <1>4, <2>1
  <2>3. TempFollowsStep(u)' /\ ReplacesAsAsked(u)'
    BY <1>2, <1>4, <2>2 DEF TempFollowsStep, ReplacesAsAsked, Committing, Overwriting, Exists
  <2> QED BY <1>2, <2>2, <2>3, OneUploadStep
<1>5. CASE server.up /\ permitted /\ ConnectionGone /\ MovedToDestination(u, failed)
  <2>1. ~server'.up
    BY <1>1, <1>5 DEF ConnectionGone, UploadTypes
  <2>2. /\ UploadTypes' /\ temp'[u] = "none" /\ upload'[u].step = failed
        /\ upload'[u].overwrite <=> upload[u].overwrite
        /\ \A v \in Upload : v # u => upload'[v] = upload[v] /\ temp'[v] = temp[v]
    BY <1>3, <1>5
  <2>3. TempFollowsStep(u)' /\ ReplacesAsAsked(u)'
    BY <2>1, <2>2 DEF TempFollowsStep, ReplacesAsAsked
  <2> QED BY <1>2, <2>2, <2>3, OneUploadStep
<1>6. CASE NotExecuted /\ Goes(u, failed) /\ UNCHANGED <<destination, temp>>
  <2>1. /\ upload' \in [Upload -> UploadState]
        /\ upload'[u].step = failed
        /\ upload'[u].overwrite <=> upload[u].overwrite
        /\ \A v \in Upload : v # u => upload'[v] = upload[v]
    BY <1>1, <1>6, GoesFacts
  <2>2. UploadTypes'
    BY <1>1, <1>2, <1>6, <2>1 DEF UploadTypes
  <2>3. TempFollowsStep(u)' /\ ReplacesAsAsked(u)'
    BY <1>1, <1>2, <1>6, <2>1 DEF TempFollowsStep, ReplacesAsAsked, Committing
  <2> QED BY <1>2, <1>6, <2>1, <2>2, <2>3, OneUploadStep
<1> QED BY <1>4, <1>5, <1>6 DEF RenameRequest

\* A step that renames and unlinks nothing.
LEMMA PlainStep ==
  ASSUME UploadInv, NEW u \in Upload, NEW s \in Step, Goes(u, s),
         UNCHANGED <<destination, temp>>, RequestAnswered \/ NotExecuted,
         s \in Committing => upload[u].step \in Committing,
         s \in Overwriting => upload[u].overwrite,
         s \notin {"idle", "refused", "done", "failed"} \/ temp[u] = "none",
         s # "done"
  PROVE  UploadInv'
<1>1. UploadTypes /\ TempFollowsStep(u) /\ ReplacesAsAsked(u)
  BY DEF UploadInv
<1>2. /\ server' \in [posixRename : BOOLEAN, renameReplaces : BOOLEAN, up : BOOLEAN]
      /\ server'.up => server.up
      /\ server'.renameReplaces <=> server.renameReplaces
  BY <1>1, ConnectionKeeps
<1>3. /\ upload' \in [Upload -> UploadState] /\ upload'[u].step = s
      /\ upload'[u].overwrite <=> upload[u].overwrite
      /\ \A v \in Upload : v # u => upload'[v] = upload[v]
  BY <1>1, GoesFacts
<1>4. UploadTypes'
  BY <1>1, <1>2, <1>3 DEF UploadTypes
<1>5. TempFollowsStep(u)' /\ ReplacesAsAsked(u)'
  BY <1>1, <1>2, <1>3 DEF TempFollowsStep, ReplacesAsAsked
<1> QED BY <1>2, <1>3, <1>4, <1>5, OneUploadStep
LEMMA UploadStep ==
  ASSUME UploadInv, NEW u \in Upload,
         \/ BeginUpload(u) \/ Written(u) \/ WriteFails(u) \/ Look(u) \/ RenameNew(u)
         \/ PosixRename(u) \/ Rename(u) \/ UnlinkDestination(u) \/ RenameAgain(u) \/ CleanUp(u)
  PROVE  UploadInv'
<1>1. /\ UploadTypes /\ TempFollowsStep(u) /\ ReplacesAsAsked(u) /\ upload[u] \in UploadState
      /\ temp[u] \in {"none", "partial", "whole"}
  BY DEF UploadInv, UploadTypes
<1>2. (server.renameReplaces \/ ~Exists) \in BOOLEAN /\ TRUE \in BOOLEAN
  BY DEF Exists
<1>3. CASE BeginUpload(u)
  <2>1. PICK o \in BOOLEAN :
          IF Exists /\ ~o
          THEN Goes(u, "refused") /\ UNCHANGED temp
          ELSE /\ upload' = [upload EXCEPT ![u].step = "writing", ![u].overwrite = o]
               /\ temp' = [temp EXCEPT ![u] = "partial"]
    BY <1>3 DEF BeginUpload
  <2>2. UNCHANGED <<destination, server>> /\ upload[u].step = "idle"
    BY <1>3 DEF BeginUpload, At
  <2>3. CASE Exists /\ ~o
    <3>1. Goes(u, "refused") /\ UNCHANGED temp /\ RequestAnswered
      BY <2>1, <2>2, <2>3 DEF RequestAnswered
    <3>2. temp[u] = "none" /\ "refused" \in Step /\ "refused" \notin Committing
      BY <1>1, <2>2 DEF TempFollowsStep, Step, Committing
    <3> QED BY <2>2, <3>1, <3>2, PlainStep DEF Overwriting
  <2>4. CASE ~(Exists /\ ~o)
    <3> DEFINE r == [upload[u] EXCEPT !.step = "writing", !.overwrite = o]
    <3>1. r \in UploadState /\ r.step = "writing"
      BY <1>1, <2>1 DEF UploadState, Step
    <3>2. upload' = [upload EXCEPT ![u] = r] /\ temp' = [temp EXCEPT ![u] = "partial"]
      BY <1>1, <2>1, <2>4 DEF UploadTypes
    <3> HIDE DEF r
    <3>3. /\ UploadTypes' /\ upload'[u].step = "writing"
          /\ \A v \in Upload : v # u => upload'[v] = upload[v] /\ temp'[v] = temp[v]
      BY <1>1, <2>2, <3>1, <3>2 DEF UploadTypes
    <3>4. TempFollowsStep(u)' /\ ReplacesAsAsked(u)'
      BY <3>3 DEF TempFollowsStep, ReplacesAsAsked, Committing, Overwriting
    <3> QED BY <2>2, <3>3, <3>4, OneUploadStep
  <2> QED BY <2>3, <2>4
<1>4. CASE Written(u)
  <2> DEFINE s == IF upload[u].overwrite THEN "posix rename" ELSE "look"
  <2>1. s \in Step /\ s \in Committing /\ (s \in Overwriting => upload[u].overwrite)
    BY DEF Step, Committing, Overwriting
  <2>2. /\ Goes(u, s) /\ temp' = [temp EXCEPT ![u] = "whole"]
        /\ UNCHANGED <<destination, server>>
    BY <1>4 DEF Written
  <2>3. s \notin {"idle", "refused", "done", "failed"}
    OBVIOUS
  <2> HIDE DEF s
  <2>4. /\ upload' \in [Upload -> UploadState] /\ upload'[u].step = s
        /\ upload'[u].overwrite <=> upload[u].overwrite
        /\ \A v \in Upload : v # u => upload'[v] = upload[v]
    BY <1>1, <2>1, <2>2, GoesFacts
  <2>5. /\ UploadTypes' /\ temp'[u] = "whole"
        /\ \A v \in Upload : v # u => temp'[v] = temp[v]
    BY <1>1, <2>2, <2>4 DEF UploadTypes
  <2>6. TempFollowsStep(u)' /\ ReplacesAsAsked(u)'
    BY <2>1, <2>3, <2>4, <2>5 DEF TempFollowsStep, ReplacesAsAsked
  <2> QED BY <2>2, <2>4, <2>5, <2>6, OneUploadStep
<1>5. CASE WriteFails(u)
  <2>1. "clean up" \in Step /\ "clean up" \notin Committing /\ "clean up" \notin Overwriting
    BY DEF Step, Committing, Overwriting
  <2> QED BY <1>5, <2>1, PlainStep DEF WriteFails
<1>6. CASE Look(u)
  <2>1. PICK s \in {"clean up", "rename new"} : Goes(u, s) /\ (RequestAnswered \/ NotExecuted)
    BY <1>6 DEF Look
  <2>2. s \in Step /\ s \notin Overwriting /\ upload[u].step \in Committing
    BY <1>6, <2>1 DEF Step, Committing, Overwriting, Look, At
  <2>3. UNCHANGED <<destination, temp>>
    BY <1>6 DEF Look
  <2> QED BY <2>1, <2>2, <2>3, PlainStep
<1>7. CASE RenameNew(u)
  <2>1. upload[u].step \in Committing /\ "clean up" \in Step /\ "clean up" \notin Overwriting
    BY <1>7 DEF RenameNew, At, Committing, Step, Overwriting
  <2> QED BY <1>2, <1>7, <2>1, RenameKeeps DEF RenameNew
<1>8. CASE PosixRename(u)
  <2>1. /\ upload[u].step \in Committing /\ "clean up" \in Step /\ "clean up" \notin Overwriting
        /\ "rename" \in Step /\ upload[u].overwrite
    BY <1>1, <1>8 DEF PosixRename, At, Committing, Step, Overwriting, ReplacesAsAsked
  <2>2. CASE server.posixRename
    BY <1>2, <1>8, <2>1, <2>2, RenameKeeps DEF PosixRename
  <2>3. CASE ~server.posixRename
    BY <1>8, <2>1, <2>3, PlainStep DEF PosixRename, RequestAnswered
  <2> QED BY <2>2, <2>3
<1>9. CASE Rename(u)
  <2>1. /\ upload[u].step \in Committing /\ "unlink" \in Step /\ upload[u].overwrite
    BY <1>1, <1>9 DEF Rename, At, Committing, Step, Overwriting, ReplacesAsAsked
  <2> QED BY <1>2, <1>9, <2>1, RenameKeeps DEF Rename
<1>10. CASE UnlinkDestination(u)
  <2>1. /\ upload[u].step \in Committing /\ upload[u].overwrite
        /\ "clean up" \in Step /\ "rename again" \in Step /\ UNCHANGED temp
    BY <1>1, <1>10 DEF UnlinkDestination, At, Committing, Step, Overwriting, ReplacesAsAsked
  <2>2. CASE NotExecuted /\ Goes(u, "clean up") /\ UNCHANGED destination
    BY <2>1, <2>2, PlainStep
  <2>3. CASE ~(NotExecuted /\ Goes(u, "clean up") /\ UNCHANGED destination)
    <3>1. PICK s \in {"rename again", "clean up"} :
            Goes(u, s) /\ (RequestAnswered \/ ConnectionGone) /\ destination' = "none"
      BY <1>10, <2>3 DEF UnlinkDestination
    <3>2. s \in Step /\ s \notin {"idle", "refused", "done", "failed"}
      BY <2>1, <3>1
    <3>3. /\ upload' \in [Upload -> UploadState] /\ upload'[u].step = s
          /\ upload'[u].overwrite <=> upload[u].overwrite
          /\ \A v \in Upload : v # u => upload'[v] = upload[v]
      BY <1>1, <3>1, <3>2, GoesFacts
    <3>4. /\ server' \in [posixRename : BOOLEAN, renameReplaces : BOOLEAN, up : BOOLEAN]
          /\ server'.up => server.up
          /\ server'.renameReplaces <=> server.renameReplaces
      BY <1>1, <3>1, ConnectionKeeps
    <3>5. UploadTypes'
      BY <1>1, <2>1, <3>1, <3>3, <3>4 DEF UploadTypes
    <3>6. TempFollowsStep(u)' /\ ReplacesAsAsked(u)'
      BY <1>1, <2>1, <3>2, <3>3, <3>4 DEF TempFollowsStep, ReplacesAsAsked
    <3> QED BY <2>1, <3>3, <3>4, <3>5, <3>6, OneUploadStep
  <2> QED BY <2>2, <2>3
<1>11. CASE RenameAgain(u)
  <2>1. /\ upload[u].step \in Committing /\ "clean up" \in Step /\ "clean up" \notin Overwriting
    BY <1>11 DEF RenameAgain, At, Committing, Step, Overwriting
  <2> QED BY <1>2, <1>11, <2>1, RenameKeeps DEF RenameAgain
<1>12. CASE CleanUp(u)
  <2>1. /\ Goes(u, "failed") /\ UNCHANGED <<destination, server>> /\ "failed" \in Step
        /\ temp' = [temp EXCEPT ![u] = IF Removed(u) THEN "none" ELSE @]
    BY <1>12 DEF CleanUp, Step
  <2>2. /\ upload' \in [Upload -> UploadState] /\ upload'[u].step = "failed"
        /\ \A v \in Upload : v # u => upload'[v] = upload[v]
    BY <1>1, <2>1, GoesFacts
  <2>3. /\ UploadTypes' /\ (server.up => temp'[u] = "none")
        /\ \A v \in Upload : v # u => temp'[v] = temp[v]
    BY <1>1, <2>1, <2>2 DEF UploadTypes, Removed
  <2>4. TempFollowsStep(u)' /\ ReplacesAsAsked(u)'
    BY <2>1, <2>2, <2>3 DEF TempFollowsStep, ReplacesAsAsked, Committing, Overwriting
  <2> QED BY <2>1, <2>2, <2>3, <2>4, OneUploadStep
<1> QED BY <1>3, <1>4, <1>5, <1>6, <1>7, <1>8, <1>9, <1>10, <1>11, <1>12

THEOREM UploadInvHolds == UploadSpec => []UploadInv
<1>1. UploadInit => UploadInv
  <2> SUFFICES ASSUME UploadInit
               PROVE  UploadInv
    OBVIOUS
  <2> DEFINE r == [step |-> "idle", overwrite |-> FALSE, replaced |-> "none"]
  <2>1. FALSE \in BOOLEAN /\ TRUE \in BOOLEAN
    OBVIOUS
  <2>2. r \in UploadState /\ r.step = "idle"
    BY <2>1 DEF UploadState, Step
  <2>3. upload = [u \in Upload |-> r] /\ temp = [u \in Upload |-> "none"]
    BY DEF UploadInit
  <2>4. server \in [posixRename : BOOLEAN, renameReplaces : BOOLEAN, up : BOOLEAN]
    BY <2>1 DEF UploadInit
  <2> HIDE DEF r
  <2>5. UploadTypes
    <3>1. destination \in {"none", "old"} \union Upload
      BY DEF UploadInit
    <3> QED BY <2>2, <2>3, <2>4, <3>1 DEF UploadTypes
  <2>6. \A u \in Upload : upload[u].step = "idle" /\ temp[u] = "none"
    BY <2>2, <2>3
  <2> QED BY <2>5, <2>6 DEF UploadInv, TempFollowsStep, ReplacesAsAsked, Committing, Overwriting
<1>2. UploadInv /\ [UploadNext]_uploadVars => UploadInv'
  <2> SUFFICES ASSUME UploadInv, [UploadNext]_uploadVars
               PROVE  UploadInv'
    OBVIOUS
  <2>1. CASE UploadNext
    BY <2>1, UploadStep DEF UploadNext
  <2>2. CASE UNCHANGED uploadVars
    BY <2>2 DEF uploadVars, UploadInv, UploadTypes, TempFollowsStep, ReplacesAsAsked
  <2> QED BY <2>1, <2>2
<1> QED BY <1>1, <1>2, PTL DEF UploadSpec

\* Whatever is refused and wherever the connection is lost, the destination
\* never holds part of a file, an upload that ended leaves no temporary file
\* while the connection lives, and one that was not to overwrite has replaced
\* nothing on a server whose rename does not (atomicStreamUpload and
\* commitTempFile, routes/sftp.ts:455-505).
THEOREM UploadsStayWhole == UploadSpec => []UploadsAreWhole
<1>1. UploadInv => UploadsAreWhole
  <2> SUFFICES ASSUME UploadInv
               PROVE  UploadsAreWhole
    OBVIOUS
  <2>1. destination # "truncated"
    BY UploadAssumption DEF UploadInv, UploadTypes
  <2>2. ASSUME NEW u \in Upload, server.up, ~InProgress(u)
        PROVE  temp[u] = "none"
    BY <2>2 DEF InProgress, UploadInv, TempFollowsStep
  <2>3. ASSUME NEW u \in Upload, At(u, "done"), ~upload[u].overwrite, ~server.renameReplaces
        PROVE  upload[u].replaced = "none"
    BY <2>3 DEF At, UploadInv, ReplacesAsAsked
  <2> QED BY <2>1, <2>2, <2>3 DEF UploadsAreWhole
<1> QED BY <1>1, UploadInvHolds, PTL
-----------------------------------------------------------------------------
(* Remote forwards (RemoteForwards) *)

FwdState ==
  [state : {"none", "requested", "replied", "failed", "bound", "stopped"},
   port : Port \union {NoPort}, map : Nat, granted : BOOLEAN, stopped : BOOLEAN]

RouteMap == [Port -> Fwd \union {NoFwd}]

RemoteTypes ==
  /\ fwd \in [Fwd -> FwdState]
  /\ held \subseteq Port
  /\ routes \in Seq(RouteMap)
  /\ dispatch \in 0 .. Len(routes)

\* The server listens for f, or will once it has read its request.
Granted(f) == fwd[f].state \in {"requested", "replied", "bound"} /\ fwd[f].granted

Placed(f) ==
  /\ fwd[f].state # "none" => fwd[f].port \in Port /\ fwd[f].map \in 1 .. Len(routes)
  /\ fwd[f].state \in {"replied", "bound"} => fwd[f].granted
  /\ Granted(f) => fwd[f].port \in held

\* A port is held for one forward.
PortsDiffer ==
  \A f, g \in Fwd : Granted(f) /\ Granted(g) /\ fwd[f].port = fwd[g].port => f = g

\* Any map that routes a port to a forward is the one its start has found, and
\* the forward is bound; and that of a bound forward routes to it.
RoutesBound ==
  /\ \A i \in DOMAIN routes, p \in Port : routes[i][p] # NoFwd =>
       LET f == routes[i][p]
       IN  fwd[f].state = "bound" /\ fwd[f].port = p /\ fwd[f].map = i
  /\ \A f \in Fwd : fwd[f].state = "bound" => routes[fwd[f].map][fwd[f].port] = f

AnsweredByOwner == last.accepted = IF last.owner = NoFwd THEN {} ELSE {last.owner}

RemoteInv ==
  /\ RemoteTypes /\ (\A f \in Fwd : Placed(f)) /\ PortsDiffer /\ RoutesBound /\ AnsweredByOwner

LEMMA RouteFacts ==
  ASSUME RemoteTypes
  PROVE  /\ Len(routes) \in Nat /\ DOMAIN routes = 1 .. Len(routes)
         /\ \A i \in 1 .. Len(routes) : routes[i] \in RouteMap
BY LenProperties, ElementOfSeq DEF RemoteTypes

\* A route of one map is set or cleared.
LEMMA RouteSet ==
  ASSUME RemoteTypes, NEW i \in 1 .. Len(routes), NEW p \in Port, NEW g \in Fwd \union {NoFwd}
  PROVE  LET m == [routes[i] EXCEPT ![p] = g]
             r == [routes EXCEPT ![i] = m]
         IN  /\ r \in Seq(RouteMap) /\ Len(r) = Len(routes) /\ DOMAIN r = DOMAIN routes
             /\ \A j \in DOMAIN routes, q \in Port :
                  r[j][q] = IF j = i /\ q = p THEN g ELSE routes[j][q]
<1> DEFINE m == [routes[i] EXCEPT ![p] = g]
           r == [routes EXCEPT ![i] = m]
<1>1. routes[i] \in RouteMap /\ DOMAIN routes = 1 .. Len(routes) /\ routes \in Seq(RouteMap)
  BY RouteFacts DEF RemoteTypes
<1>2. m \in RouteMap /\ \A q \in Port : m[q] = IF q = p THEN g ELSE routes[i][q]
  BY <1>1 DEF RouteMap
<1> HIDE DEF m
<1>3. /\ r \in Seq(RouteMap) /\ Len(r) = Len(routes)
      /\ \A j \in 1 .. Len(routes) : r[j] = IF j = i THEN m ELSE routes[j]
  BY <1>1, <1>2, ExceptSeq
<1>4. DOMAIN r = 1 .. Len(routes)
  BY <1>3, LenProperties
<1> HIDE DEF r
<1>5. \A j \in DOMAIN routes, q \in Port :
        r[j][q] = IF j = i /\ q = p THEN g ELSE routes[j][q]
  BY <1>1, <1>2, <1>3
<1> QED BY <1>1, <1>3, <1>4, <1>5 DEF m, r

\* A forward that is bound, or has ended, changes the route at its own place only.
LEMMA BindsOrStops ==
  ASSUME RemoteInv, NEW f \in Fwd, NEW h \in FwdState, fwd' = [fwd EXCEPT ![f] = h],
         Granted(f), h.state \in {"bound", "stopped"}, h.granted <=> fwd[f].granted,
         h.port = fwd[f].port, h.map = fwd[f].map,
         held' \subseteq Port, held \ {fwd[f].port} \subseteq held',
         h.state = "bound" => fwd[f].port \in held',
         routes' \in Seq(RouteMap), Len(routes') = Len(routes), DOMAIN routes' = DOMAIN routes,
         \A j \in DOMAIN routes, q \in Port :
           routes'[j][q] = IF j = fwd[f].map /\ q = fwd[f].port
                           THEN (IF h.state = "bound" THEN f ELSE NoFwd)
                           ELSE routes[j][q],
         dispatch' \in 0 .. Len(routes'), UNCHANGED last
  PROVE  RemoteInv'
<1>1. /\ RemoteTypes /\ (\A g \in Fwd : Placed(g)) /\ PortsDiffer /\ RoutesBound
  BY DEF RemoteInv
<1>2. RemoteTypes'
  BY <1>1 DEF RemoteTypes
<1>3. \A g \in Fwd : fwd'[g] = IF g = f THEN h ELSE fwd[g]
  BY <1>1 DEF RemoteTypes
<1>4. \A g \in Fwd : Granted(g)' => Granted(g)
  BY <1>3 DEF Granted
<1>5. Granted(f) /\ fwd[f].port \in Port /\ fwd[f].map \in DOMAIN routes
  BY <1>1, RouteFacts DEF Placed, Granted
<1>6. ASSUME NEW g \in Fwd
      PROVE  Placed(g)'
  <2>1. CASE g = f
    BY <1>1, <1>3, <1>5, <2>1 DEF Placed, Granted
  <2>2. CASE g # f
    <3>1. Granted(g)' => fwd[g].port # fwd[f].port
      BY <1>1, <1>4, <1>5, <2>2 DEF PortsDiffer
    <3> QED BY <1>1, <1>3, <1>4, <2>2, <3>1 DEF Placed
  <2> QED BY <2>1, <2>2
<1>7. PortsDiffer'
  BY <1>1, <1>3, <1>4 DEF PortsDiffer
<1>8. RoutesBound'
  <2>1. ASSUME NEW i \in DOMAIN routes', NEW p \in Port, routes'[i][p] # NoFwd
        PROVE  LET g == routes'[i][p]
               IN  fwd'[g].state = "bound" /\ fwd'[g].port = p /\ fwd'[g].map = i
    <3>1. CASE i = fwd[f].map /\ p = fwd[f].port
      <4>1. h.state = "bound" /\ routes'[i][p] = f
        BY <2>1, <3>1
      <4> QED BY <1>3, <3>1, <4>1
    <3>2. CASE ~(i = fwd[f].map /\ p = fwd[f].port)
      <4>1. routes'[i][p] = routes[i][p] /\ routes[i] \in RouteMap
        BY <1>1, <3>2, RouteFacts
      <4> DEFINE g == routes[i][p]
      <4>2. g \in Fwd /\ fwd[g].state = "bound" /\ fwd[g].port = p /\ fwd[g].map = i
        BY <1>1, <2>1, <4>1 DEF RoutesBound, RouteMap
      <4>3. g # f
        BY <3>2, <4>2
      <4> HIDE DEF g
      <4> QED BY <1>3, <4>1, <4>2, <4>3 DEF g
    <3> QED BY <3>1, <3>2
  <2>2. ASSUME NEW g \in Fwd, fwd'[g].state = "bound"
        PROVE  routes'[fwd'[g].map][fwd'[g].port] = g
    <3>1. CASE g = f
      <4>1. h.state = "bound" /\ fwd'[g] = h
        BY <1>3, <2>2, <3>1
      <4> QED BY <1>5, <3>1, <4>1
    <3>2. CASE g # f
      <4>1. /\ fwd'[g] = fwd[g] /\ routes[fwd[g].map][fwd[g].port] = g
            /\ fwd[g].map \in DOMAIN routes /\ fwd[g].port \in Port /\ Granted(g)
        BY <1>1, <1>3, <2>2, <3>2, RouteFacts DEF RoutesBound, Placed, Granted
      <4>2. fwd[g].port # fwd[f].port
        BY <1>1, <1>5, <3>2, <4>1 DEF PortsDiffer
      <4> QED BY <4>1, <4>2
    <3> QED BY <3>1, <3>2
  <2> QED BY <2>1, <2>2 DEF RoutesBound
<1>9. AnsweredByOwner'
  BY DEF RemoteInv, AnsweredByOwner
<1> QED BY <1>2, <1>6, <1>7, <1>8, <1>9 DEF RemoteInv
\* A forward that is not bound, and no route, moves on or gives up.
LEMMA WaitsOrFails ==
  ASSUME RemoteInv, NEW f \in Fwd, NEW h \in FwdState, fwd' = [fwd EXCEPT ![f] = h],
         fwd[f].state = "requested", h.state \in {"requested", "replied", "failed"},
         h.granted <=> fwd[f].granted,
         h.state = "replied" => h.granted,
         h.port = fwd[f].port, h.map = fwd[f].map,
         UNCHANGED <<held, routes, dispatch, last>>
  PROVE  RemoteInv'
<1>1. /\ RemoteTypes /\ (\A g \in Fwd : Placed(g)) /\ PortsDiffer /\ RoutesBound
  BY DEF RemoteInv
<1>2. RemoteTypes' /\ \A g \in Fwd : fwd'[g] = IF g = f THEN h ELSE fwd[g]
  BY <1>1 DEF RemoteTypes
<1>3. \A g \in Fwd : (Granted(g)' => Granted(g)) /\ fwd'[g].port = fwd[g].port
  BY <1>2 DEF Granted
<1>4. \A g \in Fwd : Placed(g)'
  BY <1>1, <1>2, <1>3 DEF Placed
<1>5. PortsDiffer'
  BY <1>1, <1>3 DEF PortsDiffer
<1>6. \A g \in Fwd : /\ fwd'[g].state = "bound" <=> fwd[g].state = "bound"
                     /\ fwd'[g].map = fwd[g].map
  BY <1>2
<1>7. RoutesBound'
  <2>1. ASSUME NEW i \in DOMAIN routes, NEW p \in Port, routes[i][p] # NoFwd
        PROVE  LET g == routes[i][p]
               IN  fwd'[g].state = "bound" /\ fwd'[g].port = p /\ fwd'[g].map = i
    <3>1. routes[i][p] \in Fwd
      BY <1>1, <2>1, RouteFacts DEF RouteMap
    <3> QED BY <1>1, <1>3, <1>6, <2>1, <3>1 DEF RoutesBound
  <2>2. ASSUME NEW g \in Fwd, fwd'[g].state = "bound"
        PROVE  routes[fwd'[g].map][fwd'[g].port] = g
    BY <1>1, <1>3, <1>6, <2>2 DEF RoutesBound
  <2> QED BY <2>1, <2>2 DEF RoutesBound
<1>8. AnsweredByOwner'
  BY DEF RemoteInv, AnsweredByOwner
<1> QED BY <1>2, <1>4, <1>5, <1>7, <1>8 DEF RemoteInv

LEMMA RequestKeeps ==
  ASSUME RemoteInv, NEW f \in Fwd, NEW p \in Port, RequestForward(f, p)
  PROVE  RemoteInv'
<1>1. /\ RemoteTypes /\ (\A g \in Fwd : Placed(g)) /\ PortsDiffer /\ RoutesBound
  BY DEF RemoteInv
<1>2. Len(routes) \in Nat /\ dispatch \in Nat /\ dispatch <= Len(routes)
  BY <1>1, RouteFacts DEF RemoteTypes
<1> DEFINE map == IF dispatch = 0 THEN Len(routes) + 1 ELSE dispatch
<1>3. PICK granted \in BOOLEAN :
        /\ granted => p \notin held
        /\ fwd' = [fwd EXCEPT ![f] = [state |-> "requested", port |-> p, map |-> map,
                                      granted |-> granted, stopped |-> FALSE]]
        /\ held' = IF granted THEN held \union {p} ELSE held
  BY DEF RequestForward
<1>4. /\ fwd[f].state = "none" /\ dispatch' = map /\ last' = last
      /\ routes' = IF dispatch = 0 THEN Append(routes, NoRoutes) ELSE routes
  BY DEF RequestForward
<1> DEFINE h == [state |-> "requested", port |-> p, map |-> map,
                 granted |-> granted, stopped |-> FALSE]
<1>5. /\ h \in FwdState /\ h.state = "requested" /\ h.port = p /\ h.map = map
      /\ h.granted <=> granted
  <2>1. FALSE \in BOOLEAN /\ map \in Nat
    BY <1>2
  <2> HIDE DEF map
  <2> QED BY <1>3, <2>1 DEF FwdState
<1>6. fwd' = [fwd EXCEPT ![f] = h]
  BY <1>3
<1> HIDE DEF h
<1>7. /\ routes' \in Seq(RouteMap) /\ DOMAIN routes' = 1 .. Len(routes')
      /\ Len(routes') \in Nat /\ Len(routes) <= Len(routes') /\ map \in 1 .. Len(routes')
      /\ \A i \in 1 .. Len(routes) : routes'[i] = routes[i]
      /\ \A i \in 1 .. Len(routes') : i \in 1 .. Len(routes) \/ routes'[i] = NoRoutes
  <2>1. CASE dispatch # 0
    BY <1>1, <1>2, <1>4, <2>1, RouteFacts DEF RemoteTypes
  <2>2. CASE dispatch = 0
    <3>1. routes' = Append(routes, NoRoutes) /\ NoRoutes \in RouteMap /\ map = Len(routes) + 1
      BY <1>4, <2>2 DEF NoRoutes, RouteMap
    <3>2. /\ routes' \in Seq(RouteMap) /\ Len(routes') = Len(routes) + 1
          /\ \A i \in 1 .. Len(routes) : routes'[i] = routes[i]
          /\ routes'[Len(routes) + 1] = NoRoutes
      BY <1>1, <3>1, AppendProperties DEF RemoteTypes
    <3>3. DOMAIN routes' = 1 .. Len(routes')
      BY <3>2, LenProperties
    <3> QED BY <1>2, <3>1, <3>2, <3>3
  <2> QED BY <2>1, <2>2
<1> HIDE DEF map
<1>8. \A g \in Fwd : fwd'[g] = IF g = f THEN h ELSE fwd[g]
  BY <1>1, <1>6 DEF RemoteTypes
<1>9. RemoteTypes'
  <2>1. fwd' \in [Fwd -> FwdState]
    BY <1>1, <1>5, <1>6 DEF RemoteTypes
  <2>2. held' \subseteq Port
    BY <1>1, <1>3 DEF RemoteTypes
  <2>3. dispatch' \in 0 .. Len(routes')
    BY <1>4, <1>7
  <2> QED BY <1>7, <2>1, <2>2, <2>3 DEF RemoteTypes
<1>10. ASSUME NEW g \in Fwd
       PROVE  Placed(g)'
  <2>1. CASE g = f
    BY <1>3, <1>5, <1>7, <1>8, <2>1 DEF Placed, Granted
  <2>2. CASE g # f
    BY <1>1, <1>2, <1>3, <1>7, <1>8, <2>2 DEF Placed, Granted
  <2> QED BY <2>1, <2>2
<1>11. PortsDiffer'
  <2>1. SUFFICES ASSUME NEW g \in Fwd, NEW k \in Fwd, Granted(g)', Granted(k)',
                        fwd'[g].port = fwd'[k].port
                 PROVE  g = k
    BY DEF PortsDiffer
  <2>2. ASSUME NEW x \in Fwd, x # f, Granted(x)'
        PROVE  Granted(x) /\ fwd'[x].port = fwd[x].port /\ fwd[x].port \in held
    BY <1>1, <1>8, <2>2 DEF Placed, Granted
  <2>3. Granted(f)' => p \notin held /\ fwd'[f].port = p
    BY <1>3, <1>5, <1>8 DEF Granted
  <2> QED BY <1>1, <2>1, <2>2, <2>3 DEF PortsDiffer
<1>12. RoutesBound'
  <2>1. ASSUME NEW i \in DOMAIN routes', NEW q \in Port, routes'[i][q] # NoFwd
        PROVE  LET g == routes'[i][q]
               IN  fwd'[g].state = "bound" /\ fwd'[g].port = q /\ fwd'[g].map = i
    <3>1. i \in DOMAIN routes /\ routes'[i][q] = routes[i][q]
      BY <1>1, <1>7, <2>1, RouteFacts DEF NoRoutes
    <3> DEFINE g == routes[i][q]
    <3>2. g \in Fwd /\ fwd[g].state = "bound" /\ fwd[g].port = q /\ fwd[g].map = i
      BY <1>1, <2>1, <3>1, RouteFacts DEF RoutesBound, RouteMap
    <3>3. g # f
      BY <1>4, <3>2
    <3> HIDE DEF g
    <3>4. fwd'[g].state = "bound" /\ fwd'[g].port = q /\ fwd'[g].map = i
      BY <1>8, <3>2, <3>3
    <3> QED BY <3>1, <3>4 DEF g
  <2>2. ASSUME NEW g \in Fwd, fwd'[g].state = "bound"
        PROVE  routes'[fwd'[g].map][fwd'[g].port] = g
    <3>1. fwd'[g] = fwd[g]
      BY <1>5, <1>8, <2>2
    <3>2. fwd[g].map \in 1 .. Len(routes) /\ routes[fwd[g].map][fwd[g].port] = g
      BY <1>1, <2>2, <3>1 DEF RoutesBound, Placed
    <3> QED BY <1>7, <3>1, <3>2
  <2> QED BY <2>1, <2>2 DEF RoutesBound
<1>13. AnsweredByOwner'
  BY <1>4 DEF RemoteInv, AnsweredByOwner
<1> QED BY <1>9, <1>10, <1>11, <1>12, <1>13 DEF RemoteInv

\* The states of a forward, one field changed.
LEMMA StateSet ==
  ASSUME NEW h \in FwdState, NEW s \in {"replied", "failed", "bound", "stopped"}
  PROVE  LET r == [h EXCEPT !.state = s]
         IN  /\ r \in FwdState /\ r.state = s /\ r.port = h.port /\ r.map = h.map
             /\ r.granted <=> h.granted
BY DEF FwdState

LEMMA StoppedSet ==
  ASSUME NEW h \in FwdState
  PROVE  LET r == [h EXCEPT !.stopped = TRUE]
         IN  /\ r \in FwdState /\ r.state = h.state /\ r.port = h.port /\ r.map = h.map
             /\ r.granted <=> h.granted
<1>1. TRUE \in BOOLEAN
  OBVIOUS
<1> QED BY <1>1 DEF FwdState

\* A bound or granted forward drops its route, if it had one.
LEMMA UnrouteKeeps ==
  ASSUME RemoteInv, NEW f \in Fwd, Granted(f), Unroute(f), held' = held \ {fwd[f].port},
         fwd' = [fwd EXCEPT ![f].state = "stopped"], UNCHANGED last
  PROVE  RemoteInv'
<1>1. RemoteTypes /\ Placed(f) /\ fwd[f] \in FwdState
  BY DEF RemoteInv, RemoteTypes
<1> DEFINE h == [fwd[f] EXCEPT !.state = "stopped"]
           m == fwd[f].map
           p == fwd[f].port
           e == [routes[m] EXCEPT ![p] = NoFwd]
           r == [routes EXCEPT ![m] = e]
<1>2. /\ h \in FwdState /\ h.state = "stopped" /\ h.port = p /\ h.map = m
      /\ h.granted <=> fwd[f].granted
  BY <1>1, StateSet
<1>3. fwd' = [fwd EXCEPT ![f] = h]
  BY <1>1 DEF RemoteTypes
<1>4. m \in 1 .. Len(routes) /\ p \in Port
  BY <1>1 DEF Placed, Granted
<1> HIDE DEF m, p
<1>5. /\ r \in Seq(RouteMap) /\ Len(r) = Len(routes) /\ DOMAIN r = DOMAIN routes
      /\ \A j \in DOMAIN routes, q \in Port :
           r[j][q] = IF j = m /\ q = p THEN NoFwd ELSE routes[j][q]
  <2>1. NoFwd \in Fwd \union {NoFwd}
    OBVIOUS
  <2> QED BY <1>1, <1>4, <2>1, RouteSet, SMTT(30)
<1> USE DEF m, p
<1>6. routes' = r /\ dispatch' = IF e = NoRoutes THEN 0 ELSE dispatch
  BY DEF Unroute
<1>7. dispatch' \in 0 .. Len(routes')
  BY <1>1, <1>5, <1>6, RouteFacts DEF RemoteTypes
<1> HIDE DEF h, m, p, e, r
<1>8. held' \subseteq Port /\ held \ {p} \subseteq held'
  BY <1>1 DEF RemoteTypes, p
<1>9. \A j \in DOMAIN routes, q \in Port :
        routes'[j][q] = IF j = m /\ q = p
                        THEN (IF h.state = "bound" THEN f ELSE NoFwd) ELSE routes[j][q]
  BY <1>2, <1>5, <1>6
<1>10. /\ h.port = fwd[f].port /\ h.map = fwd[f].map
       /\ held' \subseteq Port /\ held \ {fwd[f].port} \subseteq held'
       /\ \A j \in DOMAIN routes, q \in Port :
            routes'[j][q] = IF j = fwd[f].map /\ q = fwd[f].port
                            THEN (IF h.state = "bound" THEN f ELSE NoFwd) ELSE routes[j][q]
  BY <1>2, <1>8, <1>9 DEF m, p
<1>11. routes' \in Seq(RouteMap) /\ Len(routes') = Len(routes) /\ DOMAIN routes' = DOMAIN routes
  BY <1>5, <1>6
<1>12. h.state # "bound" /\ last' = last
  BY <1>2
<1> QED BY <1>2, <1>3, <1>7, <1>10, <1>11, <1>12, BindsOrStops

LEMMA RemoteStep ==
  ASSUME RemoteInv, RemoteNext
  PROVE  RemoteInv'
<1>1. /\ RemoteTypes /\ (\A g \in Fwd : Placed(g)) /\ PortsDiffer /\ RoutesBound
  BY DEF RemoteInv
<1>2. ASSUME NEW f \in Fwd, ForwardReply(f)
      PROVE  RemoteInv'
  <2> DEFINE s == IF fwd[f].granted THEN "replied" ELSE "failed"
             h == [fwd[f] EXCEPT !.state = s]
  <2>1. /\ fwd' = [fwd EXCEPT ![f] = h] /\ fwd[f] \in FwdState
        /\ s \in {"replied", "failed", "bound", "stopped"}
    BY <1>1, <1>2 DEF ForwardReply, RemoteTypes
  <2>2. s \in {"requested", "replied", "failed"} /\ (s = "replied" => fwd[f].granted)
    OBVIOUS
  <2>3. fwd[f].state = "requested" /\ UNCHANGED <<held, routes, dispatch, last>>
    BY <1>2 DEF ForwardReply
  <2> HIDE DEF s
  <2>4. /\ h \in FwdState /\ h.state = s /\ h.port = fwd[f].port /\ h.map = fwd[f].map
        /\ h.granted <=> fwd[f].granted
    BY <2>1, StateSet
  <2> HIDE DEF h
  <2> QED BY <2>1, <2>2, <2>3, <2>4, WaitsOrFails
<1>3. ASSUME NEW f \in Fwd, ResumeStart(f)
      PROVE  RemoteInv'
  <2>1. Granted(f) /\ fwd[f] \in FwdState /\ Placed(f)
    BY <1>1, <1>3 DEF ResumeStart, Granted, Placed, RemoteTypes
  <2>2. CASE fwd[f].stopped
    BY <1>3, <2>1, <2>2, UnrouteKeeps DEF ResumeStart
  <2>3. CASE ~fwd[f].stopped
    <3> DEFINE h == [fwd[f] EXCEPT !.state = "bound"]
               m == fwd[f].map
               p == fwd[f].port
               r == [routes EXCEPT ![m] = [routes[m] EXCEPT ![p] = f]]
    <3>1. /\ h \in FwdState /\ h.state = "bound" /\ h.port = p /\ h.map = m
          /\ h.granted <=> fwd[f].granted
      BY <2>1, StateSet
    <3>2. m \in 1 .. Len(routes) /\ p \in Port /\ p \in held
      BY <2>1 DEF Placed, Granted
    <3>3. /\ r \in Seq(RouteMap) /\ Len(r) = Len(routes) /\ DOMAIN r = DOMAIN routes
          /\ \A j \in DOMAIN routes, q \in Port :
               r[j][q] = IF j = m /\ q = p THEN f ELSE routes[j][q]
      BY <1>1, <3>2, RouteSet
    <3>4. routes' = r
      <4>1. routes' = Routed(f)
        BY <1>3, <2>3 DEF ResumeStart
      <4>2. Routed(f) = r
        BY <1>1, <3>2, RouteFacts DEF Routed
      <4> QED BY <4>1, <4>2
    <3>5. fwd' = [fwd EXCEPT ![f] = h] /\ UNCHANGED <<held, dispatch, last>>
      BY <1>1, <1>3, <2>3 DEF ResumeStart, RemoteTypes
    <3>6. held' \subseteq Port /\ held \ {p} \subseteq held' /\ p \in held'
      BY <1>1, <3>2, <3>5 DEF RemoteTypes
    <3>7. dispatch' \in 0 .. Len(routes')
      BY <1>1, <3>3, <3>4, <3>5 DEF RemoteTypes
    <3> HIDE DEF h, m, p, r
    <3>8. \A j \in DOMAIN routes, q \in Port :
            routes'[j][q] = IF j = m /\ q = p
                            THEN (IF h.state = "bound" THEN f ELSE NoFwd) ELSE routes[j][q]
      BY <3>1, <3>3, <3>4
    <3>9. last' = last
      BY <3>5
    <3> QED BY <2>1, <3>1, <3>3, <3>4, <3>5, <3>6, <3>7, <3>8, <3>9, BindsOrStops DEF m, p
  <2> QED BY <2>2, <2>3
<1>4. ASSUME NEW f \in Fwd, Stop(f)
      PROVE  RemoteInv'
  <2>1. fwd[f] \in FwdState /\ Placed(f) /\ last' = last
    BY <1>1, <1>4 DEF RemoteTypes, Stop
  <2>2. CASE fwd[f].state = "bound"
    BY <1>4, <2>1, <2>2, UnrouteKeeps DEF Stop, Granted, Placed
  <2>3. CASE fwd[f].state # "bound"
    <3> DEFINE h == [fwd[f] EXCEPT !.stopped = TRUE]
    <3>1. /\ fwd[f].state = "requested" /\ fwd' = [fwd EXCEPT ![f] = h]
          /\ UNCHANGED <<held, routes, dispatch, last>>
      BY <1>1, <1>4, <2>3 DEF Stop, RemoteTypes
    <3>2. /\ h \in FwdState /\ h.state = fwd[f].state /\ h.port = fwd[f].port
          /\ h.map = fwd[f].map
          /\ h.granted <=> fwd[f].granted
      BY <2>1, StoppedSet
    <3> HIDE DEF h
    <3> QED BY <3>1, <3>2, WaitsOrFails
  <2> QED BY <2>2, <2>3
<1>5. ASSUME NEW p \in Port, Incoming(p)
      PROVE  RemoteInv'
  <2>1. /\ UNCHANGED <<fwd, held, routes, dispatch>>
        /\ last'.owner = IF Bound(p) = {} THEN NoFwd ELSE CHOOSE f \in Bound(p) : TRUE
        /\ last'.accepted = {routes[i][p] : i \in DOMAIN routes} \ {NoFwd}
    BY <1>5 DEF Incoming
  <2>2. last'.accepted = Bound(p)
    <3>1. ASSUME NEW f \in last'.accepted
          PROVE  f \in Bound(p)
      <4>1. PICK i \in DOMAIN routes : f = routes[i][p] /\ f # NoFwd
        BY <2>1
      <4>2. f \in Fwd
        BY <1>1, <4>1, RouteFacts DEF RouteMap
      <4> QED BY <1>1, <4>1, <4>2 DEF RoutesBound, Bound
    <3>2. ASSUME NEW f \in Bound(p)
          PROVE  f \in last'.accepted
      <4>1. f \in Fwd /\ fwd[f].state = "bound" /\ fwd[f].port = p
        BY DEF Bound
      <4>2. fwd[f].map \in DOMAIN routes /\ routes[fwd[f].map][p] = f
        BY <1>1, <4>1, RouteFacts DEF Placed, RoutesBound
      <4>3. f # NoFwd
        BY <4>1, RemoteAssumption
      <4> QED BY <2>1, <4>2, <4>3
    <3> QED BY <3>1, <3>2
  <2>3. \A f, g \in Bound(p) : f = g
    BY <1>1 DEF Bound, PortsDiffer, Granted, Placed
  <2>4. AnsweredByOwner'
    <3>1. CASE Bound(p) = {}
      BY <2>1, <2>2, <3>1 DEF AnsweredByOwner
    <3>2. CASE Bound(p) # {}
      <4> DEFINE o == CHOOSE f \in Bound(p) : TRUE
      <4>1. o \in Bound(p) /\ last'.owner = o
        BY <2>1, <3>2
      <4> HIDE DEF o
      <4>2. o \in Fwd
        BY <4>1 DEF Bound
      <4>3. last'.accepted = {o} /\ o # NoFwd
        BY <2>2, <2>3, <4>1, <4>2, RemoteAssumption
      <4> QED BY <4>1, <4>3 DEF AnsweredByOwner
    <3> QED BY <3>1, <3>2
  <2> QED BY <1>1, <2>1, <2>4 DEF RemoteInv, RemoteTypes, Placed, Granted, PortsDiffer, RoutesBound
<1> QED BY <1>2, <1>3, <1>4, <1>5, RequestKeeps DEF RemoteNext

THEOREM RemoteInvHolds == RemoteSpec => []RemoteInv
<1>1. RemoteInit => RemoteInv
  <2> SUFFICES ASSUME RemoteInit
               PROVE  RemoteInv
    OBVIOUS
  <2> DEFINE h == [state |-> "none", port |-> NoPort, map |-> 0,
                   granted |-> FALSE, stopped |-> FALSE]
  <2>1. FALSE \in BOOLEAN /\ 0 \in Nat
    OBVIOUS
  <2>2. h \in FwdState /\ h.state = "none"
    BY <2>1 DEF FwdState
  <2>3. fwd = [f \in Fwd |-> h]
    BY DEF RemoteInit
  <2>4. routes \in Seq(RouteMap) /\ Len(routes) = 0 /\ DOMAIN routes = {}
    <3>1. routes = <<>>
      BY DEF RemoteInit
    <3> QED BY <3>1, EmptySeq
  <2> HIDE DEF h
  <2>5. RemoteTypes
    <3>1. fwd \in [Fwd -> FwdState]
      BY <2>2, <2>3
    <3>2. held \subseteq Port /\ dispatch \in 0 .. Len(routes)
      BY <2>4 DEF RemoteInit
    <3> QED BY <2>4, <3>1, <3>2 DEF RemoteTypes
  <2>6. \A f \in Fwd : fwd[f].state = "none"
    BY <2>2, <2>3
  <2>7. AnsweredByOwner
    BY DEF RemoteInit, NoAnswer, AnsweredByOwner
  <2> QED BY <2>4, <2>5, <2>6, <2>7 DEF RemoteInv, Placed, Granted, PortsDiffer, RoutesBound
<1>2. RemoteInv /\ [RemoteNext]_remoteVars => RemoteInv'
  <2> SUFFICES ASSUME RemoteInv, UNCHANGED remoteVars
               PROVE  RemoteInv'
    BY RemoteStep
  <2> QED BY DEF remoteVars, RemoteInv, RemoteTypes, Placed, Granted, PortsDiffer, RoutesBound,
                 AnsweredByOwner
<1> QED BY <1>1, <1>2, PTL DEF RemoteSpec

\* A channel is carried to the target of the forward that holds its port, and
\* to no other, whatever forwards start and stop on the connection; no two
\* forwards hold one port, and no route outlives its forward, whatever map a
\* start has found before it waited (startRemote, forward-manager.ts:409-431).
THEOREM RemoteRoutesHold == RemoteSpec => []RemoteRouting
<1>1. RemoteInv => RemoteRouting
  <2> SUFFICES ASSUME RemoteInv
               PROVE  RemoteRouting
    OBVIOUS
  <2>1. /\ RemoteTypes /\ (\A g \in Fwd : Placed(g)) /\ PortsDiffer /\ RoutesBound
        /\ AnsweredByOwner
    BY DEF RemoteInv
  <2>2. ASSUME NEW i \in DOMAIN routes, NEW p \in Port, routes[i][p] # NoFwd
        PROVE  routes[i][p] \in Bound(p)
    <3>1. routes[i][p] \in Fwd
      BY <2>1, <2>2, RouteFacts DEF RouteMap
    <3> QED BY <2>1, <2>2, <3>1 DEF RoutesBound, Bound
  <2>3. ASSUME NEW p \in Port
        PROVE  Cardinality(Bound(p)) <= 1
    <3>1. \A f, g \in Bound(p) : f = g
      BY <2>1 DEF Bound, PortsDiffer, Granted, Placed
    <3>2. CASE Bound(p) = {}
      <4>1. Cardinality(Bound(p)) = 0
        BY <3>2, FS_EmptySet
      <4> QED BY <4>1
    <3>3. CASE Bound(p) # {}
      <4>1. PICK f \in Bound(p) : TRUE
        BY <3>3
      <4>2. Bound(p) = {f}
        BY <3>1, <4>1
      <4>3. Cardinality(Bound(p)) = 1
        BY <4>2, FS_Singleton
      <4> QED BY <4>3
    <3> QED BY <3>2, <3>3
  <2> QED BY <2>1, <2>2, <2>3 DEF RemoteRouting, AnsweredByOwner
<1> QED BY <1>1, RemoteInvHolds, PTL
-----------------------------------------------------------------------------
(* The calls of a NETCONF session (NetconfSession) *)

Outcome == {"none", "waiting", "replied", "timed out", "cancelled", "closed"}
Call == [outcome : Outcome, timer : BOOLEAN, settled : 0 .. 1]

\* A call waits under its timer, and settles once.
CallOK(c) ==
  /\ c.timer <=> c.outcome = "waiting"
  /\ c.settled = 0 <=> c.outcome \in {"none", "waiting"}

SessionState ==
  [state : {"hello", "open", "closed", "failed"}, channel : {"open", "ended", "destroyed"},
   timer : BOOLEAN]

NetconfTypes ==
  /\ session \in SessionState /\ nextId \in 1 .. MaxRpcs + 1
  /\ call \in [Rpc -> Call] /\ \A i \in Rpc : CallOK(call[i])
  /\ pending \in Seq(Rpc) /\ wire \in Seq(Rpc) /\ closer \in [Closers -> Int]

\* The queue is the server's, in the order of the message ids.
QueueOfTheServer ==
  /\ session.state = "open" => session.channel = "open" /\ pending = wire
  /\ session.state = "hello" => pending = <<>> /\ wire = <<>> /\ session.channel = "open"
  /\ \A j, k \in DOMAIN pending : j < k => pending[j] < pending[k]
  /\ \A k \in DOMAIN pending : pending[k] < nextId

\* Only an open session has calls that wait, and its queue lists them.
WaitingAreQueued ==
  \A i \in Rpc : call[i].outcome = "waiting" =>
    session.state = "open" /\ \E k \in DOMAIN pending : pending[k] = i

\* Who has begun to close has met an open session.
ClosersCameLater ==
  \A c \in Closers : closer[c] # 0 => session.state \in {"open", "closed"}

NetconfInv ==
  NetconfTypes /\ QueueOfTheServer /\ WaitingAreQueued /\ ClosersCameLater

LEMMA PendingFacts ==
  ASSUME NetconfTypes
  PROVE  /\ Len(pending) \in Nat /\ DOMAIN pending = 1 .. Len(pending)
         /\ \A k \in 1 .. Len(pending) : pending[k] \in Rpc
         /\ MaxRpcs \in Nat
BY LenProperties, ElementOfSeq, NetconfAssumption DEF NetconfTypes

LEMMA SettlesOnce == 1 \in 0 .. 1 /\ 1 # 0 /\ \A n : n = 0 => n + 1 = 1
OBVIOUS

LEMMA SettleEffect ==
  ASSUME NEW calls \in [Rpc -> Call], \A j \in Rpc : CallOK(calls[j]), NEW i \in Rpc,
         NEW o \in {"replied", "timed out", "cancelled", "closed"}
  PROVE  LET r == Settle(calls, i, o)
         IN  /\ r \in [Rpc -> Call] /\ \A j \in Rpc : CallOK(r[j])
             /\ r[i].outcome # "waiting" /\ \A j \in Rpc : j # i => r[j] = calls[j]
<1>1. CASE calls[i].outcome # "waiting"
  BY <1>1 DEF Settle
<1>2. CASE calls[i].outcome = "waiting"
  <2> DEFINE c == [outcome |-> o, timer |-> FALSE, settled |-> 1]
             r == [calls EXCEPT ![i] = c]
  <2>1. calls[i].settled + 1 = 1
    <3>1. CallOK(calls[i])
      OBVIOUS
    <3>2. calls[i].settled = 0
      BY <1>2, <3>1 DEF CallOK
    <3> QED BY <3>2, SettlesOnce
  <2>2. c \in Call /\ c.outcome = o /\ c.settled = 1 /\ ~c.timer
    <3>1. FALSE \in BOOLEAN
      OBVIOUS
    <3>2. 1 \in 0 .. 1
      BY SettlesOnce
    <3>3. o \in Outcome
      BY DEF Outcome
    <3> QED BY <3>1, <3>2, <3>3 DEF Call
  <2>3. Settle(calls, i, o) = r
    BY <1>2, <2>1 DEF Settle
  <2> HIDE DEF c
  <2>4. CallOK(c) /\ c.outcome # "waiting"
    <3>1. o \notin {"none", "waiting"}
      OBVIOUS
    <3>2. c.outcome \notin {"none", "waiting"}
      BY <2>2, <3>1
    <3>3. c.settled # 0
      BY <2>2, SettlesOnce
    <3> QED BY <2>2, <3>2, <3>3 DEF CallOK
  <2>5. r \in [Rpc -> Call] /\ \A j \in Rpc : r[j] = IF j = i THEN c ELSE calls[j]
    BY <2>2
  <2> HIDE DEF r
  <2> QED BY <2>3, <2>4, <2>5
<1> QED BY <1>1, <1>2

LEMMA WaitsIsACall == Waits \in Call /\ CallOK(Waits) /\ Waits.outcome = "waiting"
<1>1. TRUE \in BOOLEAN
  OBVIOUS
<1> QED BY <1>1 DEF Waits, Call, CallOK, Outcome

\* A call that settles stays in the queue or leaves it at its head.
LEMMA IssueKeeps ==
  ASSUME NetconfInv, NEW aborted \in BOOLEAN, session.state = "open", RpcIssued(aborted),
         UNCHANGED session, closer' \in [Closers -> Int]
  PROVE  NetconfInv'
<1>1. NetconfTypes /\ QueueOfTheServer /\ WaitingAreQueued /\ ClosersCameLater
  BY DEF NetconfInv
<1>2. nextId \in Rpc /\ nextId' = nextId + 1 /\ nextId \in Nat
  BY <1>1 DEF RpcIssued, NetconfTypes
<1>3. nextId' \in 1 .. MaxRpcs + 1
  BY <1>1, <1>2, PendingFacts DEF Rpc
<1> DEFINE calls == [call EXCEPT ![nextId] = Waits]
<1>4. /\ calls \in [Rpc -> Call] /\ \A j \in Rpc : CallOK(calls[j])
      /\ \A j \in Rpc : j # nextId => calls[j] = call[j]
  BY <1>1, <1>2, WaitsIsACall DEF NetconfTypes
<1> HIDE DEF calls
<1>7. ClosersCameLater'
  BY DEF ClosersCameLater
<1>5. CASE aborted
  <2>1. call' = Settle(calls, nextId, "cancelled") /\ UNCHANGED <<pending, wire>>
    BY <1>5 DEF RpcIssued, calls
  <2>2. /\ call' \in [Rpc -> Call] /\ \A j \in Rpc : CallOK(call'[j])
        /\ call'[nextId].outcome # "waiting" /\ \A j \in Rpc : j # nextId => call'[j] = calls[j]
    BY <1>2, <1>4, <2>1, SettleEffect, ZenonT(40)
  <2>3. NetconfTypes'
    BY <1>1, <1>3, <2>1, <2>2 DEF NetconfTypes
  <2>4. QueueOfTheServer'
    <3>1. \A k \in DOMAIN pending : pending[k] < nextId + 1
      BY <1>1, <1>2, PendingFacts DEF QueueOfTheServer, Rpc
    <3> QED BY <1>1, <1>2, <2>1, <3>1 DEF QueueOfTheServer
  <2>5. WaitingAreQueued'
    BY <1>1, <1>4, <2>1, <2>2 DEF WaitingAreQueued
  <2> QED BY <1>7, <2>3, <2>4, <2>5 DEF NetconfInv
<1>6. CASE ~aborted
  <2>1. /\ call' = calls /\ pending' = Append(pending, nextId) /\ wire' = Append(wire, nextId)
    BY <1>6 DEF RpcIssued, calls
  <2>2. /\ pending' \in Seq(Rpc) /\ Len(pending') = Len(pending) + 1
        /\ \A k \in 1 .. Len(pending) : pending'[k] = pending[k]
        /\ pending'[Len(pending) + 1] = nextId
    BY <1>1, <1>2, <2>1, AppendProperties DEF NetconfTypes
  <2>3. wire' \in Seq(Rpc)
    BY <1>1, <1>2, <2>1, AppendProperties DEF NetconfTypes
  <2>4. DOMAIN pending' = 1 .. Len(pending) + 1
    BY <2>2, LenProperties
  <2>5. NetconfTypes'
    BY <1>1, <1>3, <1>4, <2>1, <2>2, <2>3 DEF NetconfTypes
  <2>6. \A k \in 1 .. Len(pending) : pending[k] \in Nat /\ pending[k] < nextId
    BY <1>1, PendingFacts DEF QueueOfTheServer, Rpc
  <2>7. ASSUME NEW k \in DOMAIN pending'
        PROVE  pending'[k] < nextId'
    <3>1. CASE k = Len(pending) + 1
      BY <1>2, <2>2, <3>1
    <3>2. CASE k # Len(pending) + 1
      <4>1. k \in 1 .. Len(pending)
        BY <1>1, <2>4, <3>2, PendingFacts
      <4> QED BY <1>2, <2>2, <2>6, <4>1
    <3> QED BY <3>1, <3>2
  <2>8. ASSUME NEW j \in DOMAIN pending', NEW k \in DOMAIN pending', j < k
        PROVE  pending'[j] < pending'[k]
    <3>1. j \in 1 .. Len(pending)
      BY <1>1, <2>4, <2>8, PendingFacts
    <3>2. CASE k = Len(pending) + 1
      BY <2>2, <2>6, <3>1, <3>2
    <3>3. CASE k # Len(pending) + 1
      <4>1. k \in 1 .. Len(pending)
        BY <1>1, <2>4, <3>3, PendingFacts
      <4>2. pending[j] < pending[k]
        BY <1>1, <2>8, <3>1, <4>1, PendingFacts DEF QueueOfTheServer
      <4> QED BY <2>2, <3>1, <4>1, <4>2
    <3> QED BY <3>2, <3>3
  <2>9. pending' = wire' /\ session' = session
    BY <1>1, <2>1 DEF QueueOfTheServer
  <2>10. QueueOfTheServer'
    BY <1>1, <2>7, <2>8, <2>9 DEF QueueOfTheServer
  <2>11. ASSUME NEW i \in Rpc, call'[i].outcome = "waiting"
         PROVE  \E k \in DOMAIN pending' : pending'[k] = i
    <3>1. CASE i = nextId
      <4>1. Len(pending) + 1 \in DOMAIN pending'
        BY <1>1, <2>4, PendingFacts
      <4> QED BY <2>2, <3>1, <4>1
    <3>2. CASE i # nextId
      <4>1. PICK k \in 1 .. Len(pending) : pending[k] = i
        BY <1>1, <1>4, <2>1, <2>11, <3>2, PendingFacts DEF WaitingAreQueued
      <4>2. k \in DOMAIN pending'
        BY <1>1, <2>4, <4>1, PendingFacts
      <4> QED BY <2>2, <4>1, <4>2
    <3> QED BY <3>1, <3>2
  <2>12. WaitingAreQueued'
    BY <2>9, <2>11 DEF WaitingAreQueued
  <2> QED BY <1>7, <2>5, <2>10, <2>12 DEF NetconfInv
<1> QED BY <1>5, <1>6

\* The reply of the server is for the head of the queue, with its id or without.
LEMMA ReplyKeeps ==
  ASSUME NetconfInv, NEW withId \in BOOLEAN, Replied(withId)
  PROVE  NetconfInv'
<1>1. NetconfTypes /\ QueueOfTheServer /\ WaitingAreQueued /\ ClosersCameLater
  BY DEF NetconfInv
<1>2. /\ wire \in Seq(Rpc) /\ wire # <<>> /\ wire' = Tail(wire)
      /\ UNCHANGED <<session, nextId, closer>>
  BY <1>1 DEF Replied, NetconfTypes
<1>3. wire' \in Seq(Rpc)
  BY <1>2, HeadTailProperties
<1>4. CASE session.state # "open"
  <2>1. UNCHANGED <<pending, call>>
    BY <1>4 DEF Replied
  <2>2. session.state # "hello"
    BY <1>1, <1>2 DEF QueueOfTheServer
  <2> QED BY <1>1, <1>2, <1>3, <1>4, <2>1, <2>2
          DEF NetconfInv, NetconfTypes, QueueOfTheServer, WaitingAreQueued,
               ClosersCameLater
<1>5. CASE session.state = "open"
  <2>1. pending = wire /\ pending \in Seq(Rpc) /\ pending # <<>>
    BY <1>1, <1>2, <1>5 DEF QueueOfTheServer
  <2>2. Len(pending) \in Nat /\ DOMAIN pending = 1 .. Len(pending) /\ 1 \in DOMAIN pending
    <3>1. Len(pending) \in Nat /\ DOMAIN pending = 1 .. Len(pending)
      BY <2>1, LenProperties
    <3>2. Len(pending) # 0
      BY <2>1, EmptySeq
    <3> QED BY <3>1, <3>2
  <2>3. Head(wire) = pending[1]
    BY <2>1, HeadTailProperties
  <2> DEFINE slots == IF withId THEN {k \in DOMAIN pending : pending[k] = Head(wire)}
                      ELSE DOMAIN pending \intersect {1}
             place == CHOOSE k \in slots : TRUE
  <2>4. \A k \in DOMAIN pending : pending[k] = pending[1] => k = 1
    <3>1. SUFFICES ASSUME NEW k \in DOMAIN pending, k # 1
                   PROVE  pending[k] # pending[1]
      OBVIOUS
    <3>2. 1 < k
      BY <2>2, <3>1
    <3>3. pending[1] < pending[k]
      BY <1>1, <2>2, <3>2 DEF QueueOfTheServer
    <3>4. pending[1] \in Rpc /\ pending[k] \in Rpc
      BY <1>1, <2>2, PendingFacts
    <3> QED BY <3>3, <3>4 DEF Rpc
  <2>5. slots = {1}
    BY <2>2, <2>3, <2>4
  <2>6. slots # {} /\ place = 1
    BY <2>5
  <2>7. /\ pending' = RemoveAt(pending, place)
        /\ call' = Settle(call, pending[place],
                          IF pending[place] = Head(wire) THEN "replied" ELSE "wrong reply")
    BY <1>5, <2>6 DEF Replied
  <2> HIDE DEF slots, place
  <2>8. pending' = RemoveAt(pending, 1) /\ call' = Settle(call, pending[1], "replied")
    BY <2>3, <2>6, <2>7
  <2>9. pending[1] \in Rpc
    BY <1>1, <2>2, PendingFacts
  <2>10. /\ call' \in [Rpc -> Call] /\ \A j \in Rpc : CallOK(call'[j])
         /\ call'[pending[1]].outcome # "waiting"
         /\ \A j \in Rpc : j # pending[1] => call'[j] = call[j]
    BY <1>1, <2>8, <2>9, SettleEffect, ZenonT(40) DEF NetconfTypes
  <2>11. /\ pending' \in Seq(Rpc) /\ DOMAIN pending' = 1 .. Len(pending) - 1
         /\ \A k \in 1 .. Len(pending) - 1 : pending'[k] = pending[k + 1]
    <3>1. /\ RemoveAt(pending, 1) \in Seq(Rpc)
          /\ DOMAIN RemoveAt(pending, 1) = 1 .. Len(pending) - 1
          /\ \A k \in 1 .. Len(pending) - 1 :
               RemoveAt(pending, 1)[k] = IF k < 1 THEN pending[k] ELSE pending[k + 1]
      BY <2>1, <2>2, RemoveAtOfSeq
    <3>2. \A k \in 1 .. Len(pending) - 1 : ~(k < 1)
      BY <2>2
    <3> QED BY <2>8, <3>1, <3>2
  <2>12. pending' = wire'
    <3>1. /\ Tail(pending) \in Seq(Rpc) /\ Len(Tail(pending)) = Len(pending) - 1
          /\ \A k \in 1 .. Len(Tail(pending)) : Tail(pending)[k] = pending[k + 1]
      BY <2>1, HeadTailProperties
    <3>2. Len(pending') = Len(pending) - 1
      <4>1. Len(pending') \in Nat /\ DOMAIN pending' = 1 .. Len(pending')
        BY <2>11, LenProperties
      <4>2. Len(pending) - 1 \in Nat
        BY <2>2
      <4> QED BY <2>11, <4>1, <4>2
    <3>3. pending' = Tail(pending)
      BY <2>11, <3>1, <3>2, SeqEqual
    <3> QED BY <1>2, <2>1, <3>3
  <2>13. NetconfTypes'
    BY <1>1, <1>2, <1>3, <2>10, <2>11 DEF NetconfTypes
  <2>14. \A k \in 1 .. Len(pending) - 1 : k \in DOMAIN pending /\ k + 1 \in DOMAIN pending
    BY <2>2
  <2>15. QueueOfTheServer'
    <3>1. ASSUME NEW k \in DOMAIN pending'
          PROVE  pending'[k] < nextId'
      <4>1. k + 1 \in DOMAIN pending /\ pending'[k] = pending[k + 1]
        BY <2>11, <2>14, <3>1
      <4> QED BY <1>1, <1>2, <4>1 DEF QueueOfTheServer
    <3>2. ASSUME NEW j \in DOMAIN pending', NEW k \in DOMAIN pending', j < k
          PROVE  pending'[j] < pending'[k]
      <4>1. /\ j + 1 \in DOMAIN pending /\ pending'[j] = pending[j + 1]
            /\ k + 1 \in DOMAIN pending /\ pending'[k] = pending[k + 1]
        BY <2>11, <2>14, <3>2
      <4>2. j + 1 < k + 1
        BY <2>2, <2>11, <3>2
      <4> QED BY <1>1, <4>1, <4>2 DEF QueueOfTheServer
    <3> QED BY <1>1, <1>2, <1>5, <2>12, <3>1, <3>2 DEF QueueOfTheServer
  <2>16. WaitingAreQueued'
    <3>1. ASSUME NEW i \in Rpc, call'[i].outcome = "waiting"
          PROVE  \E k \in DOMAIN pending' : pending'[k] = i
      <4>1. i # pending[1] /\ call[i].outcome = "waiting"
        BY <2>10, <3>1
      <4>2. PICK k \in DOMAIN pending : pending[k] = i
        BY <1>1, <4>1 DEF WaitingAreQueued
      <4>3. k - 1 \in 1 .. Len(pending) - 1 /\ (k - 1) + 1 = k
        BY <2>2, <4>1, <4>2
      <4>4. k - 1 \in DOMAIN pending' /\ pending'[k - 1] = i
        BY <2>11, <4>2, <4>3
      <4> QED BY <4>4
    <3> QED BY <1>2, <1>5, <3>1 DEF WaitingAreQueued
  <2>17. ClosersCameLater'
    BY <1>1, <1>2 DEF ClosersCameLater
  <2> QED BY <2>13, <2>15, <2>16, <2>17 DEF NetconfInv
<1> QED BY <1>4, <1>5

\* Whoever closes an open session settles every call that waits.
LEMMA ShutdownSettlesAll ==
  ASSUME NetconfInv, Shutdown, session.state \in {"open", "closed"}
  PROVE  /\ call' \in [Rpc -> Call] /\ \A j \in Rpc : CallOK(call'[j])
         /\ \A j \in Rpc : call'[j].outcome # "waiting"
         /\ pending' \in Seq(Rpc)
         /\ \A j, k \in DOMAIN pending' : j < k => pending'[j] < pending'[k]
         /\ \A k \in DOMAIN pending' : pending'[k] < nextId
<1>1. NetconfTypes /\ QueueOfTheServer /\ WaitingAreQueued /\ ClosersCameLater
  BY DEF NetconfInv
<1>2. CASE session.state # "open"
  BY <1>1, <1>2 DEF Shutdown, NetconfTypes, QueueOfTheServer, WaitingAreQueued,
               ClosersCameLater
<1>3. CASE session.state = "open"
  <2>1. /\ call' = [i \in Rpc |-> IF Contains(pending, i)
                                   THEN Settle(call, i, "closed")[i] ELSE call[i]]
        /\ pending' = <<>>
    BY <1>3 DEF Shutdown
  <2>2. pending' \in Seq(Rpc) /\ DOMAIN pending' = {}
    BY <2>1, EmptySeq
  <2>3. ASSUME NEW i \in Rpc
        PROVE  call'[i] \in Call /\ CallOK(call'[i]) /\ call'[i].outcome # "waiting"
    <3>1. CASE Contains(pending, i)
      <4> DEFINE r == Settle(call, i, "closed")
      <4>1. /\ r \in [Rpc -> Call] /\ \A j \in Rpc : CallOK(r[j])
            /\ r[i].outcome # "waiting"
        BY <1>1, SettleEffect DEF NetconfTypes
      <4>2. call'[i] = r[i]
        BY <2>1, <3>1
      <4> HIDE DEF r
      <4> QED BY <4>1, <4>2
    <3>2. CASE ~Contains(pending, i)
      <4>1. call'[i] = call[i]
        BY <2>1, <3>2
      <4>2. \A k \in DOMAIN pending : pending[k] # i
        BY <1>1, <3>2, PendingFacts DEF Contains
      <4> QED BY <1>1, <4>1, <4>2 DEF NetconfTypes, WaitingAreQueued
    <3> QED BY <3>1, <3>2
  <2>4. call' \in [Rpc -> Call]
    <3>1. call' = [i \in Rpc |-> call'[i]]
      BY <2>1
    <3> QED BY <2>3, <3>1
  <2> QED BY <2>2, <2>3, <2>4
<1> QED BY <1>2, <1>3

LEMMA NetconfStep ==
  ASSUME NetconfInv, NetconfNext
  PROVE  NetconfInv'
<1>1. NetconfTypes /\ QueueOfTheServer /\ WaitingAreQueued /\ ClosersCameLater
  BY DEF NetconfInv
<1>2. TRUE \in BOOLEAN /\ FALSE \in BOOLEAN
  OBVIOUS
<1>3. ASSUME HelloReceived
      PROVE  NetconfInv'
  <2>1. /\ session' \in SessionState /\ session'.state = "open" /\ session'.channel = "open"
        /\ UNCHANGED <<nextId, pending, call, wire, closer>> /\ session.state = "hello"
    BY <1>1, <1>2, <1>3 DEF HelloReceived, NetconfTypes, SessionState
  <2> QED BY <1>1, <2>1 DEF NetconfInv, NetconfTypes, QueueOfTheServer, WaitingAreQueued,
               ClosersCameLater
<1>4. ASSUME HelloFails
      PROVE  NetconfInv'
  <2>1. /\ session' \in SessionState /\ session'.state = "failed"
        /\ UNCHANGED <<nextId, pending, call, wire, closer>> /\ session.state = "hello"
    BY <1>1, <1>2, <1>4 DEF HelloFails, SessionState
  <2> QED BY <1>1, <2>1 DEF NetconfInv, NetconfTypes, QueueOfTheServer, WaitingAreQueued,
               ClosersCameLater
<1>5. ASSUME CallRpc
      PROVE  NetconfInv'
  <2>1. closer' \in [Closers -> Int]
    BY <1>1, <1>5 DEF CallRpc, NetconfTypes
  <2> QED BY <1>5, <2>1, IssueKeeps DEF CallRpc
<1>6. ASSUME ReplyArrives
      PROVE  NetconfInv'
  BY <1>6, ReplyKeeps DEF ReplyArrives
<1>7. ASSUME NEW i \in Rpc, GiveUp(i)
      PROVE  NetconfInv'
  <2>1. PICK o \in {"timed out", "cancelled"} : call' = Settle(call, i, o)
    BY <1>7 DEF GiveUp
  <2>2. o \in {"replied", "timed out", "cancelled", "closed"}
    OBVIOUS
  <2> DEFINE r == Settle(call, i, o)
  <2>5. /\ r \in [Rpc -> Call] /\ \A j \in Rpc : CallOK(r[j])
        /\ r[i].outcome # "waiting" /\ \A j \in Rpc : j # i => r[j] = call[j]
    BY <1>1, <2>2, SettleEffect, ZenonT(40) DEF NetconfTypes
  <2> HIDE DEF r
  <2>3. /\ call' \in [Rpc -> Call] /\ \A j \in Rpc : CallOK(call'[j])
        /\ call'[i].outcome # "waiting" /\ \A j \in Rpc : j # i => call'[j] = call[j]
    BY <2>1, <2>5 DEF r
  <2>4. UNCHANGED <<session, nextId, pending, wire, closer>>
    BY <1>7 DEF GiveUp, QueueAfterGivingUp
  <2> QED BY <1>1, <2>3, <2>4 DEF NetconfInv, NetconfTypes, QueueOfTheServer, WaitingAreQueued,
               ClosersCameLater
<1>8. ASSUME ChannelGoes
      PROVE  NetconfInv'
  <2>1. /\ session.state \in {"open", "closed"} /\ Shutdown
        /\ UNCHANGED <<nextId, closer>> /\ wire' = <<>>
    BY <1>8 DEF ChannelGoes
  <2>2. session' \in SessionState /\ session'.state = "closed"
    BY <1>1, <1>8 DEF ChannelGoes, NetconfTypes, SessionState
  <2>3. wire' \in Seq(Rpc)
    BY <2>1, EmptySeq
  <2> QED BY <1>1, <2>1, <2>2, <2>3, ShutdownSettlesAll
          DEF NetconfInv, NetconfTypes, QueueOfTheServer, WaitingAreQueued,
               ClosersCameLater
<1>9. ASSUME NEW c \in Closers, CloseBegins(c)
      PROVE  NetconfInv'
  <2>1. nextId \in Int
    BY <1>1, PendingFacts DEF NetconfTypes
  <2>2. closer' \in [Closers -> Int]
    BY <1>1, <1>9, <2>1 DEF CloseBegins, NetconfTypes
  <2> QED BY <1>2, <1>9, <2>2, IssueKeeps DEF CloseBegins
<1>10. ASSUME NEW c \in Closers, CloseEnds(c)
       PROVE  NetconfInv'
  <2>1. session.state \in {"open", "closed"}
    BY <1>1, <1>10 DEF CloseEnds, ClosersCameLater
  <2>2. Shutdown /\ UNCHANGED <<nextId, wire>>
    BY <1>10 DEF CloseEnds
  <2>4. closer' \in [Closers -> Int]
    BY <1>1, <1>10 DEF CloseEnds, NetconfTypes
  <2>3. session' \in SessionState /\ session'.state = "closed"
    BY <1>1, <1>10 DEF CloseEnds, NetconfTypes, SessionState
  <2> QED BY <1>1, <2>1, <2>2, <2>3, <2>4, ShutdownSettlesAll
          DEF NetconfInv, NetconfTypes, QueueOfTheServer, WaitingAreQueued,
               ClosersCameLater
<1> QED BY <1>3, <1>4, <1>5, <1>6, <1>7, <1>8, <1>9, <1>10 DEF NetconfNext

THEOREM NetconfInvHolds == NetconfSpec => []NetconfInv
<1>1. NetconfInit => NetconfInv
  <2> SUFFICES ASSUME NetconfInit
               PROVE  NetconfInv
    OBVIOUS
  <2>1. TRUE \in BOOLEAN /\ FALSE \in BOOLEAN /\ 0 \in 0 .. 1 /\ 0 \in Int
    OBVIOUS
  <2>2. NoCall \in Call /\ CallOK(NoCall) /\ NoCall.outcome # "waiting"
    BY <2>1 DEF NoCall, Call, CallOK, Outcome
  <2>3. /\ call \in [Rpc -> Call] /\ \A i \in Rpc : CallOK(call[i])
        /\ \A i \in Rpc : call[i].outcome # "waiting"
    BY <2>2 DEF NetconfInit
  <2>4. session \in SessionState /\ session.state = "hello" /\ session.channel = "open"
    BY <2>1 DEF NetconfInit, SessionState
  <2>5. nextId \in 1 .. MaxRpcs + 1
    BY NetconfAssumption DEF NetconfInit
  <2>6. pending = <<>> /\ wire = <<>>
    BY DEF NetconfInit
  <2>7. pending \in Seq(Rpc) /\ wire \in Seq(Rpc) /\ DOMAIN pending = {}
    BY <2>6, EmptySeq
  <2>8. closer \in [Closers -> Int] /\ \A c \in Closers : closer[c] = 0
    BY <2>1 DEF NetconfInit
  <2> QED BY <2>3, <2>4, <2>5, <2>6, <2>7, <2>8
          DEF NetconfInv, NetconfTypes, QueueOfTheServer, WaitingAreQueued, ClosersCameLater
<1>2. NetconfInv /\ [NetconfNext]_netconfVars => NetconfInv'
  <2> SUFFICES ASSUME NetconfInv, UNCHANGED netconfVars
               PROVE  NetconfInv'
    BY NetconfStep
  <2> QED BY DEF netconfVars, NetconfInv, NetconfTypes, QueueOfTheServer, WaitingAreQueued,
                 ClosersCameLater
<1> QED BY <1>1, <1>2, PTL DEF NetconfSpec

\* A call gets the reply to its own RPC or none, with its id or without, whatever
\* timed out, was cancelled or came late; the queue of an open session is that of
\* the server, and no call of a closed session waits under its timer
\* (dispatch, rpc and shutdown, client.ts:156-225).
THEOREM RepliesStayMatched == NetconfSpec => []RepliesFindTheirCalls
<1>1. NetconfInv => RepliesFindTheirCalls
  <2> SUFFICES ASSUME NetconfInv
               PROVE  RepliesFindTheirCalls
    OBVIOUS
  <2>1. NetconfTypes /\ QueueOfTheServer /\ WaitingAreQueued
    BY DEF NetconfInv
  <2>2. ASSUME NEW i \in Rpc
        PROVE  /\ call[i].outcome # "wrong reply"
               /\ call[i].timer <=> call[i].outcome = "waiting"
    <3>1. call[i] \in Call /\ CallOK(call[i])
      BY <2>1 DEF NetconfTypes
    <3> QED BY <3>1 DEF Call, Outcome, CallOK
  <2> QED BY <2>1, <2>2 DEF QueueOfTheServer, WaitingAreQueued, RepliesFindTheirCalls
<1> QED BY <1>1, NetconfInvHolds, PTL

-----------------------------------------------------------------------------
(* The runs of scripts (ScriptRuns) *)

RunState ==
  [state : States, listed : BOOLEAN, lease : BOOLEAN, channel : BOOLEAN,
   exit : {"none", "zero", "other"}, job : {"unknown", "known", "given up"},
   held : Nat, output : Nat, printed : Nat, timer : BOOLEAN, kill : BOOLEAN]

EndOfRun == {"completed", "failed", "cancelled", "timed-out"}

\* Why a run has its lease: the channel of one that has ended is open only while
\* its processes, known by their marker, are being killed over it.
RunOK(run) ==
  /\ run.lease <=> run.state \in {"starting", "running"} \/ (run.kill /\ run.channel)
  /\ run.state = "running" => run.listed /\ run.channel
  /\ run.timer => run.state = "running"
  /\ run.kill => run.state \in EndOfRun
  /\ run.channel => run.state = "running" \/ (run.state \in EndOfRun /\ run.job = "known")
  /\ run.listed => run.state = "running" \/ run.state \in EndOfRun
  \* held back is only what came before the marker
  /\ run.output + run.held = run.printed
  /\ run.job # "unknown" => run.held = 0
  /\ run.state \in EndOfRun => run.held = 0

StartedRuns == {r \in Run : runs[r].state # "none"}

ScriptInv ==
  /\ runs \in [Run -> RunState] /\ \A r \in Run : RunOK(runs[r])
  /\ finished \in Seq(Run) /\ connected \in BOOLEAN
  /\ \A r \in Run : runs[r].state \in {"starting", "running"} => connected
  /\ \A r \in ToSet(finished) : HasEnded(r)
  /\ OnlyEndedAreDropped
  /\ IsFiniteSet(StartedRuns)


\* What Finish() leaves alone.
KeepsItsFields(e, run) ==
  /\ e.listed = run.listed /\ e.lease = run.lease /\ e.channel = run.channel
  /\ e.kill = run.kill /\ e.job = run.job /\ e.printed = run.printed

\* The first end of a run is the one that counts.
LEMMA FinishEffect ==
  ASSUME NEW run \in RunState, NEW s \in EndOfRun
  PROVE  LET e == Finish(run, s)
         IN  /\ e \in RunState /\ KeepsItsFields(e, run)
             /\ run.state # "running" => e = run
             /\ run.state = "running" =>
                  e.state = s /\ ~e.timer /\ e.output = run.output + run.held /\ e.held = 0
<1>1. CASE run.state # "running"
  BY <1>1 DEF Finish, KeepsItsFields
<1>2. CASE run.state = "running"
  <2>1. s \in States /\ FALSE \in BOOLEAN
    BY DEF EndOfRun, States
  <2>2. 0 \in Nat /\ run.output + run.held \in Nat
    <3>1. run.output \in Nat /\ run.held \in Nat
      BY DEF RunState
    <3> QED BY <3>1
  <2>3. Finish(run, s) = [run EXCEPT !.state = s, !.timer = FALSE,
                                     !.output = run.output + run.held, !.held = 0]
    BY <1>2 DEF Finish
  <2> QED BY <1>2, <2>1, <2>2, <2>3, ZenonT(40) DEF RunState, KeepsItsFields
<1> QED BY <1>1, <1>2

LEMMA LetGoEffect ==
  ASSUME NEW run \in RunState
  PROVE  LET e == LetGo(run)
         IN  /\ e \in RunState /\ ~e.lease /\ ~e.kill /\ ~e.channel
             /\ e.state = run.state /\ e.listed = run.listed /\ e.timer = run.timer
             /\ e.job = run.job
             /\ e.output = run.output /\ e.held = run.held /\ e.printed = run.printed
BY DEF LetGo, LeaseReleased, RunState

LEMMA LeaseReleasedEffect ==
  ASSUME NEW run \in RunState
  PROVE  LET e == LeaseReleased(run)
         IN  /\ e \in RunState /\ ~e.lease /\ e.kill = run.kill /\ e.channel = run.channel
             /\ e.state = run.state /\ e.listed = run.listed /\ e.timer = run.timer
             /\ e.job = run.job
             /\ e.output = run.output /\ e.held = run.held /\ e.printed = run.printed
BY DEF LeaseReleased, RunState

LEMMA ChannelClosedEffect ==
  ASSUME NEW run \in RunState
  PROVE  LET e == [run EXCEPT !.channel = FALSE]
         IN  /\ e \in RunState /\ ~e.channel /\ e.lease = run.lease /\ e.kill = run.kill
             /\ e.state = run.state /\ e.listed = run.listed /\ e.timer = run.timer
             /\ e.job = run.job
             /\ e.output = run.output /\ e.held = run.held /\ e.printed = run.printed
BY DEF RunState

\* A running script that is stopped is let go, or has its processes killed first.
LEMMA StoppedOK ==
  ASSUME NEW run \in RunState, RunOK(run), run.state = "running",
         NEW s \in {"cancelled", "timed-out"}
  PROVE  LET e == StoppedRun(run, s)
         IN  e \in RunState /\ RunOK(e) /\ e.state = s /\ e.listed = run.listed
<1> DEFINE f == Finish(run, s)
<1>1. s \in EndOfRun /\ s \notin {"starting", "running"}
  BY DEF EndOfRun
<1>2. /\ f \in RunState /\ KeepsItsFields(f, run)
      /\ f.state = s /\ ~f.timer /\ f.output = run.output + run.held /\ f.held = 0
  BY <1>1, FinishEffect
<1>3. StoppedRun(run, s) = IF run.job = "known" THEN [f EXCEPT !.kill = TRUE] ELSE LetGo(f)
  BY DEF StoppedRun
<1> HIDE DEF f
<1>4. run.lease /\ run.channel /\ run.listed
  BY DEF RunOK
<1>5. f.output + f.held = f.printed
  <2>1. run.output \in Nat /\ run.held \in Nat /\ run.output + run.held = run.printed
    BY DEF RunState, RunOK
  <2> QED BY <1>2, <2>1 DEF KeepsItsFields
<1>6. CASE run.job = "known"
  <2> DEFINE e == [f EXCEPT !.kill = TRUE]
  <2>1. TRUE \in BOOLEAN
    OBVIOUS
  <2>2. /\ e \in RunState /\ e.kill /\ e.channel = f.channel /\ e.lease = f.lease
        /\ e.state = f.state /\ e.listed = f.listed /\ e.timer = f.timer /\ e.job = f.job
        /\ e.output = f.output /\ e.held = f.held /\ e.printed = f.printed
    BY <1>2, <2>1 DEF RunState
  <2>3. StoppedRun(run, s) = e
    BY <1>3, <1>6
  <2> HIDE DEF e
  <2>4. RunOK(e)
    BY <1>1, <1>2, <1>4, <1>5, <1>6, <2>2 DEF RunOK, KeepsItsFields
  <2> QED BY <1>2, <2>2, <2>3, <2>4 DEF KeepsItsFields
<1>7. CASE run.job # "known"
  <2> DEFINE e == LetGo(f)
  <2>1. /\ e \in RunState /\ ~e.lease /\ ~e.kill /\ ~e.channel
        /\ e.state = f.state /\ e.listed = f.listed /\ e.timer = f.timer /\ e.job = f.job
        /\ e.output = f.output /\ e.held = f.held /\ e.printed = f.printed
    BY <1>2, LetGoEffect
  <2>2. StoppedRun(run, s) = e
    BY <1>3, <1>7
  <2> HIDE DEF e
  <2>3. RunOK(e)
    BY <1>1, <1>2, <1>5, <2>1 DEF RunOK
  <2> QED BY <1>2, <2>1, <2>2, <2>3 DEF KeepsItsFields
<1> QED BY <1>6, <1>7

\* A channel that closes ends a run that goes on, and gives its lease back.
LEMMA ClosedOK ==
  ASSUME NEW run \in RunState, RunOK(run), run.channel, NEW s \in {"completed", "failed"}
  PROVE  LET e == LeaseReleased(Finish([run EXCEPT !.channel = FALSE], s))
         IN  /\ e \in RunState /\ RunOK(e) /\ e.listed = run.listed
             /\ e.state = IF run.state = "running" THEN s ELSE run.state
<1> DEFINE c == [run EXCEPT !.channel = FALSE]
           f == Finish(c, s)
           e == LeaseReleased(f)
<1>1. s \in EndOfRun /\ s \notin {"starting", "running"}
  BY DEF EndOfRun
<1>2. /\ c \in RunState /\ ~c.channel /\ c.lease = run.lease /\ c.kill = run.kill
      /\ c.state = run.state /\ c.listed = run.listed /\ c.timer = run.timer /\ c.job = run.job
      /\ c.output = run.output /\ c.held = run.held /\ c.printed = run.printed
  BY ChannelClosedEffect
<1> HIDE DEF c
<1>3. /\ f \in RunState /\ KeepsItsFields(f, c) /\ (c.state # "running" => f = c)
      /\ c.state = "running" =>
           f.state = s /\ ~f.timer /\ f.output = c.output + c.held /\ f.held = 0
  BY <1>1, <1>2, FinishEffect
<1> HIDE DEF f
<1>4. /\ e \in RunState /\ ~e.lease /\ e.kill = f.kill /\ e.channel = f.channel
      /\ e.state = f.state /\ e.listed = f.listed /\ e.timer = f.timer /\ e.job = f.job
      /\ e.output = f.output /\ e.held = f.held /\ e.printed = f.printed
  BY <1>3, LeaseReleasedEffect
<1>5. run.output \in Nat /\ run.held \in Nat /\ run.output + run.held = run.printed
  BY DEF RunState, RunOK
<1>6. /\ e.state = IF run.state = "running" THEN s ELSE run.state
      /\ e.listed = run.listed /\ e.kill = run.kill /\ ~e.channel
  BY <1>2, <1>3, <1>4 DEF KeepsItsFields
<1>7. RunOK(e)
  <2>1. CASE run.state = "running"
    <3>1. e.held = 0 /\ e.output = run.output + run.held /\ e.printed = run.printed
      BY <1>2, <1>3, <1>4, <2>1 DEF KeepsItsFields
    <3>2. e.output + e.held = e.printed
      BY <1>5, <3>1
    <3>3. ~e.timer /\ ~run.kill
      BY <1>2, <1>3, <1>4, <2>1 DEF RunOK, EndOfRun
    <3> QED BY <1>1, <1>4, <1>6, <2>1, <3>1, <3>2, <3>3 DEF RunOK
  <2>2. CASE run.state # "running"
    <3>1. f = c
      BY <1>2, <1>3, <2>2
    <3>2. run.state \in EndOfRun /\ run.state \notin {"starting", "running"}
      BY <2>2 DEF RunOK, EndOfRun
    <3> QED BY <1>2, <1>4, <1>5, <1>6, <3>1, <3>2 DEF RunOK
  <2> QED BY <2>1, <2>2
<1> HIDE DEF e
<1>8. e \in RunState /\ RunOK(e) /\ e.listed = run.listed
      /\ e.state = IF run.state = "running" THEN s ELSE run.state
  BY <1>4, <1>6, <1>7
<1> QED BY <1>8 DEF e, f, c

\* The loss of the connection refuses a run that starts and fails one that runs.
LEMMA LostOK ==
  ASSUME NEW run \in RunState, RunOK(run)
  PROVE  LET e == [LostRun(run) EXCEPT !.channel = FALSE]
         IN  /\ e \in RunState /\ RunOK(e) /\ e.listed = run.listed
             /\ e.state = IF run.state = "starting" THEN "refused"
                          ELSE IF run.state = "running" THEN "failed" ELSE run.state
<1> DEFINE l == LostRun(run)
           e == [l EXCEPT !.channel = FALSE]
<1>1. /\ l \in RunState => e \in RunState /\ ~e.channel /\ e.lease = l.lease /\ e.kill = l.kill
                           /\ e.state = l.state /\ e.listed = l.listed /\ e.timer = l.timer
                           /\ e.job = l.job
                           /\ e.output = l.output /\ e.held = l.held /\ e.printed = l.printed
  <2> HIDE DEF l
  <2> QED BY ChannelClosedEffect
<1>2. run.output \in Nat /\ run.held \in Nat /\ run.output + run.held = run.printed
  BY DEF RunState, RunOK
<1>3. /\ l \in RunState /\ ~l.lease /\ l.kill = run.kill /\ l.listed = run.listed
      /\ l.state = IF run.state = "starting" THEN "refused"
                   ELSE IF run.state = "running" THEN "failed" ELSE run.state
      /\ l.job = run.job /\ l.printed = run.printed /\ l.output + l.held = l.printed
      /\ run.state # "running" => l.timer = run.timer /\ l.held = run.held
      /\ run.state = "running" => ~l.timer /\ l.held = 0
  <2>1. CASE run.state = "starting"
    <3> DEFINE r == LeaseReleased(run)
    <3>1. /\ r \in RunState /\ ~r.lease /\ r.kill = run.kill /\ r.channel = run.channel
          /\ r.state = run.state /\ r.listed = run.listed /\ r.timer = run.timer
          /\ r.job = run.job
          /\ r.output = run.output /\ r.held = run.held /\ r.printed = run.printed
      BY LeaseReleasedEffect
    <3>2. l = [r EXCEPT !.state = "refused"]
      BY <2>1 DEF LostRun
    <3> HIDE DEF r, l
    <3>3. "refused" \in States
      BY DEF States
    <3>4. /\ l \in RunState /\ l.lease = r.lease /\ l.kill = r.kill /\ l.listed = r.listed
          /\ l.state = "refused" /\ l.timer = r.timer /\ l.job = r.job
          /\ l.output = r.output /\ l.held = r.held /\ l.printed = r.printed
      BY <3>1, <3>2, <3>3 DEF RunState
    <3> QED BY <1>2, <2>1, <3>1, <3>4
  <2>2. CASE run.state # "starting" /\ run.lease
    <3> DEFINE f == Finish(run, "failed")
    <3>1. "failed" \in EndOfRun
      BY DEF EndOfRun
    <3>2. /\ f \in RunState /\ KeepsItsFields(f, run) /\ (run.state # "running" => f = run)
          /\ run.state = "running" =>
               f.state = "failed" /\ ~f.timer /\ f.output = run.output + run.held /\ f.held = 0
      BY <3>1, FinishEffect
    <3>3. l = LeaseReleased(f)
      BY <2>2 DEF LostRun
    <3> HIDE DEF f, l
    <3>4. /\ l \in RunState /\ ~l.lease /\ l.kill = f.kill
          /\ l.state = f.state /\ l.listed = f.listed /\ l.timer = f.timer /\ l.job = f.job
          /\ l.output = f.output /\ l.held = f.held /\ l.printed = f.printed
      BY <3>2, <3>3, LeaseReleasedEffect
    <3>5. CASE run.state = "running"
      <4>1. l.output = run.output + run.held /\ l.held = 0 /\ l.printed = run.printed
        BY <3>2, <3>4, <3>5 DEF KeepsItsFields
      <4>2. l.output + l.held = l.printed
        BY <1>2, <4>1
      <4> QED BY <2>2, <3>2, <3>4, <3>5, <4>1, <4>2 DEF KeepsItsFields
    <3>6. CASE run.state # "running"
      <4>1. f = run
        BY <3>2, <3>6
      <4> QED BY <1>2, <2>2, <3>4, <3>6, <4>1
    <3> QED BY <3>5, <3>6
  <2>3. CASE run.state # "starting" /\ ~run.lease
    <3>1. l = run
      BY <2>3 DEF LostRun
    <3>2. run.state # "running"
      BY <2>3 DEF RunOK
    <3> HIDE DEF l
    <3> QED BY <1>2, <2>3, <3>1, <3>2
  <2> QED BY <2>1, <2>2, <2>3
<1> HIDE DEF l
<1>4. e \in RunState /\ ~e.channel /\ e.lease = l.lease /\ e.kill = l.kill
      /\ e.state = l.state /\ e.listed = l.listed /\ e.timer = l.timer /\ e.job = l.job
      /\ e.output = l.output /\ e.held = l.held /\ e.printed = l.printed
  BY <1>1, <1>3
<1> HIDE DEF e
<1>5. e.state \notin {"starting", "running"}
  BY <1>3, <1>4
<1>6. e.listed = run.listed
  BY <1>3, <1>4
<1>7. RunOK(e)
  <2>1. run.kill => run.state \in EndOfRun
    BY DEF RunOK
  <2>2. e.kill => e.state \in EndOfRun
    BY <1>3, <1>4, <2>1 DEF EndOfRun
  <2>3. ~e.timer
    <3>1. CASE run.state = "running"
      BY <1>3, <1>4, <3>1
    <3>2. CASE run.state # "running"
      <4>1. ~run.timer
        BY <3>2 DEF RunOK
      <4> QED BY <1>3, <1>4, <3>2, <4>1
    <3> QED BY <3>1, <3>2
  <2>4. e.listed => e.state \in EndOfRun
    <3>1. run.listed => run.state = "running" \/ run.state \in EndOfRun
      BY DEF RunOK
    <3> QED BY <1>3, <1>4, <1>6, <3>1 DEF EndOfRun
  <2>5. /\ e.job # "unknown" => e.held = 0
        /\ e.state \in EndOfRun => e.held = 0
    <3>1. CASE run.state = "running"
      BY <1>3, <1>4, <3>1
    <3>2. CASE run.state # "running"
      <4>1. e.held = run.held /\ e.job = run.job
        BY <1>3, <1>4, <3>2
      <4>2. e.state \in EndOfRun => run.state \in EndOfRun
        BY <1>3, <1>4, <3>2 DEF EndOfRun
      <4> QED BY <4>1, <4>2 DEF RunOK
    <3> QED BY <3>1, <3>2
  <2>6. e.output + e.held = e.printed
    BY <1>3, <1>4
  <2> QED BY <1>3, <1>4, <1>5, <2>2, <2>3, <2>4, <2>5, <2>6 DEF RunOK
<1>8. /\ e \in RunState /\ RunOK(e) /\ e.listed = run.listed
      /\ e.state = IF run.state = "starting" THEN "refused"
                   ELSE IF run.state = "running" THEN "failed" ELSE run.state
  BY <1>3, <1>4, <1>6, <1>7
<1> QED BY <1>8 DEF e, l

\* Any order of a finite set lists all of it.
LEMMA OrderOfSet ==
  ASSUME NEW S, IsFiniteSet(S), NEW order \in SetToSeqs(S)
  PROVE  order \in Seq(S) /\ ToSet(order) = S
<1> DEFINE n == Cardinality(S)
<1>1. n \in Nat
  BY FS_CardinalityType
<1>2. order \in [1 .. n -> S] /\ \A i, j \in 1 .. n : i # j => order[i] # order[j]
  BY DEF SetToSeqs
<1>3. order \in Injection(1 .. n, S)
  BY <1>2 DEF Injection, IsInjective
<1>4. Cardinality(1 .. n) = n
  <2>1. Cardinality(1 .. n) = IF 1 > n THEN 0 ELSE n - 1 + 1
    BY <1>1, FS_Interval
  <2> HIDE DEF n
  <2> QED BY <1>1, <2>1
<1> HIDE DEF n
<1>5. order \in Surjection(1 .. n, S)
  <2>1. Cardinality(1 .. n) = Cardinality(S) <=> order \in Surjection(1 .. n, S)
    BY <1>3, FS_Injection
  <2> QED BY <1>4, <2>1 DEF n
<1>6. order \in Seq(S)
  BY <1>1, <1>2, SeqDef
<1>7. ToSet(order) = S
  BY <1>2, <1>5 DEF ToSet, Surjection
<1> QED BY <1>6, <1>7

\* What is appended is listed behind what was there.
LEMMA SetOfConcat ==
  ASSUME NEW S, NEW s \in Seq(S), NEW t \in Seq(S)
  PROVE  s \o t \in Seq(S) /\ ToSet(s \o t) = ToSet(s) \union ToSet(t)
<1>1. /\ Len(s) \in Nat /\ DOMAIN s = 1 .. Len(s)
      /\ Len(t) \in Nat /\ DOMAIN t = 1 .. Len(t)
  BY LenProperties
<1>2. /\ s \o t \in Seq(S) /\ Len(s \o t) = Len(s) + Len(t)
      /\ \A i \in 1 .. Len(s) + Len(t) :
           (s \o t)[i] = IF i <= Len(s) THEN s[i] ELSE t[i - Len(s)]
  BY ConcatProperties
<1> DEFINE r == s \o t
<1>3. DOMAIN r = 1 .. Len(s) + Len(t)
  BY <1>2, LenProperties
<1> HIDE DEF r
<1>4. \A i \in 1 .. Len(s) : i \in DOMAIN r /\ r[i] = s[i]
  BY <1>1, <1>2, <1>3 DEF r
<1>5. \A i \in 1 .. Len(t) : Len(s) + i \in DOMAIN r /\ r[Len(s) + i] = t[i]
  <2>1. SUFFICES ASSUME NEW i \in 1 .. Len(t)
                 PROVE  Len(s) + i \in DOMAIN r /\ r[Len(s) + i] = t[i]
    OBVIOUS
  <2>2. Len(s) + i \in 1 .. Len(s) + Len(t) /\ ~(Len(s) + i <= Len(s))
        /\ (Len(s) + i) - Len(s) = i
    BY <1>1
  <2> QED BY <1>2, <1>3, <2>2 DEF r
<1>6. ASSUME NEW i \in DOMAIN r
      PROVE  r[i] \in ToSet(s) \union ToSet(t)
  <2>1. CASE i <= Len(s)
    BY <1>1, <1>3, <1>4, <2>1 DEF ToSet
  <2>2. CASE ~(i <= Len(s))
    <3>1. i - Len(s) \in 1 .. Len(t) /\ Len(s) + (i - Len(s)) = i
      BY <1>1, <1>3, <2>2
    <3> QED BY <1>1, <1>5, <3>1 DEF ToSet
  <2> QED BY <2>1, <2>2
<1>7. ToSet(r) = ToSet(s) \union ToSet(t)
  <2>1. ToSet(s) \subseteq ToSet(r)
    BY <1>1, <1>4 DEF ToSet
  <2>2. ToSet(t) \subseteq ToSet(r)
    BY <1>1, <1>5 DEF ToSet
  <2>3. ToSet(r) \subseteq ToSet(s) \union ToSet(t)
    BY <1>6 DEF ToSet
  <2> QED BY <2>1, <2>2, <2>3
<1> QED BY <1>2, <1>7 DEF r

\* One run changes; it is queued when it ends.
LEMMA OneRunStep ==
  ASSUME ScriptInv, NEW r \in Run, NEW run \in RunState, RunOK(run),
         runs' = [runs EXCEPT ![r] = run], UNCHANGED connected,
         run.state \in {"starting", "running"} => connected,
         \/ /\ finished' = finished
            /\ runs[r].state \in EndOfRun => run.state \in EndOfRun
            /\ run.listed => run.state = "running" \/ (runs[r].listed /\ ~IsRunning(r))
         \/ finished' = Append(finished, r) /\ run.state \in EndOfRun
  PROVE  ScriptInv'
<1>1. /\ runs \in [Run -> RunState] /\ finished \in Seq(Run)
      /\ \A q \in Run : RunOK(runs[q])
      /\ \A q \in ToSet(finished) : runs[q].state \in EndOfRun
  BY DEF ScriptInv, HasEnded, EndOfRun
<1>2. runs' \in [Run -> RunState] /\ \A q \in Run : runs'[q] = IF q = r THEN run ELSE runs[q]
  BY <1>1
<1>3. \A q \in Run : RunOK(runs'[q])
  BY <1>1, <1>2
<1>4. \A q \in Run : runs'[q].state \in {"starting", "running"} => connected'
  BY <1>2 DEF ScriptInv
<1>5. ToSet(finished) \subseteq Run
  BY <1>1, ElementOfSeq, LenProperties DEF ToSet
<1>6. /\ finished' \in Seq(Run) /\ (\A q \in ToSet(finished') : runs'[q].state \in EndOfRun)
      /\ \A q \in Run : runs'[q].listed => runs'[q].state = "running" \/ q \in ToSet(finished')
  <2>1. CASE /\ finished' = finished
             /\ runs[r].state \in EndOfRun => run.state \in EndOfRun
             /\ run.listed => run.state = "running" \/ (runs[r].listed /\ ~IsRunning(r))
    BY <1>1, <1>2, <1>5, <2>1 DEF ScriptInv, OnlyEndedAreDropped, IsRunning
  <2>2. CASE finished' = Append(finished, r) /\ run.state \in EndOfRun
    <3>1. <<r>> \in Seq(Run) /\ ToSet(<<r>>) = {r}
      BY DEF ToSet
    <3>2. Append(finished, r) = finished \o <<r>>
      BY <1>1, AppendIsConcat
    <3>3. finished' \in Seq(Run) /\ ToSet(finished') = ToSet(finished) \union {r}
      <4>1. /\ finished \o <<r>> \in Seq(Run)
            /\ ToSet(finished \o <<r>>) = ToSet(finished) \union ToSet(<<r>>)
        <5>1. finished \in Seq(Run) /\ <<r>> \in Seq(Run)
          BY <1>1, <3>1
        <5> QED BY <5>1, SetOfConcat, ZenonT(40)
      <4>2. finished' = finished \o <<r>>
        BY <2>2, <3>2
      <4> QED BY <3>1, <4>1, <4>2
    <3> QED BY <1>1, <1>2, <1>5, <2>2, <3>3 DEF ScriptInv, OnlyEndedAreDropped, IsRunning
  <2> QED BY <2>1, <2>2
<1>7. IsFiniteSet(StartedRuns')
  <2>1. IsFiniteSet(StartedRuns \union {r})
    BY FS_AddElement DEF ScriptInv
  <2>2. StartedRuns' \in SUBSET (StartedRuns \union {r})
    BY <1>2 DEF StartedRuns
  <2> QED BY <2>1, <2>2, FS_Subset
<1> QED BY <1>2, <1>3, <1>4, <1>6, <1>7
        DEF ScriptInv, HasEnded, EndOfRun, OnlyEndedAreDropped, IsRunning

\* Several runs end at once, and are queued in any order.
LEMMA ManyRunsEnd ==
  ASSUME ScriptInv, NEW E \in SUBSET Run, E \subseteq {r \in Run : IsRunning(r)},
         NEW order \in SetToSeqs(E), finished' = finished \o order,
         runs' \in [Run -> RunState], \A r \in Run : RunOK(runs'[r]), connected' \in BOOLEAN,
         \A r \in Run : runs'[r].state \in {"starting", "running"} => connected',
         \A r \in Run : runs'[r].listed = runs[r].listed,
         \A r \in E : runs'[r].state \in EndOfRun,
         \A r \in Run : runs[r].state \in EndOfRun => runs'[r].state \in EndOfRun,
         \A r \in Run : runs[r].state = "none" => runs'[r].state = "none",
         \A r \in Run \ E : IsRunning(r) => runs'[r].state = "running"
  PROVE  ScriptInv'
<1>1. /\ finished \in Seq(Run) /\ \A q \in ToSet(finished) : runs[q].state \in EndOfRun
  BY DEF ScriptInv, HasEnded, EndOfRun
<1>2. ToSet(finished) \subseteq Run
  BY <1>1, ElementOfSeq, LenProperties DEF ToSet
<1>3. IsFiniteSet(E)
  <2>1. E \in SUBSET StartedRuns
    BY DEF StartedRuns, IsRunning
  <2> QED BY <2>1, FS_Subset DEF ScriptInv
<1>4. order \in Seq(E) /\ ToSet(order) = E
  BY <1>3, OrderOfSet
<1>5. order \in Seq(Run)
  BY <1>4, SeqMonotonic
<1>6. finished' \in Seq(Run) /\ ToSet(finished') = ToSet(finished) \union E
  BY <1>1, <1>4, <1>5, SetOfConcat
<1>7. \A q \in ToSet(finished') : runs'[q].state \in EndOfRun
  BY <1>1, <1>2, <1>6
<1>8. ASSUME NEW q \in Run, runs'[q].listed
      PROVE  runs'[q].state = "running" \/ q \in ToSet(finished')
  <2>1. IsRunning(q) \/ q \in ToSet(finished)
    BY <1>8 DEF ScriptInv, OnlyEndedAreDropped
  <2> QED BY <1>6, <2>1
<1>9. IsFiniteSet(StartedRuns')
  <2>1. StartedRuns' \in SUBSET StartedRuns
    BY DEF StartedRuns
  <2> QED BY <2>1, FS_Subset DEF ScriptInv
<1> QED BY <1>6, <1>7, <1>8, <1>9
        DEF ScriptInv, HasEnded, EndOfRun, OnlyEndedAreDropped, IsRunning

\* What is kept of the queue when it is pruned was in it.
LEMMA KeptWasQueued ==
  ASSUME ScriptInv, NEW expired \in 0 .. Len(finished)
  PROVE  LET kept == Newest(SubSeq(finished, expired + 1, Len(finished)))
         IN  kept \in Seq(Run) /\ ToSet(kept) \subseteq ToSet(finished)
<1>1. /\ finished \in Seq(Run) /\ Len(finished) \in Nat /\ DOMAIN finished = 1 .. Len(finished)
  BY LenProperties DEF ScriptInv
<1>2. ASSUME NEW s \in Seq(Run), NEW m \in Nat
      PROVE  LET t == SubSeq(s, m + 1, Len(s))
             IN  t \in Seq(Run) /\ ToSet(t) \subseteq ToSet(s)
  <2> DEFINE t == SubSeq(s, m + 1, Len(s))
  <2>1. Len(s) \in Nat /\ DOMAIN s = 1 .. Len(s) /\ \A i \in 1 .. Len(s) : s[i] \in Run
    BY LenProperties, ElementOfSeq
  <2>2. \A i \in m + 1 .. Len(s) : i \in 1 .. Len(s) /\ s[i] \in ToSet(s) /\ s[i] \in Run
    BY <2>1 DEF ToSet
  <2>3. t \in Seq(Run) /\ t \in Seq(ToSet(s))
    <3>1. m + 1 \in Int /\ Len(s) \in Int
      BY <2>1
    <3> QED BY <2>2, <3>1, SubSeqProperties
  <2> HIDE DEF t
  <2>4. ToSet(t) \subseteq ToSet(s)
    <3>1. Len(t) \in Nat /\ DOMAIN t = 1 .. Len(t) /\ \A i \in 1 .. Len(t) : t[i] \in ToSet(s)
      BY <2>3, LenProperties, ElementOfSeq
    <3> QED BY <3>1 DEF ToSet
  <2> QED BY <2>3, <2>4 DEF t
<1> DEFINE late == SubSeq(finished, expired + 1, Len(finished))
           size == Cardinality(ListedRuns) - (Len(finished) - Len(late))
           drop == IF size < MaxRuns THEN 0 ELSE size - MaxRuns + 1
           cut == IF drop < Len(late) THEN drop ELSE Len(late)
<1>3. late \in Seq(Run) /\ ToSet(late) \subseteq ToSet(finished)
  BY <1>1, <1>2
<1>4. Newest(late) = SubSeq(late, cut + 1, Len(late))
  BY DEF Newest
<1> HIDE DEF late
<1>5. Cardinality(ListedRuns) \in Nat
  <2>1. ListedRuns \in SUBSET StartedRuns
    BY DEF ScriptInv, RunOK, ListedRuns, StartedRuns, EndOfRun
  <2>2. IsFiniteSet(ListedRuns)
    BY <2>1, FS_Subset DEF ScriptInv
  <2> QED BY <2>2, FS_CardinalityType
<1>6. cut \in Nat
  <2>1. Len(late) \in Nat
    BY <1>3, LenProperties
  <2>2. size \in Int
    BY <1>1, <1>5, <2>1
  <2> HIDE DEF size
  <2>3. drop \in Nat
    BY <2>2, ScriptAssumption
  <2> HIDE DEF drop
  <2> QED BY <2>1, <2>3
<1> HIDE DEF cut
<1> QED BY <1>2, <1>3, <1>4, <1>6 DEF late

LEMMA StartKeeps ==
  ASSUME ScriptInv, NEW r \in Run, StartRun(r)
  PROVE  ScriptInv'
<1>1. /\ runs \in [Run -> RunState] /\ finished \in Seq(Run)
      /\ \A q \in Run : RunOK(runs[q])
      /\ \A q \in ToSet(finished) : runs[q].state \in EndOfRun
  BY DEF ScriptInv, HasEnded, EndOfRun
<1>2. runs[r].state = "none" /\ connected /\ UNCHANGED connected
  BY DEF StartRun
<1>3. PICK expired \in 0 .. Len(finished) :
        /\ finished' = Newest(SubSeq(finished, expired + 1, Len(finished)))
        /\ runs' = [Pruned(finished') EXCEPT ![r].state = "starting", ![r].lease = TRUE]
  BY DEF StartRun
<1>4. finished' \in Seq(Run) /\ ToSet(finished') \subseteq ToSet(finished)
  BY <1>3, KeptWasQueued
<1> DEFINE p == Pruned(finished')
           run == [runs[r] EXCEPT !.state = "starting", !.lease = TRUE]
<1>5. ASSUME NEW q \in Run
      PROVE  /\ p[q] \in RunState /\ RunOK(p[q]) /\ p[q].state = runs[q].state
             /\ p[q].listed => runs[q].listed /\ q \notin ToSet(finished) \ ToSet(finished')
             /\ q \notin ToSet(finished) => p[q] = runs[q]
  <2>1. CASE q \in ToSet(finished) \ ToSet(finished')
    <3> DEFINE e == [runs[q] EXCEPT !.listed = FALSE]
    <3>1. p[q] = e
      BY <2>1 DEF Pruned
    <3>2. runs[q] \in RunState /\ FALSE \in BOOLEAN /\ runs[q].state \in EndOfRun
      BY <1>1, <2>1
    <3>3. /\ e \in RunState /\ ~e.listed /\ e.lease = runs[q].lease /\ e.kill = runs[q].kill
          /\ e.state = runs[q].state /\ e.channel = runs[q].channel /\ e.timer = runs[q].timer
          /\ e.job = runs[q].job /\ e.output = runs[q].output /\ e.held = runs[q].held
          /\ e.printed = runs[q].printed
      BY <3>2 DEF RunState
    <3> HIDE DEF e, p
    <3>4. RunOK(runs[q]) /\ runs[q].state # "running"
      BY <1>1, <3>2 DEF EndOfRun
    <3>5. RunOK(e)
      BY <3>3, <3>4 DEF RunOK
    <3> QED BY <2>1, <3>1, <3>3, <3>5
  <2>2. CASE q \notin ToSet(finished) \ ToSet(finished')
    <3>1. p[q] = runs[q]
      BY <2>2 DEF Pruned
    <3> HIDE DEF p
    <3> QED BY <1>1, <2>2, <3>1
  <2> QED BY <2>1, <2>2
<1>6. r \notin ToSet(finished)
  BY <1>1, <1>2 DEF EndOfRun
<1>7. p \in [Run -> RunState]
  <2>1. p = [q \in Run |-> p[q]]
    BY DEF Pruned
  <2> HIDE DEF p
  <2> QED BY <1>5, <2>1
<1>8. runs' = [p EXCEPT ![r] = run]
  <2>1. p[r] = runs[r]
    BY <1>5, <1>6
  <2>2. runs' = [p EXCEPT ![r] = [p[r] EXCEPT !.state = "starting", !.lease = TRUE]]
    <3> HIDE DEF p
    <3>1. runs' = [p EXCEPT ![r].state = "starting", ![r].lease = TRUE]
      BY <1>3 DEF p
    <3> QED BY <1>7, <3>1 DEF RunState
  <2> QED BY <2>1, <2>2
<1>9. run \in RunState /\ RunOK(run) /\ run.state = "starting" /\ ~run.listed
  <2>1. "starting" \in States /\ TRUE \in BOOLEAN /\ runs[r] \in RunState
    BY <1>1 DEF States
  <2>2. /\ run \in RunState /\ run.listed = runs[r].listed /\ run.lease
        /\ run.kill = runs[r].kill /\ run.state = "starting" /\ run.channel = runs[r].channel
        /\ run.timer = runs[r].timer /\ run.job = runs[r].job /\ run.output = runs[r].output
        /\ run.held = runs[r].held /\ run.printed = runs[r].printed
    BY <2>1 DEF RunState
  <2>3. ~runs[r].listed /\ ~runs[r].kill /\ ~runs[r].channel /\ ~runs[r].timer
    BY <1>1, <1>2 DEF RunOK, EndOfRun
  <2>4. "starting" \notin EndOfRun /\ "starting" # "running"
    BY DEF EndOfRun
  <2> HIDE DEF run
  <2>5. RunOK(runs[r])
    BY <1>1
  <2> QED BY <2>2, <2>3, <2>4, <2>5 DEF RunOK
<1> HIDE DEF p, run
<1>10. runs' \in [Run -> RunState] /\ \A q \in Run : runs'[q] = IF q = r THEN run ELSE p[q]
  BY <1>7, <1>8, <1>9
<1>11. \A q \in Run : RunOK(runs'[q])
  BY <1>5, <1>9, <1>10
<1>12. \A q \in ToSet(finished') : runs'[q].state \in EndOfRun
  <2>1. ToSet(finished') \subseteq Run
    BY <1>4, ElementOfSeq, LenProperties DEF ToSet
  <2> QED BY <1>1, <1>4, <1>5, <1>6, <1>10, <2>1
<1>13. ASSUME NEW q \in Run, runs'[q].listed
       PROVE  runs'[q].state = "running" \/ q \in ToSet(finished')
  <2>1. q # r /\ runs[q].listed /\ q \notin ToSet(finished) \ ToSet(finished')
    BY <1>5, <1>9, <1>10, <1>13
  <2>2. runs[q].state = "running" \/ q \in ToSet(finished)
    BY <2>1 DEF ScriptInv, OnlyEndedAreDropped, IsRunning
  <2> QED BY <1>5, <1>10, <2>1, <2>2
<1>14. IsFiniteSet(StartedRuns')
  <2>1. IsFiniteSet(StartedRuns \union {r})
    BY FS_AddElement DEF ScriptInv
  <2>2. StartedRuns' \in SUBSET (StartedRuns \union {r})
    BY <1>5, <1>10 DEF StartedRuns
  <2> QED BY <2>1, <2>2, FS_Subset
<1> QED BY <1>2, <1>4, <1>10, <1>11, <1>12, <1>13, <1>14
        DEF ScriptInv, HasEnded, EndOfRun, OnlyEndedAreDropped, IsRunning


\* What the host sends tells only of the output and of the exit.
OnlyItsOutputDiffers(e, run) ==
  /\ e.state = run.state /\ e.listed = run.listed /\ e.lease = run.lease
  /\ e.channel = run.channel /\ e.kill = run.kill /\ e.timer = run.timer

LEMMA OutputOK ==
  ASSUME NEW run \in RunState, RunOK(run), run.channel, NEW e \in RunState,
         OnlyItsOutputDiffers(e, run),
         e.output + e.held = e.printed, e.job # "unknown" => e.held = 0,
         run.job # "unknown" => e.job = run.job
  PROVE  RunOK(e)
<1>1. run.state = "running" \/ (run.state \in EndOfRun /\ run.job = "known")
  BY DEF RunOK
<1>2. run.state \in EndOfRun => run.state # "running"
  BY DEF EndOfRun
<1>3. run.state \in EndOfRun => e.held = 0 /\ e.job = "known"
  BY <1>1, <1>2
<1> QED BY <1>1, <1>2, <1>3 DEF RunOK, OnlyItsOutputDiffers

LEMMA HostSays ==
  ASSUME ScriptInv, NEW r \in Run, Stdout(r) \/ Stderr(r) \/ Marker(r) \/ Exits(r)
  PROVE  ScriptInv'
<1> DEFINE run == runs[r]
<1>1. runs \in [Run -> RunState] /\ run \in RunState /\ RunOK(run)
  BY DEF ScriptInv
<1>2. run.channel /\ connected /\ UNCHANGED <<finished, connected>>
  BY DEF Stdout, Stderr, Marker, Exits, Says, Prints
<1>3. /\ run.output \in Nat /\ run.held \in Nat /\ run.printed \in Nat
      /\ run.output + run.held = run.printed /\ (run.job # "unknown" => run.held = 0)
  BY <1>1 DEF RunState, RunOK
<1>4. 0 \in Nat /\ "given up" # "unknown" /\ "known" # "unknown"
  OBVIOUS
<1>5. ASSUME NEW e \in RunState, runs' = [runs EXCEPT ![r] = e], OnlyItsOutputDiffers(e, run),
             e.output + e.held = e.printed, e.job # "unknown" => e.held = 0,
             run.job # "unknown" => e.job = run.job
      PROVE  ScriptInv'
  <2>1. RunOK(e)
    BY <1>1, <1>2, <1>5, OutputOK
  <2>2. e.listed => e.state = "running" \/ (run.listed /\ ~IsRunning(r))
    BY <1>5 DEF IsRunning, OnlyItsOutputDiffers
  <2>3. runs[r].state \in EndOfRun => e.state \in EndOfRun
    BY <1>5 DEF OnlyItsOutputDiffers
  <2> QED BY <1>2, <1>5, <2>1, <2>2, <2>3, OneRunStep
<1>6. CASE Stdout(r)
  <2> DEFINE e == [run EXCEPT !.printed = run.printed + 1, !.output = run.output + 1]
  <2>1. run.output + 1 \in Nat /\ run.printed + 1 \in Nat
        /\ (run.output + 1) + run.held = run.printed + 1
    BY <1>3
  <2>2. /\ e \in RunState /\ OnlyItsOutputDiffers(e, run) /\ e.job = run.job
        /\ e.output = run.output + 1 /\ e.held = run.held /\ e.printed = run.printed + 1
    BY <1>1, <2>1 DEF RunState, OnlyItsOutputDiffers
  <2>3. runs' = [runs EXCEPT ![r] = e]
    BY <1>1, <1>6 DEF Stdout, RunState
  <2> HIDE DEF e
  <2> QED BY <1>3, <1>5, <2>1, <2>2, <2>3
<1>7. CASE Stderr(r)
  <2>1. CASE run.job # "unknown"
    <3> DEFINE e == [run EXCEPT !.printed = @ + 1, !.output = @ + 1]
    <3>1. run.output + 1 \in Nat /\ run.printed + 1 \in Nat
          /\ (run.output + 1) + run.held = run.printed + 1
      BY <1>3
    <3>2. /\ e \in RunState /\ OnlyItsOutputDiffers(e, run) /\ e.job = run.job
          /\ e.output = run.output + 1 /\ e.held = run.held /\ e.printed = run.printed + 1
      BY <1>1, <3>1 DEF RunState, OnlyItsOutputDiffers
    <3>3. runs' = [runs EXCEPT ![r] = e]
      BY <1>1, <1>7, <2>1 DEF Stderr
    <3> HIDE DEF e
    <3> QED BY <1>3, <1>5, <3>1, <3>2, <3>3
  <2>2. CASE run.job = "unknown" /\ run.held < MaxHeld
    <3> DEFINE e == [run EXCEPT !.printed = @ + 1, !.held = @ + 1]
    <3>1. run.held + 1 \in Nat /\ run.printed + 1 \in Nat
          /\ run.output + (run.held + 1) = run.printed + 1
      BY <1>3
    <3>2. /\ e \in RunState /\ OnlyItsOutputDiffers(e, run) /\ e.job = "unknown"
          /\ e.output = run.output /\ e.held = run.held + 1 /\ e.printed = run.printed + 1
      BY <1>1, <2>2, <3>1 DEF RunState, OnlyItsOutputDiffers
    <3>3. runs' = [runs EXCEPT ![r] = e]
      BY <1>1, <1>7, <2>2 DEF Stderr
    <3> HIDE DEF e
    <3> QED BY <1>5, <2>2, <3>1, <3>2, <3>3
  <2>3. CASE run.job = "unknown" /\ ~(run.held < MaxHeld)
    <3> DEFINE e == [run EXCEPT !.printed = @ + 1, !.output = @ + run.held + 1, !.held = 0,
                                !.job = "given up"]
    <3>1. run.output + run.held + 1 \in Nat /\ run.printed + 1 \in Nat
          /\ (run.output + run.held + 1) + 0 = run.printed + 1
      BY <1>3
    <3>2. /\ e \in RunState /\ OnlyItsOutputDiffers(e, run) /\ e.job = "given up"
          /\ e.output = run.output + run.held + 1 /\ e.held = 0 /\ e.printed = run.printed + 1
      BY <1>1, <1>4, <3>1 DEF RunState, OnlyItsOutputDiffers
    <3>3. runs' = [runs EXCEPT ![r] = e]
      BY <1>1, <1>7, <2>3 DEF Stderr
    <3> HIDE DEF e
    <3> QED BY <1>5, <2>3, <3>1, <3>2, <3>3
  <2> QED BY <2>1, <2>2, <2>3
<1>8. CASE Marker(r)
  <2> DEFINE e == [run EXCEPT !.job = "known", !.output = @ + run.held, !.held = 0]
  <2>1. run.output + run.held \in Nat /\ (run.output + run.held) + 0 = run.printed
    BY <1>3
  <2>2. /\ e \in RunState /\ OnlyItsOutputDiffers(e, run) /\ e.job = "known"
        /\ e.output = run.output + run.held /\ e.held = 0 /\ e.printed = run.printed
    BY <1>1, <1>4, <2>1 DEF RunState, OnlyItsOutputDiffers
  <2>3. run.job = "unknown" /\ runs' = [runs EXCEPT ![r] = e]
    BY <1>1, <1>8 DEF Marker
  <2> HIDE DEF e
  <2> QED BY <1>5, <2>1, <2>2, <2>3
<1>9. CASE Exits(r)
  <2>1. PICK exit \in {"zero", "other"} : runs' = [runs EXCEPT ![r].exit = exit]
    BY <1>9 DEF Exits
  <2> DEFINE e == [run EXCEPT !.exit = exit]
  <2>2. /\ e \in RunState /\ OnlyItsOutputDiffers(e, run) /\ e.job = run.job
        /\ e.output = run.output /\ e.held = run.held /\ e.printed = run.printed
    BY <1>1 DEF RunState, OnlyItsOutputDiffers
  <2>3. runs' = [runs EXCEPT ![r] = e]
    BY <1>1, <2>1
  <2> HIDE DEF e
  <2> QED BY <1>3, <1>5, <2>2, <2>3
<1> QED BY <1>6, <1>7, <1>8, <1>9

LEMMA ExecKeeps ==
  ASSUME ScriptInv, NEW r \in Run, ExecAnswered(r) \/ ExecFails(r)
  PROVE  ScriptInv'
<1> DEFINE run == runs[r]
<1>1. run \in RunState /\ RunOK(run)
  BY DEF ScriptInv
<1>2. run.state = "starting" /\ UNCHANGED <<finished, connected>>
  BY DEF ExecAnswered, ExecFails
<1>3. run.lease /\ ~run.kill /\ ~run.channel /\ ~run.timer /\ ~run.listed
      /\ run.state \notin EndOfRun
  BY <1>1, <1>2 DEF RunOK, EndOfRun
<1>4. TRUE \in BOOLEAN /\ {"running", "refused"} \subseteq States
      /\ "running" \notin EndOfRun /\ "refused" \notin EndOfRun
  BY DEF States, EndOfRun
<1>5. CASE ExecAnswered(r)
  <2>1. PICK timer \in BOOLEAN, exit \in {"none", "other"} :
          runs' = [runs EXCEPT ![r] = [@ EXCEPT !.state = "running", !.listed = TRUE,
                                             !.channel = TRUE, !.timer = timer, !.exit = exit]]
    BY <1>5 DEF ExecAnswered
  <2> DEFINE e == [run EXCEPT !.state = "running", !.listed = TRUE,
                              !.channel = TRUE, !.timer = timer, !.exit = exit]
  <2>2. runs' = [runs EXCEPT ![r] = e]
    BY <2>1
  <2>3. /\ e \in RunState /\ e.state = "running" /\ e.listed /\ e.channel
        /\ e.lease = run.lease /\ e.kill = run.kill
        /\ e.job = run.job /\ e.output = run.output /\ e.held = run.held
        /\ e.printed = run.printed
    BY <1>1, <1>4 DEF RunState
  <2> HIDE DEF e
  <2>4. RunOK(e)
    BY <1>1, <1>3, <1>4, <2>3 DEF RunOK
  <2>5. connected
    BY <1>5 DEF ExecAnswered
  <2> QED BY <1>2, <1>3, <2>2, <2>3, <2>4, <2>5, OneRunStep
<1>6. CASE ExecFails(r)
  <2> DEFINE l == LeaseReleased(run)
             e == [l EXCEPT !.state = "refused"]
  <2>1. runs' = [runs EXCEPT ![r] = e]
    BY <1>6 DEF ExecFails
  <2>2. /\ l \in RunState /\ ~l.lease /\ l.kill = run.kill /\ l.channel = run.channel
        /\ l.state = run.state /\ l.listed = run.listed /\ l.timer = run.timer
        /\ l.job = run.job
        /\ l.output = run.output /\ l.held = run.held /\ l.printed = run.printed
    BY <1>1, LeaseReleasedEffect
  <2> HIDE DEF l
  <2>3. /\ e \in RunState /\ e.state = "refused" /\ e.listed = l.listed /\ e.channel = l.channel
        /\ e.lease = l.lease /\ e.kill = l.kill /\ e.timer = l.timer
        /\ e.job = l.job /\ e.output = l.output /\ e.held = l.held /\ e.printed = l.printed
    BY <1>4, <2>2 DEF RunState
  <2> HIDE DEF e
  <2>4. RunOK(e)
    BY <1>1, <1>3, <1>4, <2>2, <2>3 DEF RunOK
  <2>5. ~e.listed /\ e.state \notin {"starting", "running"}
    BY <1>3, <2>2, <2>3
  <2> QED BY <1>2, <1>3, <2>1, <2>3, <2>4, <2>5, OneRunStep
<1> QED BY <1>5, <1>6

\* A run that ends by itself or is stopped joins the queue, unless it is there.
LEMMA EndKeeps ==
  ASSUME ScriptInv, NEW r \in Run, NEW run \in RunState, RunOK(run), RunEnds(r, run),
         UNCHANGED connected, run.listed = runs[r].listed, run.state \in EndOfRun,
         IsRunning(r) \/ runs[r].state \in EndOfRun
  PROVE  ScriptInv'
<1>1. runs' = [runs EXCEPT ![r] = run]
  BY DEF RunEnds
<1>2. run.state \notin {"starting", "running"}
  BY DEF EndOfRun
<1>3. CASE IsRunning(r)
  <2>1. finished' = Append(finished, r)
    BY <1>3 DEF RunEnds
  <2> QED BY <1>1, <1>2, <2>1, OneRunStep
<1>4. CASE ~IsRunning(r)
  <2>1. finished' = finished
    BY <1>4 DEF RunEnds
  <2> QED BY <1>1, <1>2, <1>4, <2>1, OneRunStep
<1> QED BY <1>3, <1>4

LEMMA ScriptStep ==
  ASSUME ScriptInv, ScriptNext
  PROVE  ScriptInv'
<1>1. /\ runs \in [Run -> RunState] /\ connected \in BOOLEAN
      /\ \A q \in Run : RunOK(runs[q])
      /\ \A q \in Run : runs[q].state \in {"starting", "running"} => connected
  BY DEF ScriptInv
<1>2. {"cancelled", "timed-out", "completed", "failed"} \subseteq EndOfRun
      /\ "running" \notin EndOfRun /\ "none" \notin EndOfRun
  BY DEF EndOfRun
<1>3. ASSUME NEW r \in Run, ChannelCloses(r)
      PROVE  ScriptInv'
  <2> DEFINE s == IF runs[r].exit = "zero" THEN "completed" ELSE "failed"
             e == LeaseReleased(Finish([runs[r] EXCEPT !.channel = FALSE], s))
  <2>1. s \in {"completed", "failed"}
    OBVIOUS
  <2>2. runs[r] \in RunState /\ RunOK(runs[r]) /\ runs[r].channel
    BY <1>1, <1>3 DEF ChannelCloses
  <2>3. RunEnds(r, e) /\ UNCHANGED connected
    BY <1>3 DEF ChannelCloses
  <2> HIDE DEF s
  <2>4. /\ e \in RunState /\ RunOK(e) /\ e.listed = runs[r].listed
        /\ e.state = IF runs[r].state = "running" THEN s ELSE runs[r].state
    BY <2>1, <2>2, ClosedOK
  <2> HIDE DEF e
  <2>5. IsRunning(r) \/ runs[r].state \in EndOfRun
    BY <2>2 DEF RunOK, IsRunning
  <2>6. e.state \in EndOfRun
    BY <1>2, <2>1, <2>4, <2>5 DEF IsRunning
  <2> QED BY <2>3, <2>4, <2>5, <2>6, EndKeeps
<1>4. ASSUME NEW r \in Run, Cancel(r) \/ TimesOut(r)
      PROVE  ScriptInv'
  <2>1. PICK s \in {"cancelled", "timed-out"} :
          RunEnds(r, StoppedRun(runs[r], s)) /\ UNCHANGED connected
    BY <1>4 DEF Cancel, TimesOut
  <2>2. runs[r] \in RunState /\ RunOK(runs[r]) /\ runs[r].state = "running"
    BY <1>1, <1>4 DEF Cancel, TimesOut, IsRunning, RunOK
  <2> DEFINE e == StoppedRun(runs[r], s)
  <2>3. e \in RunState /\ RunOK(e) /\ e.state = s /\ e.listed = runs[r].listed
    BY <2>2, StoppedOK
  <2>4. RunEnds(r, e)
    BY <2>1
  <2> HIDE DEF e
  <2>5. IsRunning(r) /\ e.state \in EndOfRun
    BY <1>2, <2>2, <2>3 DEF IsRunning
  <2> QED BY <2>1, <2>3, <2>4, <2>5, EndKeeps
<1>5. ASSUME NEW r \in Run, KillAnswered(r)
      PROVE  ScriptInv'
  <2> DEFINE e == LetGo(runs[r])
  <2>1. runs[r] \in RunState /\ RunOK(runs[r]) /\ runs[r].kill
        /\ UNCHANGED <<finished, connected>>
    BY <1>1, <1>5 DEF KillAnswered
  <2>2. runs' = [runs EXCEPT ![r] = e]
    BY <1>5 DEF KillAnswered
  <2>3. /\ e \in RunState /\ ~e.lease /\ ~e.kill /\ ~e.channel
        /\ e.state = runs[r].state /\ e.listed = runs[r].listed /\ e.timer = runs[r].timer
        /\ e.job = runs[r].job
        /\ e.output = runs[r].output /\ e.held = runs[r].held /\ e.printed = runs[r].printed
    BY <2>1, LetGoEffect
  <2> HIDE DEF e
  <2>4. runs[r].state \in EndOfRun /\ runs[r].state \notin {"starting", "running"}
    BY <2>1 DEF RunOK, EndOfRun
  <2>5. RunOK(e)
    BY <2>1, <2>3, <2>4 DEF RunOK
  <2>6. ~IsRunning(r)
    BY <2>4 DEF IsRunning
  <2> QED BY <2>1, <2>2, <2>3, <2>4, <2>5, <2>6, OneRunStep
<1>6. ASSUME StopAll
      PROVE  ScriptInv'
  <2> DEFINE E == {r \in Run : runs[r].listed /\ IsRunning(r)}
  <2>1. /\ runs' = [r \in Run |-> IF r \in E THEN StoppedRun(runs[r], "cancelled") ELSE runs[r]]
        /\ UNCHANGED connected
    BY <1>6 DEF StopAll
  <2>2. PICK order \in SetToSeqs(E) : finished' = finished \o order
    BY <1>6 DEF StopAll
  <2>3. ASSUME NEW r \in E
        PROVE  /\ runs'[r] \in RunState /\ RunOK(runs'[r]) /\ runs'[r].state = "cancelled"
               /\ runs'[r].listed = runs[r].listed /\ runs[r].state = "running"
    <3>1. r \in Run /\ runs[r] \in RunState /\ RunOK(runs[r]) /\ runs[r].state = "running"
      BY <1>1 DEF IsRunning
    <3> DEFINE e == StoppedRun(runs[r], "cancelled")
    <3>2. e \in RunState /\ RunOK(e) /\ e.state = "cancelled" /\ e.listed = runs[r].listed
      BY <3>1, StoppedOK
    <3>3. runs'[r] = e
      BY <2>1, <3>1
    <3> HIDE DEF e
    <3> QED BY <3>1, <3>2, <3>3
  <2>4. \A r \in Run \ E : runs'[r] = runs[r]
    BY <2>1
  <2>5. E \in SUBSET Run /\ E \subseteq {r \in Run : IsRunning(r)}
    OBVIOUS
  <2> HIDE DEF E
  <2>6. runs' \in [Run -> RunState]
    <3>1. runs' = [r \in Run |-> runs'[r]]
      BY <2>1
    <3>2. \A r \in Run : runs'[r] \in RunState
      BY <1>1, <2>3, <2>4
    <3> QED BY <3>1, <3>2
  <2>7. \A r \in Run : RunOK(runs'[r]) /\ runs'[r].listed = runs[r].listed
    BY <1>1, <2>3, <2>4
  <2>8. \A r \in E : runs'[r].state \in EndOfRun
    BY <1>2, <2>3
  <2>9. /\ \A r \in Run : runs'[r].state \in {"starting", "running"} => connected'
        /\ \A r \in Run : runs[r].state \in EndOfRun => runs'[r].state \in EndOfRun
        /\ \A r \in Run : runs[r].state = "none" => runs'[r].state = "none"
        /\ \A r \in Run \ E : IsRunning(r) => runs'[r].state = "running"
        /\ connected' \in BOOLEAN
    BY <1>1, <1>2, <2>1, <2>3, <2>4, <2>8 DEF IsRunning
  <2> QED BY <2>2, <2>5, <2>6, <2>7, <2>8, <2>9, ManyRunsEnd
<1>7. ASSUME RunsLost
      PROVE  ScriptInv'
  <2> DEFINE E == {r \in Run : IsRunning(r)}
  <2>1. /\ runs' = [r \in Run |-> [LostRun(runs[r]) EXCEPT !.channel = FALSE]]
        /\ connected' = FALSE
    BY <1>7 DEF RunsLost
  <2>2. PICK order \in SetToSeqs(E) : finished' = finished \o order
    BY <1>7 DEF RunsLost
  <2>3. ASSUME NEW r \in Run
        PROVE  /\ runs'[r] \in RunState /\ RunOK(runs'[r]) /\ runs'[r].listed = runs[r].listed
               /\ runs'[r].state = IF runs[r].state = "starting" THEN "refused"
                                   ELSE IF runs[r].state = "running" THEN "failed"
                                   ELSE runs[r].state
    <3>1. runs[r] \in RunState /\ RunOK(runs[r])
      BY <1>1
    <3> DEFINE e == [LostRun(runs[r]) EXCEPT !.channel = FALSE]
    <3>2. /\ e \in RunState /\ RunOK(e) /\ e.listed = runs[r].listed
          /\ e.state = IF runs[r].state = "starting" THEN "refused"
                       ELSE IF runs[r].state = "running" THEN "failed" ELSE runs[r].state
      BY <3>1, LostOK
    <3>3. runs'[r] = e
      BY <2>1
    <3> HIDE DEF e
    <3> QED BY <3>2, <3>3
  <2>4. E \in SUBSET Run /\ E \subseteq {r \in Run : IsRunning(r)}
    OBVIOUS
  <2>5. runs' \in [Run -> RunState]
    <3>1. runs' = [r \in Run |-> runs'[r]]
      BY <2>1
    <3> QED BY <2>3, <3>1
  <2>6. /\ \A r \in E : runs'[r].state \in EndOfRun
        /\ \A r \in Run : runs'[r].state \in {"starting", "running"} => connected'
        /\ \A r \in Run : runs[r].state \in EndOfRun => runs'[r].state \in EndOfRun
        /\ \A r \in Run : runs[r].state = "none" => runs'[r].state = "none"
        /\ \A r \in Run \ E : IsRunning(r) => runs'[r].state = "running"
    <3>1. "starting" \notin EndOfRun /\ "refused" \notin EndOfRun
      BY DEF EndOfRun
    <3> QED BY <1>2, <2>3, <3>1 DEF IsRunning
  <2>7. connected' \in BOOLEAN
    BY <2>1
  <2> HIDE DEF E
  <2> QED BY <2>2, <2>3, <2>4, <2>5, <2>6, <2>7, ManyRunsEnd
<1> QED BY <1>3, <1>4, <1>5, <1>6, <1>7, StartKeeps, ExecKeeps, HostSays DEF ScriptNext

THEOREM ScriptInvHolds == ScriptSpec => []ScriptInv
<1>1. ScriptInit => ScriptInv
  <2> SUFFICES ASSUME ScriptInit
               PROVE  ScriptInv
    OBVIOUS
  <2>1. FALSE \in BOOLEAN /\ TRUE \in BOOLEAN /\ 0 \in Nat /\ "none" \in States
        /\ "none" \notin EndOfRun /\ 0 + 0 = 0
    BY DEF States, EndOfRun
  <2>2. NoRun \in RunState /\ NoRun.state = "none" /\ ~NoRun.listed
    BY <2>1 DEF NoRun, RunState
  <2>3. RunOK(NoRun)
    BY <2>1 DEF NoRun, RunOK
  <2>4. runs = [r \in Run |-> NoRun]
    BY DEF ScriptInit
  <2> HIDE DEF NoRun
  <2>5. /\ runs \in [Run -> RunState] /\ \A r \in Run : RunOK(runs[r])
        /\ \A r \in Run : runs[r].state = "none" /\ ~runs[r].listed
    BY <2>2, <2>3, <2>4
  <2>6. finished \in Seq(Run) /\ ToSet(finished) = {}
    <3>1. finished = <<>>
      BY DEF ScriptInit
    <3> QED BY <3>1 DEF ToSet
  <2>7. IsFiniteSet(StartedRuns)
    <3>1. StartedRuns = {}
      BY <2>5 DEF StartedRuns
    <3> QED BY <3>1, FS_EmptySet
  <2>8. connected \in BOOLEAN /\ connected
    BY <2>1 DEF ScriptInit
  <2> QED BY <2>5, <2>6, <2>7, <2>8 DEF ScriptInv, OnlyEndedAreDropped
<1>2. ScriptInv /\ [ScriptNext]_scriptVars => ScriptInv'
  <2> SUFFICES ASSUME ScriptInv, UNCHANGED scriptVars
               PROVE  ScriptInv'
    BY ScriptStep
  <2> QED BY DEF scriptVars, ScriptInv, HasEnded, OnlyEndedAreDropped, IsRunning, StartedRuns
<1> QED BY <1>1, <1>2, PTL DEF ScriptSpec

\* A run holds its connection exactly as long as it needs it, can still end while it
\* is shown as running, and has all its output when it has ended, whatever ends it
\* and whatever ends it a second time (start, finish and stop, script-runs.ts:81-257).
THEOREM ScriptRunsStaySound == ScriptSpec => []ScriptRunsAreSound
<1>1. ScriptInv => ScriptRunsAreSound
  <2> SUFFICES ASSUME ScriptInv
               PROVE  ScriptRunsAreSound
    OBVIOUS
  <2>1. \A r \in Run : runs[r] \in RunState /\ RunOK(runs[r])
    BY DEF ScriptInv
  <2>2. LeaseOutlivesRun
    BY <2>1 DEF LeaseOutlivesRun, RunOK
  <2>3. RunningCanEnd
    BY <2>1 DEF ScriptInv, RunningCanEnd, IsRunning, RunOK
  <2>4. ASSUME NEW r \in Run, HasEnded(r)
        PROVE  runs[r].output = runs[r].printed
    <3>1. runs[r].held = 0 /\ runs[r].output + runs[r].held = runs[r].printed
      BY <2>1, <2>4 DEF HasEnded, EndOfRun, RunOK
    <3>2. runs[r].output \in Nat
      BY <2>1 DEF RunState
    <3> QED BY <3>1, <3>2
  <2> QED BY <2>2, <2>3, <2>4 DEF ScriptInv, ScriptRunsAreSound, NothingIsHeldBack
<1> QED BY <1>1, ScriptInvHolds, PTL

-----------------------------------------------------------------------------
(* A remote desktop tab (DesktopSession) *)

Task == {"connect", "retry", "credentials", "connected", "server-key"}

StreamState ==
  [at : {"none", "opening", "tls", "certificate", "relay", "gone"}, opening : BOOLEAN,
   upstream : {"none", "alive", "destroyed"}, route : {"none", "gateway", "direct"},
   socket : {"none", "open", "closed"}, dials : Nat, opened : Nat]

TabState == [kind : {"rdp", "vnc"}, needsGateway : BOOLEAN, closed : BOOLEAN]
GatewayState == [held : BOOLEAN, taken : Nat, released : Nat]
LogonState ==
  [attempts : Nat, candidate : Nat, remembered : Nat, vncRejected : BOOLEAN, proved : SUBSET Nat]
TicketState == {"none", "issued", "expired", "used"}
ViewState == [ticket : Nat, sent : SUBSET Task, attempt : Nat]

DesktopTypes ==
  /\ desktop \in TabState /\ gateway \in GatewayState /\ tasks \in Seq(Task)
  /\ logon \in LogonState /\ ticket \in [Ticket -> TicketState]
  /\ stream \in [Ticket -> StreamState] /\ view \in ViewState

\* The gateway is held by a tab that needs it and is open, and is dialed once.
GatewayAccounted ==
  /\ gateway.held => desktop.needsGateway /\ ~desktop.closed /\ gateway.taken = gateway.released + 1
  /\ ~gateway.held => gateway.taken = gateway.released
  /\ RunningTask("connect", "queued") => ~gateway.held
  /\ RunningTask("connect", "gateway") => ~gateway.held /\ desktop.needsGateway

Through == IF desktop.needsGateway THEN "gateway" ELSE "direct"

\* A stream has one way to go, and is alive only past its opening and in an open tab.
SoundStream(s) ==
  /\ s.route \in {"none", Through}
  /\ s.upstream = "alive" => ~desktop.closed /\ s.route # "none" /\ s.at # "opening" /\ ~s.opening
  /\ s.opening => s.route # "none"

\* A ticket that opened a stream is used.
StreamOK(k) ==
  SoundStream(stream[k]) /\ (stream[k].opened = 0 \/ (stream[k].opened = 1 /\ ticket[k] = "used"))

\* The tickets are issued in their order.
TicketsInOrder == \E n \in 0 .. MaxTickets : \A k \in Ticket : ticket[k] # "none" <=> k <= n

\* What each task of the queue tells of the tab: a login that succeeded is alone,
\* a retry is last, and who connects or asks for credentials holds no attempt yet.
TaskPlaced(i) ==
  /\ tasks[i] = "connect" => Len(tasks) = 1 /\ view.ticket = 0 /\ logon.candidate = 0
  /\ tasks[i] = "connected" => /\ Len(tasks) = 1 /\ "connected" \in view.sent
                               /\ logon.candidate \in logon.proved \union {0}
  /\ tasks[i] = "retry" => i = Len(tasks) /\ "retry" \in view.sent /\ (Rdp => Len(tasks) = 1)
  /\ tasks[i] = "credentials" => /\ i = 1 /\ "credentials" \in view.sent /\ ~Rdp
                                 /\ logon.candidate = 0
  /\ tasks[i] = "server-key" => ~Rdp

\* The attempt to be remembered is the one the tab tries.
AttemptFollowed ==
  /\ logon.candidate \in {0, view.attempt}
  /\ ~Rdp /\ "credentials" \notin view.sent => logon.candidate = 0
  /\ at = "logon" => Rdp
  /\ RememberedLogonWorked

DesktopInv ==
  /\ DesktopTypes /\ GatewayAccounted /\ (\A k \in Ticket : StreamOK(k)) /\ TicketsInOrder
  /\ (\A i \in DOMAIN tasks : TaskPlaced(i)) /\ AttemptFollowed


LEMMA TaskFacts ==
  ASSUME DesktopTypes, tasks # <<>>
  PROVE  /\ Len(tasks) \in Nat \ {0} /\ DOMAIN tasks = 1 .. Len(tasks) /\ 1 \in DOMAIN tasks
         /\ Head(tasks) = tasks[1] /\ Head(tasks) \in Task
         /\ Tail(tasks) \in Seq(Task) /\ DOMAIN Tail(tasks) = 1 .. Len(tasks) - 1
         /\ Len(Tail(tasks)) = Len(tasks) - 1
         /\ \A i \in 1 .. Len(tasks) - 1 : Tail(tasks)[i] = tasks[i + 1]
<1>1. tasks \in Seq(Task)
  BY DEF DesktopTypes
<1>2. Len(tasks) \in Nat /\ DOMAIN tasks = 1 .. Len(tasks) /\ Len(tasks) # 0
  BY <1>1, LenProperties, EmptySeq
<1>3. /\ Head(tasks) \in Task /\ Tail(tasks) \in Seq(Task)
      /\ Len(Tail(tasks)) = Len(tasks) - 1
      /\ \A i \in 1 .. Len(Tail(tasks)) : Tail(tasks)[i] = tasks[i + 1]
  BY <1>1, HeadTailProperties
<1>4. Head(tasks) = tasks[1]
  BY <1>1
<1>5. DOMAIN Tail(tasks) = 1 .. Len(tasks) - 1
  BY <1>3, LenProperties
<1>6. 1 \in DOMAIN tasks
  BY <1>2
<1> QED BY <1>2, <1>3, <1>4, <1>5, <1>6

\* Behind the first task only a retry and questions about a key wait.
LEMMA RestOfTasks ==
  ASSUME DesktopTypes, tasks # <<>>, \A i \in DOMAIN tasks : TaskPlaced(i), TaskEnds
  PROVE  /\ tasks' \in Seq(Task) /\ at' = "queued"
         /\ Len(tasks') = Len(tasks) - 1 /\ DOMAIN tasks' = 1 .. Len(tasks) - 1
         /\ \A i \in DOMAIN tasks' :
              \/ /\ tasks'[i] = "retry" /\ i = Len(tasks') /\ "retry" \in view.sent /\ ~Rdp
              \/ tasks'[i] = "server-key" /\ ~Rdp
         /\ Head(tasks) \in {"connect", "connected", "retry"} => tasks' = <<>>
<1>1. tasks' = Tail(tasks) /\ at' = "queued"
  BY DEF TaskEnds
<1>2. /\ tasks' \in Seq(Task) /\ Len(tasks') = Len(tasks) - 1
      /\ DOMAIN tasks' = 1 .. Len(tasks) - 1
      /\ \A i \in 1 .. Len(tasks) - 1 : tasks'[i] = tasks[i + 1]
  BY <1>1, TaskFacts
<1>3. Len(tasks) \in Nat \ {0} /\ DOMAIN tasks = 1 .. Len(tasks) /\ 1 \in DOMAIN tasks
      /\ Head(tasks) = tasks[1]
  BY TaskFacts
<1>4. ASSUME NEW i \in DOMAIN tasks'
      PROVE  \/ /\ tasks'[i] = "retry" /\ i = Len(tasks') /\ "retry" \in view.sent /\ ~Rdp
             \/ tasks'[i] = "server-key" /\ ~Rdp
  <2>1. i + 1 \in DOMAIN tasks /\ i + 1 # 1 /\ tasks'[i] = tasks[i + 1] /\ Len(tasks) # 1
        /\ (i + 1 = Len(tasks) => i = Len(tasks'))
    BY <1>2, <1>3
  <2>2. TaskPlaced(i + 1)
    BY <2>1
  <2>3. tasks[i + 1] \in Task
    BY <2>1, ElementOfSeq, <1>3 DEF DesktopTypes
  <2> QED BY <2>1, <2>2, <2>3 DEF TaskPlaced, Task
<1>5. ASSUME Head(tasks) \in {"connect", "connected", "retry"}
      PROVE  tasks' = <<>>
  <2>1. TaskPlaced(1)
    BY <1>3
  <2>2. Len(tasks) = 1
    BY <1>3, <1>5, <2>1 DEF TaskPlaced
  <2>3. Len(tasks') = 0
    BY <1>2, <2>2
  <2> QED BY <1>2, <2>3, EmptySeq
<1> QED BY <1>1, <1>2, <1>4, <1>5

\* A task that ends leaves the queue in order.
LEMMA TaskEndKeeps ==
  ASSUME DesktopInv, tasks # <<>>, TaskEnds, Rdp' = Rdp,
         tasks' = <<>> \/ view'.sent = view.sent,
         logon'.candidate \in {0, view'.attempt},
         ~Rdp /\ "credentials" \notin view'.sent => logon'.candidate = 0,
         RememberedLogonWorked'
  PROVE  /\ tasks' \in Seq(Task) /\ (\A i \in DOMAIN tasks' : TaskPlaced(i)') /\ AttemptFollowed'
         /\ ~RunningTask("connect", "queued")' /\ ~RunningTask("connect", "gateway")'
<1>1. DesktopTypes /\ \A i \in DOMAIN tasks : TaskPlaced(i)
  BY DEF DesktopInv
<1>2. /\ tasks' \in Seq(Task) /\ at' = "queued"
      /\ Len(tasks') = Len(tasks) - 1 /\ DOMAIN tasks' = 1 .. Len(tasks) - 1
      /\ \A i \in DOMAIN tasks' :
           \/ /\ tasks'[i] = "retry" /\ i = Len(tasks') /\ "retry" \in view.sent /\ ~Rdp
           \/ tasks'[i] = "server-key" /\ ~Rdp
  BY <1>1, RestOfTasks
<1>3. DOMAIN tasks' # {} => tasks' # <<>>
  BY EmptySeq
<1>4. \A i \in DOMAIN tasks' : TaskPlaced(i)'
  BY <1>2, <1>3 DEF TaskPlaced
<1>5. AttemptFollowed'
  BY <1>2 DEF AttemptFollowed
<1>6. tasks' # <<>> => Head(tasks') # "connect"
  <2>1. SUFFICES ASSUME tasks' # <<>>
                 PROVE  Head(tasks') # "connect"
    OBVIOUS
  <2>2. 1 \in DOMAIN tasks' /\ Head(tasks') = tasks'[1]
    <3>1. Len(tasks') \in Nat /\ Len(tasks') # 0 /\ DOMAIN tasks' = 1 .. Len(tasks')
      BY <1>2, <2>1, LenProperties, EmptySeq
    <3>2. Head(tasks') = tasks'[1]
      BY <1>2
    <3> QED BY <3>1, <3>2
  <2> QED BY <1>2, <2>2
<1> QED BY <1>2, <1>4, <1>5, <1>6 DEF RunningTask


\* A new ticket is the next one, and no stream was opened with it.
LEMMA TicketIssueKeeps ==
  ASSUME DesktopInv, NEW a \in Nat, IssueTicket(a), UNCHANGED <<desktop, stream>>
  PROVE  /\ ticket' \in [Ticket -> TicketState] /\ TicketsInOrder'
         /\ view' \in ViewState /\ view'.ticket # 0 /\ view'.sent = {} /\ view'.attempt = a
         /\ \A k \in Ticket : StreamOK(k)'
<1>1. /\ ticket \in [Ticket -> TicketState] /\ TicketsInOrder
      /\ \A k \in Ticket : StreamOK(k)
  BY DEF DesktopInv, DesktopTypes
<1>2. PICK n \in 0 .. MaxTickets : \A k \in Ticket : ticket[k] # "none" <=> k <= n
  BY <1>1 DEF TicketsInOrder
<1>3. n \in Nat /\ MaxTickets \in Nat
  BY <1>2, DesktopAssumption
<1> DEFINE issued == {i \in Ticket : ticket[i] # "none"}
<1>4. issued = 1 .. n
  BY <1>2, <1>3 DEF Ticket
<1>5. Cardinality(1 .. n) = n
  <2>1. Cardinality(1 .. n) = IF 1 > n THEN 0 ELSE n - 1 + 1
    BY <1>3, FS_Interval
  <2> QED BY <1>3, <2>1
<1>6. Cardinality(issued) = n
  BY <1>4, <1>5
<1>7. /\ n + 1 \in Ticket /\ ticket' = [ticket EXCEPT ![n + 1] = "issued"]
      /\ view' = [ticket |-> n + 1, sent |-> {}, attempt |-> a]
  BY <1>6 DEF IssueTicket
<1> HIDE DEF issued
<1>8. n + 1 \in 0 .. MaxTickets /\ ~(n + 1 <= n) /\ n + 1 \in Nat /\ n + 1 # 0
  BY <1>3, <1>7 DEF Ticket
<1>9. ticket[n + 1] = "none"
  BY <1>2, <1>7, <1>8
<1>10. ticket' \in [Ticket -> TicketState]
  BY <1>1, <1>7 DEF TicketState
<1>11. TicketsInOrder'
  <2>1. \A k \in Ticket : k <= n + 1 <=> k <= n \/ k = n + 1
    BY <1>3 DEF Ticket
  <2>2. \A k \in Ticket : ticket'[k] # "none" <=> k <= n + 1
    BY <1>1, <1>2, <1>7, <2>1
  <2> QED BY <1>8, <2>2 DEF TicketsInOrder
<1>12. view' \in ViewState /\ view'.ticket # 0 /\ view'.sent = {} /\ view'.attempt = a
  BY <1>7, <1>8 DEF ViewState
<1>13. \A k \in Ticket : StreamOK(k)'
  BY <1>1, <1>7, <1>9 DEF StreamOK, SoundStream, Through
<1> QED BY <1>10, <1>11, <1>12, <1>13

\* A task ends, with a new ticket or not.
LEMMA TaskEndStep ==
  ASSUME DesktopInv, tasks # <<>>, TaskEnds, UNCHANGED <<desktop, stream>>,
         gateway' \in GatewayState,
         gateway'.held => /\ desktop.needsGateway /\ ~desktop.closed
                          /\ gateway'.taken = gateway'.released + 1,
         ~gateway'.held => gateway'.taken = gateway'.released,
         logon' \in LogonState, logon'.candidate \in {0, view'.attempt},
         ~Rdp /\ "credentials" \notin view'.sent => logon'.candidate = 0,
         RememberedLogonWorked',
         \/ UNCHANGED ticket /\ view' \in ViewState /\ view'.sent = view.sent
         \/ tasks' = <<>> /\ \E a \in Nat : IssueTicket(a)
  PROVE  DesktopInv'
<1>1. DesktopTypes /\ TicketsInOrder /\ \A k \in Ticket : StreamOK(k)
  BY DEF DesktopInv
<1>2. /\ ticket' \in [Ticket -> TicketState] /\ TicketsInOrder' /\ view' \in ViewState
      /\ \A k \in Ticket : StreamOK(k)'
      /\ tasks' = <<>> \/ view'.sent = view.sent
  <2>1. CASE UNCHANGED ticket /\ view' \in ViewState /\ view'.sent = view.sent
    BY <1>1, <2>1 DEF DesktopTypes, TicketsInOrder, StreamOK, SoundStream, Through
  <2>2. CASE tasks' = <<>> /\ \E a \in Nat : IssueTicket(a)
    BY <2>2, TicketIssueKeeps
  <2> QED BY <2>1, <2>2
<1>3. Rdp' = Rdp
  BY DEF Rdp
<1>4. /\ tasks' \in Seq(Task) /\ (\A i \in DOMAIN tasks' : TaskPlaced(i)') /\ AttemptFollowed'
      /\ ~RunningTask("connect", "queued")' /\ ~RunningTask("connect", "gateway")'
  BY <1>2, <1>3, TaskEndKeeps
<1>5. DesktopTypes'
  BY <1>1, <1>2, <1>4 DEF DesktopTypes
<1>6. GatewayAccounted'
  BY <1>4 DEF GatewayAccounted
<1> QED BY <1>2, <1>4, <1>5, <1>6 DEF DesktopInv

\* A task awaits something else than the gateway.
LEMMA TaskAwaitStep ==
  ASSUME DesktopInv, NEW where \in {"post-auth", "logon", "vnc logon"}, TaskAwaits(where),
         where = "logon" => Rdp,
         UNCHANGED <<desktop, stream, ticket, view>>,
         gateway' \in GatewayState,
         gateway'.held => /\ desktop.needsGateway /\ ~desktop.closed
                          /\ gateway'.taken = gateway'.released + 1,
         ~gateway'.held => gateway'.taken = gateway'.released,
         logon' \in LogonState, logon'.candidate \in {0, logon.candidate},
         logon'.remembered = logon.remembered, logon'.proved = logon.proved
  PROVE  DesktopInv'
<1>1. /\ DesktopTypes /\ TicketsInOrder /\ (\A k \in Ticket : StreamOK(k)) /\ AttemptFollowed
      /\ \A i \in DOMAIN tasks : TaskPlaced(i)
  BY DEF DesktopInv
<1>2. at' = where /\ UNCHANGED tasks /\ Rdp' = Rdp
  BY DEF TaskAwaits, Rdp
<1>3. \A i \in DOMAIN tasks' : TaskPlaced(i)'
  BY <1>1, <1>2 DEF TaskPlaced
<1>4. AttemptFollowed'
  BY <1>1, <1>2 DEF AttemptFollowed, RememberedLogonWorked
<1>5. GatewayAccounted'
  BY <1>2 DEF GatewayAccounted, RunningTask
<1>6. DesktopTypes' /\ TicketsInOrder' /\ \A k \in Ticket : StreamOK(k)'
  BY <1>1, <1>2 DEF DesktopTypes, TicketsInOrder, StreamOK, SoundStream, Through
<1> QED BY <1>3, <1>4, <1>5, <1>6 DEF DesktopInv

\* Facts of the first task.
LEMMA HeadPlaced ==
  ASSUME DesktopInv, tasks # <<>>
  PROVE  /\ Head(tasks) = "connect" => logon.candidate = 0 /\ view.ticket = 0
         /\ Head(tasks) = "connected" => logon.candidate \in logon.proved \union {0}
         /\ Head(tasks) = "retry" => "retry" \in view.sent
         /\ Head(tasks) = "credentials" =>
              ~Rdp /\ logon.candidate = 0 /\ "credentials" \in view.sent
<1>1. 1 \in DOMAIN tasks /\ Head(tasks) = tasks[1]
  BY TaskFacts DEF DesktopInv
<1>2. TaskPlaced(1)
  BY <1>1 DEF DesktopInv
<1> QED BY <1>1, <1>2 DEF TaskPlaced

\* connect() and retry() go on to a prompt, to a ticket, or end with the tab.
LEMMA GoOnStep ==
  ASSUME DesktopInv, tasks # <<>>, Head(tasks) \in {"connect", "retry"}, GoOn,
         UNCHANGED <<desktop, stream, gateway>>,
         logon' \in LogonState, logon'.candidate = 0 \/ (desktop.closed /\ logon' = logon),
         logon'.remembered = logon.remembered, logon'.proved = logon.proved
  PROVE  DesktopInv'
<1>1. DesktopTypes /\ GatewayAccounted /\ AttemptFollowed
  BY DEF DesktopInv
<1>2. /\ gateway' \in GatewayState
      /\ gateway'.held => /\ desktop.needsGateway /\ ~desktop.closed
                          /\ gateway'.taken = gateway'.released + 1
      /\ ~gateway'.held => gateway'.taken = gateway'.released
  BY <1>1 DEF DesktopTypes, GatewayAccounted
<1>3. RememberedLogonWorked'
  BY <1>1 DEF AttemptFollowed, RememberedLogonWorked
<1>4. CASE desktop.closed
  <2>1. TaskEnds /\ UNCHANGED <<ticket, view>>
    BY <1>4 DEF GoOn
  <2>2. view' \in ViewState /\ view'.sent = view.sent
    BY <1>1, <2>1 DEF DesktopTypes
  <2>3. /\ logon'.candidate \in {0, view'.attempt}
        /\ ~Rdp /\ "credentials" \notin view'.sent => logon'.candidate = 0
    BY <1>1, <2>1 DEF AttemptFollowed
  <2> QED BY <1>2, <1>3, <2>1, <2>2, <2>3, TaskEndStep
<1>5. CASE ~desktop.closed /\ Rdp
  <2>1. TaskAwaits("logon") /\ UNCHANGED <<ticket, view>>
    BY <1>5 DEF GoOn
  <2>2. "logon" \in {"post-auth", "logon", "vnc logon"} /\ logon'.candidate \in {0, logon.candidate}
    BY <1>5
  <2> QED BY <1>2, <1>5, <2>1, <2>2, TaskAwaitStep
<1>6. CASE ~desktop.closed /\ ~Rdp
  <2>1. TaskEnds /\ IssueTicket(0) /\ logon'.candidate = 0
    BY <1>6 DEF GoOn
  <2>2. tasks' = <<>>
    BY <1>1, <2>1, RestOfTasks DEF DesktopInv
  <2>3. 0 \in Nat
    OBVIOUS
  <2> QED BY <1>2, <1>3, <2>1, <2>2, <2>3, TaskEndStep
<1> QED BY <1>4, <1>5, <1>6


\* The tasks of the queue, one after another.
LEMMA TasksKeep ==
  ASSUME DesktopInv,
         \/ ConnectStarts \/ GatewayDialed \/ GatewayReady \/ GatewayFails
         \/ LogonGiven \/ LogonFails \/ RetryStarts
         \/ CredentialsStart \/ CredentialsGiven \/ CredentialsFail
         \/ LoginSucceeded \/ ServerKeyJudged
  PROVE  DesktopInv'
<1>1. DesktopTypes /\ GatewayAccounted /\ AttemptFollowed
  BY DEF DesktopInv
<1>2. /\ gateway \in GatewayState
      /\ gateway.held => /\ desktop.needsGateway /\ ~desktop.closed
                         /\ gateway.taken = gateway.released + 1
      /\ ~gateway.held => gateway.taken = gateway.released
  BY <1>1 DEF DesktopTypes, GatewayAccounted
<1>3. /\ logon \in LogonState /\ view \in ViewState /\ logon.candidate \in {0, view.attempt}
      /\ ~Rdp /\ "credentials" \notin view.sent => logon.candidate = 0
      /\ RememberedLogonWorked
  BY <1>1 DEF DesktopTypes, AttemptFollowed
<1>4. tasks # <<>>
  BY DEF ConnectStarts, GatewayDialed, GatewayReady, GatewayFails, LogonGiven, LogonFails,
         RetryStarts, CredentialsStart, CredentialsGiven, CredentialsFail, LoginSucceeded,
         ServerKeyJudged, RunningTask
<1>5. ASSUME TaskFails
      PROVE  DesktopInv'
  <2>1. TaskEnds /\ UNCHANGED <<desktop, gateway, logon, ticket, stream, view>>
    BY <1>5 DEF TaskFails
  <2>2. RememberedLogonWorked'
    BY <1>3, <2>1 DEF RememberedLogonWorked
  <2> QED BY <1>2, <1>3, <1>4, <2>1, <2>2, TaskEndStep
<1>6. CASE GatewayFails \/ LogonFails \/ CredentialsFail \/ ServerKeyJudged
  BY <1>5, <1>6 DEF GatewayFails, LogonFails, CredentialsFail, ServerKeyJudged
<1>7. CASE ConnectStarts
  <2>1. Head(tasks) = "connect" /\ UNCHANGED <<desktop, gateway, logon, stream>>
    BY <1>7 DEF ConnectStarts, RunningTask
  <2>2. CASE desktop.needsGateway
    <3>1. at' = "gateway" /\ UNCHANGED <<tasks, ticket, view>> /\ ~gateway.held
      BY <1>1, <1>7, <2>2 DEF ConnectStarts, TaskAwaits, GatewayAccounted
    <3>2. GatewayAccounted'
      BY <1>1, <2>1, <2>2, <3>1 DEF GatewayAccounted, RunningTask
    <3> QED BY <2>1, <3>1, <3>2
            DEF DesktopInv, DesktopTypes, TicketsInOrder, StreamOK, SoundStream, Through,
                TaskPlaced, AttemptFollowed, RememberedLogonWorked, Rdp
  <2>3. CASE ~desktop.needsGateway
    <3>1. GoOn
      BY <1>7, <2>3 DEF ConnectStarts
    <3>2. logon.candidate = 0
      BY <1>4, <2>1, HeadPlaced
    <3> QED BY <1>3, <1>4, <2>1, <3>1, <3>2, GoOnStep
  <2> QED BY <2>2, <2>3
<1>8. CASE GatewayReady
  <2>1. /\ Head(tasks) = "connect" /\ GoOn /\ UNCHANGED <<desktop, gateway, logon, stream>>
    BY <1>8 DEF GatewayReady, RunningTask
  <2>2. logon.candidate = 0
    BY <1>4, <2>1, HeadPlaced
  <2> QED BY <1>3, <1>4, <2>1, <2>2, GoOnStep
<1>9. CASE GatewayDialed
  <2>1. /\ ~gateway.held /\ desktop.needsGateway /\ gateway.taken = gateway.released
        /\ UNCHANGED <<desktop, logon, ticket, stream, view>>
    BY <1>1, <1>9 DEF GatewayDialed, GatewayAccounted
  <2>2. /\ gateway.taken \in Nat /\ gateway.released \in Nat
        /\ gateway.taken + 1 \in Nat /\ gateway.released + 1 \in Nat
    <3>1. gateway.taken \in Nat /\ gateway.released \in Nat
      BY <1>2 DEF GatewayState
    <3> QED BY <3>1
  <2>3. RememberedLogonWorked'
    BY <1>3, <2>1 DEF RememberedLogonWorked
  <2>4. CASE desktop.closed
    <3>1. TaskEnds /\ gateway' = [gateway EXCEPT !.taken = @ + 1, !.released = @ + 1]
      BY <1>9, <2>4 DEF GatewayDialed
    <3>2. /\ gateway' \in GatewayState /\ ~gateway'.held
          /\ gateway'.taken = gateway.taken + 1 /\ gateway'.released = gateway.released + 1
      BY <1>2, <2>1, <2>2, <3>1 DEF GatewayState
    <3>3. gateway'.taken = gateway'.released
      BY <2>1, <3>2
    <3> QED BY <1>3, <1>4, <2>1, <2>3, <3>1, <3>2, <3>3, TaskEndStep
  <2>5. CASE ~desktop.closed
    <3>1. TaskAwaits("post-auth") /\ gateway' = [gateway EXCEPT !.held = TRUE, !.taken = @ + 1]
      BY <1>9, <2>5 DEF GatewayDialed
    <3>2. TRUE \in BOOLEAN /\ "post-auth" \in {"post-auth", "logon", "vnc logon"}
          /\ "post-auth" # "logon"
      OBVIOUS
    <3>3. /\ gateway' \in GatewayState /\ gateway'.held
          /\ gateway'.taken = gateway.taken + 1 /\ gateway'.released = gateway.released
      BY <1>2, <2>2, <3>1, <3>2 DEF GatewayState
    <3>4. gateway'.taken = gateway'.released + 1
      BY <2>1, <3>3
    <3> QED BY <1>3, <2>1, <2>5, <3>1, <3>2, <3>3, <3>4, TaskAwaitStep
  <2> QED BY <2>4, <2>5
<1>10. ASSUME NEW l \in LogonState, NEW remember \in BOOLEAN, l.attempts = logon.attempts + 1,
              l.candidate = IF remember THEN logon.attempts + 1 ELSE 0,
              l.remembered = logon.remembered, l.proved = logon.proved, logon' = l,
              view'.attempt = logon.attempts + 1
       PROVE  /\ logon' \in LogonState /\ logon'.candidate \in {0, view'.attempt}
              /\ RememberedLogonWorked'
  BY <1>3, <1>10 DEF RememberedLogonWorked
<1>11. ASSUME NEW remember \in BOOLEAN
       PROVE  LET l == Typed(remember)
              IN  /\ l \in LogonState /\ l.attempts = logon.attempts + 1
                  /\ l.candidate = IF remember THEN logon.attempts + 1 ELSE 0
                  /\ l.remembered = logon.remembered /\ l.proved = logon.proved
                  /\ logon.attempts + 1 \in Nat
  <2>1. logon.attempts + 1 \in Nat /\ 0 \in Nat
    <3>1. logon.attempts \in Nat
      BY <1>3 DEF LogonState
    <3> QED BY <3>1
  <2> DEFINE c == IF remember THEN logon.attempts + 1 ELSE 0
             a == logon.attempts + 1
  <2>2. c \in Nat /\ a \in Nat
    BY <2>1
  <2>3. Typed(remember) = [logon EXCEPT !.attempts = a, !.candidate = c]
    BY DEF Typed
  <2> HIDE DEF c, a
  <2>4. LET l == Typed(remember)
        IN  /\ l \in LogonState /\ l.attempts = a /\ l.candidate = c
            /\ l.remembered = logon.remembered /\ l.proved = logon.proved
    BY <1>3, <2>2, <2>3 DEF LogonState
  <2> QED BY <2>1, <2>4 DEF c, a
<1>12. CASE LogonGiven
  <2>1. /\ Head(tasks) \in {"connect", "retry"} /\ Rdp /\ TaskEnds
        /\ UNCHANGED <<desktop, gateway, stream>>
    BY <1>1, <1>12 DEF LogonGiven, RunningTask, AttemptFollowed
  <2>2. tasks' = <<>>
    BY <1>1, <1>4, <2>1, RestOfTasks DEF DesktopInv
  <2>3. CASE /\ Head(tasks) = "connect" /\ UNCHANGED logon
             /\ IF desktop.closed THEN UNCHANGED <<ticket, view>> ELSE IssueTicket(0)
    <3>1. logon.candidate = 0 /\ RememberedLogonWorked'
      BY <1>3, <1>4, <2>3, HeadPlaced DEF RememberedLogonWorked
    <3>2. 0 \in Nat
      OBVIOUS
    <3>3. CASE desktop.closed
      <4>1. UNCHANGED <<ticket, view>>
        BY <2>3, <3>3
      <4> QED BY <1>2, <1>3, <1>4, <2>1, <2>3, <3>1, <4>1, TaskEndStep
    <3>4. CASE ~desktop.closed
      <4>1. IssueTicket(0)
        BY <2>3, <3>4
      <4> QED BY <1>2, <1>3, <1>4, <2>1, <2>2, <2>3, <3>1, <3>2, <4>1, TaskEndStep
    <3> QED BY <3>3, <3>4
  <2>4. CASE /\ \E remember \in BOOLEAN : logon' = Typed(remember)
             /\ IssueTicket(logon.attempts + 1)
    <3>1. PICK remember \in BOOLEAN : logon' = Typed(remember)
      BY <2>4
    <3> DEFINE l == Typed(remember)
    <3>2. /\ l \in LogonState /\ l.attempts = logon.attempts + 1
          /\ l.candidate = IF remember THEN logon.attempts + 1 ELSE 0
          /\ l.remembered = logon.remembered /\ l.proved = logon.proved
          /\ logon.attempts + 1 \in Nat
      BY <1>11
    <3>3. view'.attempt = logon.attempts + 1
      BY <2>1, <2>4, <3>2, TicketIssueKeeps
    <3>4. logon' = l
      BY <3>1
    <3> HIDE DEF l
    <3>5. /\ logon' \in LogonState /\ logon'.candidate \in {0, view'.attempt}
          /\ RememberedLogonWorked'
      BY <1>10, <3>2, <3>3, <3>4
    <3>6. \E a \in Nat : IssueTicket(a)
      BY <2>4, <3>2
    <3> QED BY <1>2, <1>4, <2>1, <2>2, <3>5, <3>6, TaskEndStep
  <2> QED BY <1>12, <2>3, <2>4 DEF LogonGiven
<1>13. CASE RetryStarts
  <2>1. /\ Head(tasks) = "retry" /\ GoOn /\ UNCHANGED <<desktop, gateway, stream>>
    BY <1>13 DEF RetryStarts, RunningTask
  <2>2. CASE desktop.closed
    <3>1. logon' = logon
      BY <1>13, <2>2 DEF RetryStarts
    <3> QED BY <1>3, <1>4, <2>1, <2>2, <3>1, GoOnStep
  <2>3. CASE ~desktop.closed
    <3>1. logon' = [logon EXCEPT !.candidate = 0]
          \/ logon' = [[logon EXCEPT !.candidate = 0] EXCEPT !.vncRejected = TRUE]
      BY <1>13, <2>3 DEF RetryStarts, Retried
    <3>2. 0 \in Nat /\ TRUE \in BOOLEAN
      OBVIOUS
    <3>3. /\ logon' \in LogonState /\ logon'.candidate = 0
          /\ logon'.remembered = logon.remembered /\ logon'.proved = logon.proved
      BY <1>3, <3>1, <3>2 DEF LogonState
    <3> QED BY <1>4, <2>1, <3>3, GoOnStep
  <2> QED BY <2>2, <2>3
<1>14. CASE CredentialsStart
  <2>1. UNCHANGED <<desktop, gateway, logon, ticket, stream, view>>
    BY <1>14 DEF CredentialsStart
  <2>2. CASE desktop.closed
    <3>1. TaskFails
      BY <1>14, <2>1, <2>2 DEF CredentialsStart, TaskFails
    <3> QED BY <1>5, <3>1
  <2>3. CASE ~desktop.closed
    <3>1. TaskAwaits("vnc logon")
      BY <1>14, <2>3 DEF CredentialsStart
    <3>2. "vnc logon" \in {"post-auth", "logon", "vnc logon"} /\ "vnc logon" # "logon"
      OBVIOUS
    <3> QED BY <1>2, <1>3, <2>1, <3>1, <3>2, TaskAwaitStep
  <2> QED BY <2>2, <2>3
<1>15. CASE CredentialsGiven
  <2>1. /\ Head(tasks) = "credentials" /\ TaskEnds
        /\ UNCHANGED <<desktop, gateway, ticket, stream>>
    BY <1>15 DEF CredentialsGiven, RunningTask
  <2>2. ~Rdp /\ logon.candidate = 0 /\ "credentials" \in view.sent
    BY <1>4, <2>1, HeadPlaced
  <2>3. CASE view' = [view EXCEPT !.attempt = 0] /\ UNCHANGED logon
    <3>1. 0 \in Nat
      OBVIOUS
    <3>2. view' \in ViewState /\ view'.sent = view.sent
      BY <1>3, <2>3, <3>1 DEF ViewState
    <3>3. RememberedLogonWorked' /\ logon'.candidate = 0
      BY <1>3, <2>2, <2>3 DEF RememberedLogonWorked
    <3> QED BY <1>2, <1>3, <1>4, <2>1, <2>2, <2>3, <3>2, <3>3, TaskEndStep
  <2>4. CASE /\ \E remember \in BOOLEAN : logon' = [Typed(remember) EXCEPT !.vncRejected = FALSE]
             /\ view' = [view EXCEPT !.attempt = logon.attempts + 1]
    <3>1. PICK remember \in BOOLEAN : logon' = [Typed(remember) EXCEPT !.vncRejected = FALSE]
      BY <2>4
    <3> DEFINE l == Typed(remember)
               m == [l EXCEPT !.vncRejected = FALSE]
    <3>2. /\ l \in LogonState /\ l.attempts = logon.attempts + 1
          /\ l.candidate = IF remember THEN logon.attempts + 1 ELSE 0
          /\ l.remembered = logon.remembered /\ l.proved = logon.proved
          /\ logon.attempts + 1 \in Nat
      BY <1>11
    <3>3. logon' = m
      BY <3>1
    <3> HIDE DEF l
    <3>4. FALSE \in BOOLEAN
      OBVIOUS
    <3>5. /\ m \in LogonState /\ m.attempts = l.attempts /\ m.candidate = l.candidate
          /\ m.remembered = l.remembered /\ m.proved = l.proved
      BY <3>2, <3>4 DEF LogonState
    <3> HIDE DEF m
    <3>6. view' \in ViewState /\ view'.sent = view.sent /\ view'.attempt = logon.attempts + 1
      BY <1>3, <2>4, <3>2 DEF ViewState
    <3>7. /\ logon' \in LogonState /\ logon'.candidate \in {0, view'.attempt}
          /\ RememberedLogonWorked'
      BY <1>10, <3>2, <3>3, <3>5, <3>6
    <3> QED BY <1>2, <1>4, <2>1, <2>2, <3>6, <3>7, TaskEndStep
  <2> QED BY <1>15, <2>3, <2>4 DEF CredentialsGiven
<1>16. CASE LoginSucceeded
  <2>1. /\ Head(tasks) = "connected" /\ TaskEnds
        /\ UNCHANGED <<desktop, gateway, ticket, stream, view>>
    BY <1>16 DEF LoginSucceeded, RunningTask
  <2>2. CASE desktop.closed
    <3>1. TaskFails
      BY <1>16, <2>1, <2>2 DEF LoginSucceeded, TaskFails
    <3> QED BY <1>5, <3>1
  <2>3. CASE ~desktop.closed
    <3>1. PICK stored \in {logon.remembered, logon.candidate} :
            logon' = [logon EXCEPT !.candidate = 0, !.remembered = stored]
      BY <1>16, <2>3 DEF LoginSucceeded
    <3>2. logon.remembered \in Nat /\ logon.candidate \in Nat /\ 0 \in Nat
      BY <1>3 DEF LogonState
    <3>3. /\ logon' \in LogonState /\ logon'.candidate = 0
          /\ logon'.remembered = stored /\ logon'.proved = logon.proved
      BY <1>3, <3>1, <3>2 DEF LogonState
    <3>4. logon.candidate \in logon.proved \union {0}
      BY <1>4, <2>1, HeadPlaced
    <3>5. RememberedLogonWorked'
      BY <1>3, <3>3, <3>4 DEF RememberedLogonWorked
    <3> QED BY <1>2, <1>3, <1>4, <2>1, <3>3, <3>5, TaskEndStep
  <2> QED BY <2>2, <2>3
<1> QED BY <1>6, <1>7, <1>8, <1>9, <1>12, <1>13, <1>14, <1>15, <1>16


\* One stream changes.
LEMMA OneStreamStep ==
  ASSUME DesktopInv, NEW k \in Ticket, NEW s \in StreamState, SoundStream(s),
         stream' = [stream EXCEPT ![k] = s], UNCHANGED <<desktop, gateway, tasks, at, logon, view>>,
         \/ UNCHANGED ticket /\ s.opened = stream[k].opened
         \/ /\ ticket[k] # "none" /\ ticket' = [ticket EXCEPT ![k] = "used"]
            /\ s.opened \in {0, 1}
  PROVE  DesktopInv'
<1>1. /\ DesktopTypes /\ GatewayAccounted /\ TicketsInOrder /\ AttemptFollowed
      /\ (\A i \in Ticket : StreamOK(i)) /\ \A i \in DOMAIN tasks : TaskPlaced(i)
  BY DEF DesktopInv
<1>2. /\ stream' \in [Ticket -> StreamState] /\ stream'[k] = s
      /\ \A i \in Ticket : i # k => stream'[i] = stream[i]
  BY <1>1 DEF DesktopTypes
<1>3. /\ ticket' \in [Ticket -> TicketState]
      /\ \A i \in Ticket : i # k => ticket'[i] = ticket[i]
      /\ \A i \in Ticket : ticket'[i] # "none" <=> ticket[i] # "none"
      /\ UNCHANGED ticket \/ ticket'[k] = "used"
  BY <1>1 DEF DesktopTypes, TicketState
<1>4. ASSUME NEW i \in Ticket
      PROVE  StreamOK(i)'
  <2>1. CASE i # k
    BY <1>1, <1>2, <1>3, <2>1 DEF StreamOK, SoundStream, Through
  <2>2. CASE i = k
    <3>1. SoundStream(s)'
      BY DEF SoundStream, Through
    <3>2. s.opened = 0 \/ (s.opened = 1 /\ ticket'[k] = "used")
      BY <1>1, <1>3 DEF StreamOK
    <3> QED BY <1>2, <2>2, <3>1, <3>2 DEF StreamOK, SoundStream, Through
  <2> QED BY <2>1, <2>2
<1>5. TicketsInOrder'
  BY <1>1, <1>3 DEF TicketsInOrder
<1>6. DesktopTypes'
  BY <1>1, <1>2, <1>3 DEF DesktopTypes
<1>7. GatewayAccounted' /\ AttemptFollowed' /\ \A i \in DOMAIN tasks' : TaskPlaced(i)'
  BY <1>1 DEF GatewayAccounted, RunningTask, AttemptFollowed, RememberedLogonWorked, TaskPlaced, Rdp
<1> QED BY <1>4, <1>5, <1>6, <1>7 DEF DesktopInv

LEMMA DroppedOK ==
  ASSUME NEW s \in StreamState, SoundStream(s)
  PROVE  LET d == Dropped(s)
         IN  /\ d \in StreamState /\ SoundStream(d) /\ d.opened = s.opened
             /\ d.upstream # "alive" /\ d.opening = s.opening /\ d.route = s.route
<1> DEFINE a == IF s.at = "none" THEN s.at ELSE "gone"
           c == IF s.socket = "open" THEN "closed" ELSE s.socket
           u == IF s.upstream = "alive" THEN "destroyed" ELSE s.upstream
<1>1. /\ a \in {"none", "opening", "tls", "certificate", "relay", "gone"}
      /\ c \in {"none", "open", "closed"} /\ u \in {"none", "alive", "destroyed"} /\ u # "alive"
  BY DEF StreamState
<1>2. Dropped(s) = [s EXCEPT !.at = a, !.socket = c, !.upstream = u]
  BY DEF Dropped
<1> HIDE DEF a, c, u
<1>3. LET d == Dropped(s)
      IN  /\ d \in StreamState /\ d.opened = s.opened /\ d.upstream = u /\ d.opening = s.opening
          /\ d.route = s.route
  BY <1>1, <1>2, ZenonT(40) DEF StreamState
<1> QED BY <1>1, <1>3 DEF SoundStream

\* A stream is opened through the gateway that is held, or directly, or not at all.
LEMMA OpeningOK ==
  ASSUME GatewayAccounted, NEW s \in StreamState, SoundStream(s), s.upstream # "alive"
  PROVE  LET o == Opening(s)
         IN  o \in StreamState /\ SoundStream(o) /\ o.opened = s.opened
<1>1. CASE Route = "none"
  <2> DEFINE o == [s EXCEPT !.at = "gone", !.socket = "closed"]
  <2>1. Opening(s) = o
    BY <1>1 DEF Opening
  <2>2. /\ o \in StreamState /\ o.route = s.route /\ o.opened = s.opened
        /\ o.opening = s.opening /\ o.upstream = s.upstream
    BY DEF StreamState
  <2> HIDE DEF o
  <2> QED BY <2>1, <2>2 DEF SoundStream
<1>2. CASE Route # "none"
  <2> DEFINE o == [s EXCEPT !.at = "opening", !.opening = TRUE, !.route = Route, !.dials = @ + 1]
  <2>1. Opening(s) = o
    BY <1>2 DEF Opening
  <2>2. Route = Through /\ Route \in {"none", "gateway", "direct"}
    BY <1>2 DEF Route, Through, GatewayAccounted
  <2>3. TRUE \in BOOLEAN /\ s.dials + 1 \in Nat
    <3>1. s.dials \in Nat
      BY DEF StreamState
    <3> QED BY <3>1
  <2>4. /\ o \in StreamState /\ o.route = Route /\ o.opened = s.opened /\ o.upstream = s.upstream
    BY <2>2, <2>3 DEF StreamState
  <2> HIDE DEF o
  <2> QED BY <1>2, <2>1, <2>2, <2>4 DEF SoundStream
<1> QED BY <1>1, <1>2

LEMMA StreamsKeep ==
  ASSUME DesktopInv, NEW k \in Ticket,
         \/ Redeem(k) \/ TicketExpires(k) \/ StreamOpens(k) \/ StreamFails(k)
         \/ StreamTimesOut(k) \/ TlsDone(k) \/ TlsAgain(k) \/ CertificateJudged(k)
         \/ StreamEnds(k)
  PROVE  DesktopInv'
<1>1. /\ DesktopTypes /\ GatewayAccounted /\ TicketsInOrder /\ AttemptFollowed
      /\ (\A i \in Ticket : StreamOK(i)) /\ \A i \in DOMAIN tasks : TaskPlaced(i)
  BY DEF DesktopInv
<1> DEFINE s == stream[k]
<1>2. /\ stream \in [Ticket -> StreamState] /\ s \in StreamState /\ SoundStream(s)
      /\ s.opened = 0 \/ (s.opened = 1 /\ ticket[k] = "used")
  BY <1>1 DEF DesktopTypes, StreamOK
<1>3. UNCHANGED <<desktop, gateway, tasks, at, logon, view>>
  BY DEF Redeem, TicketExpires, StreamOpens, StreamFails, StreamTimesOut, TlsDone, TlsAgain,
         CertificateJudged, StreamEnds
<1>4. ASSUME NEW d \in StreamState, SoundStream(d), stream' = [stream EXCEPT ![k] = d],
             d.opened = s.opened, UNCHANGED ticket
      PROVE  DesktopInv'
  BY <1>3, <1>4, OneStreamStep
<1>5. FALSE \in BOOLEAN /\ TRUE \in BOOLEAN
  OBVIOUS
<1>6. CASE Redeem(k)
  <2>1. ticket[k] # "none" /\ ticket' = [ticket EXCEPT ![k] = "used"]
    BY <1>6 DEF Redeem
  <2>2. CASE Redeemable(k)
    <3> DEFINE n == [NoStream EXCEPT !.socket = "open", !.opened = stream[k].opened + 1]
    <3>1. s.opened = 0
      BY <1>2, <2>2 DEF Redeemable
    <3>2. s.opened + 1 = 1 /\ 1 \in Nat /\ 0 \in Nat
      BY <3>1
    <3>3. /\ n \in StreamState /\ n.opened = 1 /\ n.upstream = "none" /\ n.route = "none"
          /\ ~n.opening
      BY <1>5, <3>2 DEF NoStream, StreamState
    <3>4. stream' = [stream EXCEPT ![k] = Opening(n)]
      BY <1>6, <2>2 DEF Redeem
    <3> HIDE DEF n
    <3>5. SoundStream(n)
      BY <3>3 DEF SoundStream
    <3> DEFINE o == Opening(n)
    <3>6. o \in StreamState /\ SoundStream(o) /\ o.opened = 1
      BY <1>1, <3>3, <3>5, OpeningOK
    <3> HIDE DEF o
    <3> QED BY <1>3, <2>1, <3>4, <3>6, OneStreamStep DEF o
  <2>3. CASE ~Redeemable(k)
    <3>1. stream' = [stream EXCEPT ![k] = s]
      BY <1>2, <1>6, <2>3 DEF Redeem
    <3>2. s.opened \in {0, 1}
      BY <1>2
    <3> QED BY <1>2, <1>3, <2>1, <3>1, <3>2, OneStreamStep
  <2> QED BY <2>2, <2>3
<1>7. CASE TicketExpires(k)
  <2>1. ticket[k] = "issued" /\ ticket' = [ticket EXCEPT ![k] = "expired"] /\ UNCHANGED stream
    BY <1>7 DEF TicketExpires
  <2>2. /\ ticket' \in [Ticket -> TicketState]
        /\ \A i \in Ticket : ticket'[i] # "none" <=> ticket[i] # "none"
        /\ \A i \in Ticket : ticket[i] = "used" => ticket'[i] = "used"
    BY <1>1, <2>1 DEF DesktopTypes, TicketState
  <2>3. TicketsInOrder'
    BY <1>1, <2>2 DEF TicketsInOrder
  <2>4. DesktopTypes' /\ \A i \in Ticket : StreamOK(i)'
    BY <1>1, <1>3, <2>1, <2>2 DEF DesktopTypes, StreamOK, SoundStream, Through
  <2>5. GatewayAccounted' /\ AttemptFollowed' /\ \A i \in DOMAIN tasks' : TaskPlaced(i)'
    BY <1>1, <1>3 DEF GatewayAccounted, RunningTask, AttemptFollowed, RememberedLogonWorked,
                      TaskPlaced, Rdp
  <2> QED BY <2>3, <2>4, <2>5 DEF DesktopInv
<1>8. CASE StreamOpens(k)
  <2>1. s.opening /\ s.route # "none" /\ s.route = Through /\ s.upstream # "alive"
    BY <1>2, <1>8 DEF StreamOpens, SoundStream
  <2>2. CASE Wanted(k)
    <3> DEFINE a == IF Rdp THEN "tls" ELSE "relay"
               d == [s EXCEPT !.opening = FALSE, !.upstream = "alive", !.at = a]
    <3>1. /\ a \in {"none", "opening", "tls", "certificate", "relay", "gone"} /\ a # "opening"
      OBVIOUS
    <3>2. stream' = [stream EXCEPT ![k] = d] /\ UNCHANGED ticket
      BY <1>8, <2>2 DEF StreamOpens
    <3> HIDE DEF a
    <3>3. /\ d \in StreamState /\ d.route = s.route /\ d.at = a /\ ~d.opening
          /\ d.opened = s.opened
      BY <1>2, <1>5, <3>1 DEF StreamState
    <3> HIDE DEF d
    <3>4. SoundStream(d)
      BY <2>1, <2>2, <3>1, <3>3 DEF SoundStream, Wanted
    <3> QED BY <1>4, <3>2, <3>3, <3>4
  <2>3. CASE ~Wanted(k)
    <3> DEFINE d == [s EXCEPT !.opening = FALSE, !.upstream = "destroyed", !.at = "gone"]
    <3>1. stream' = [stream EXCEPT ![k] = d] /\ UNCHANGED ticket
      BY <1>8, <2>3 DEF StreamOpens
    <3>2. /\ d \in StreamState /\ d.route = s.route /\ d.upstream = "destroyed" /\ ~d.opening
          /\ d.opened = s.opened
      BY <1>2, <1>5 DEF StreamState
    <3> HIDE DEF d
    <3>3. SoundStream(d)
      BY <2>1, <3>2 DEF SoundStream
    <3> QED BY <1>4, <3>1, <3>2, <3>3
  <2> QED BY <2>2, <2>3
<1> DEFINE dropped == Dropped(s)
<1>9. /\ dropped \in StreamState /\ SoundStream(dropped) /\ dropped.opened = s.opened
      /\ dropped.upstream # "alive" /\ dropped.opening = s.opening /\ dropped.route = s.route
  BY <1>2, DroppedOK
<1>10. CASE StreamFails(k)
  <2> DEFINE d == [dropped EXCEPT !.opening = FALSE]
  <2>1. stream' = [stream EXCEPT ![k] = d] /\ UNCHANGED ticket
    BY <1>10 DEF StreamFails
  <2> HIDE DEF dropped
  <2>2. /\ d \in StreamState /\ ~d.opening /\ d.upstream = dropped.upstream
        /\ d.route = dropped.route /\ d.opened = dropped.opened
    BY <1>5, <1>9 DEF StreamState
  <2> HIDE DEF d
  <2>3. SoundStream(d)
    BY <1>9, <2>2 DEF SoundStream
  <2> QED BY <1>4, <1>9, <2>1, <2>2, <2>3
<1>11. ASSUME NEW a \in {"certificate", "relay"}, s.at \in {"tls", "certificate"},
              stream' = [stream EXCEPT ![k] = [s EXCEPT !.at = a]], UNCHANGED ticket
       PROVE  DesktopInv'
  <2> DEFINE d == [s EXCEPT !.at = a]
  <2>1. /\ d \in StreamState /\ d.opening = s.opening /\ d.upstream = s.upstream
        /\ d.route = s.route /\ d.opened = s.opened /\ d.at = a
    BY <1>2 DEF StreamState
  <2>2. stream' = [stream EXCEPT ![k] = d]
    BY <1>11
  <2> HIDE DEF d
  <2>3. SoundStream(d)
    BY <1>2, <2>1 DEF SoundStream
  <2> QED BY <1>4, <1>11, <2>1, <2>2, <2>3
<1>12. CASE StreamTimesOut(k)
  <2>1. stream' = [stream EXCEPT ![k] = dropped] /\ UNCHANGED ticket
    BY <1>12 DEF StreamTimesOut
  <2> HIDE DEF dropped
  <2> QED BY <1>4, <1>9, <2>1
<1>13. CASE TlsDone(k)
  <2>1. /\ s.at = "tls" /\ UNCHANGED ticket
        /\ stream' = [stream EXCEPT ![k] = [s EXCEPT !.at = "certificate"]]
    BY <1>13 DEF TlsDone
  <2> QED BY <1>11, <2>1
<1>14. CASE TlsAgain(k)
  <2> DEFINE c == [s EXCEPT !.upstream = "destroyed"]
             o == Opening(c)
  <2>1. stream' = [stream EXCEPT ![k] = o] /\ UNCHANGED ticket
    BY <1>14 DEF TlsAgain
  <2>2. /\ c \in StreamState /\ c.opening = s.opening /\ c.upstream = "destroyed"
        /\ c.route = s.route /\ c.opened = s.opened
    BY <1>2 DEF StreamState
  <2> HIDE DEF c
  <2>3. SoundStream(c) /\ c.upstream # "alive"
    BY <1>2, <2>2 DEF SoundStream
  <2>4. o \in StreamState /\ SoundStream(o) /\ o.opened = c.opened
    BY <1>1, <2>2, <2>3, OpeningOK
  <2> HIDE DEF o
  <2> QED BY <1>4, <2>1, <2>2, <2>4
<1>15. CASE CertificateJudged(k)
  <2>1. PICK accept \in BOOLEAN :
          stream' = [stream EXCEPT ![k] = IF accept THEN [s EXCEPT !.at = "relay"] ELSE dropped]
    BY <1>15 DEF CertificateJudged
  <2>2. s.at = "certificate" /\ UNCHANGED ticket
    BY <1>15 DEF CertificateJudged
  <2> HIDE DEF dropped
  <2>3. CASE accept
    BY <1>11, <2>1, <2>2, <2>3
  <2>4. CASE ~accept
    BY <1>4, <1>9, <2>1, <2>2, <2>4
  <2> QED BY <2>3, <2>4
<1>16. CASE StreamEnds(k)
  <2>1. UNCHANGED ticket
    BY <1>16 DEF StreamEnds
  <2>2. CASE s.at = "opening"
    <3> DEFINE d == [s EXCEPT !.socket = "closed"]
    <3>1. stream' = [stream EXCEPT ![k] = d]
      BY <1>16, <2>2 DEF StreamEnds
    <3>2. /\ d \in StreamState /\ d.opening = s.opening /\ d.upstream = s.upstream
          /\ d.route = s.route /\ d.opened = s.opened /\ d.at = s.at
      BY <1>2 DEF StreamState
    <3> HIDE DEF d
    <3>3. SoundStream(d)
      BY <1>2, <3>2 DEF SoundStream
    <3> QED BY <1>4, <2>1, <3>1, <3>2, <3>3
  <2>3. CASE s.at # "opening"
    <3>1. stream' = [stream EXCEPT ![k] = dropped]
      BY <1>16, <2>3 DEF StreamEnds
    <3> HIDE DEF dropped
    <3> QED BY <1>4, <1>9, <2>1, <3>1
  <2> QED BY <2>2, <2>3
<1> QED BY <1>6, <1>7, <1>8, <1>10, <1>12, <1>13, <1>14, <1>15, <1>16


\* The tab asks for something: it holds a ticket, and has not been answered by the desktop yet.
LEMMA SendStep ==
  ASSUME DesktopInv, NEW op \in Task, op # "connect", NEW k \in Ticket, Views(k), Send(op),
         UNCHANGED <<desktop, gateway, at, ticket, stream>>,
         logon' \in LogonState, logon'.candidate = logon.candidate,
         logon'.remembered = logon.remembered, logon.proved \subseteq logon'.proved,
         op = "connected" => (Rdp \/ tasks = <<>>) /\ view.attempt \in logon'.proved,
         op = "credentials" => tasks = <<>> /\ ~Rdp /\ "credentials" \notin view.sent,
         op = "server-key" => ~Rdp
  PROVE  DesktopInv'
<1>1. /\ DesktopTypes /\ GatewayAccounted /\ TicketsInOrder /\ AttemptFollowed
      /\ (\A i \in Ticket : StreamOK(i)) /\ \A i \in DOMAIN tasks : TaskPlaced(i)
  BY DEF DesktopInv
<1>2. /\ view.ticket # 0 /\ "connected" \notin view.sent /\ "retry" \notin view.sent
  <2>1. view.ticket = k /\ view.sent \intersect {"connected", "retry"} = {}
    BY DEF Views
  <2>2. k # 0
    BY DesktopAssumption DEF Ticket
  <2> QED BY <2>1, <2>2
<1>3. /\ tasks \in Seq(Task) /\ Len(tasks) \in Nat /\ DOMAIN tasks = 1 .. Len(tasks)
      /\ \A i \in 1 .. Len(tasks) : tasks[i] \in Task
  BY <1>1, LenProperties, ElementOfSeq DEF DesktopTypes
<1>4. ASSUME NEW i \in 1 .. Len(tasks)
      PROVE  /\ ~Rdp
             /\ \/ tasks[i] = "server-key"
                \/ /\ tasks[i] = "credentials" /\ i = 1 /\ "credentials" \in view.sent
                   /\ logon.candidate = 0
  <2>1. TaskPlaced(i) /\ tasks[i] \in Task
    BY <1>1, <1>3
  <2> QED BY <1>2, <2>1 DEF TaskPlaced, Task
<1>5. Rdp => tasks = <<>>
  <2>1. Rdp => Len(tasks) = 0
    <3>1. Rdp => ~(1 \in 1 .. Len(tasks))
      BY <1>4
    <3> QED BY <1>3, <3>1
  <2> QED BY <1>3, <2>1, EmptySeq
<1>6. /\ tasks' = Append(tasks, op) /\ view' = [view EXCEPT !.sent = @ \union {op}]
  BY DEF Send
<1>7. /\ tasks' \in Seq(Task) /\ Len(tasks') = Len(tasks) + 1
      /\ \A i \in 1 .. Len(tasks) : tasks'[i] = tasks[i]
      /\ tasks'[Len(tasks) + 1] = op
  BY <1>3, <1>6, AppendProperties
<1>8. DOMAIN tasks' = 1 .. Len(tasks) + 1
  BY <1>7, LenProperties
<1>9. /\ view' \in ViewState /\ view'.ticket = view.ticket /\ view'.attempt = view.attempt
      /\ view'.sent = view.sent \union {op}
  <2>1. view \in ViewState
    BY <1>1 DEF DesktopTypes
  <2>2. view.sent \union {op} \in SUBSET Task
    BY <2>1 DEF ViewState
  <2> QED BY <1>6, <2>1, <2>2 DEF ViewState
<1>10. Rdp' = Rdp
  BY DEF Rdp
<1>11. ASSUME NEW i \in DOMAIN tasks'
       PROVE  TaskPlaced(i)'
  <2>1. CASE i = Len(tasks) + 1
    <3>1. tasks'[i] = op /\ i = Len(tasks')
      BY <1>7, <2>1
    <3>2. tasks = <<>> => Len(tasks') = 1 /\ i = 1
      <4>1. tasks = <<>> => Len(tasks) = 0
        BY EmptySeq
      <4> QED BY <1>7, <2>1, <4>1
    <3>3. op = "connected" => /\ Len(tasks') = 1 /\ "connected" \in view'.sent
                              /\ logon'.candidate \in logon'.proved \union {0}
      <4>1. logon.candidate \in {0, view.attempt}
        BY <1>1 DEF AttemptFollowed
      <4> QED BY <1>5, <1>9, <3>2, <4>1
    <3>4. op = "retry" => "retry" \in view'.sent /\ (Rdp => Len(tasks') = 1)
      BY <1>5, <1>9, <3>2
    <3>5. op = "credentials" => /\ i = 1 /\ "credentials" \in view'.sent
                                /\ logon'.candidate = 0
      BY <1>1, <1>9, <3>2 DEF AttemptFollowed
    <3> QED BY <1>10, <3>1, <3>3, <3>4, <3>5 DEF TaskPlaced
  <2>2. CASE i # Len(tasks) + 1
    <3>1. i \in 1 .. Len(tasks) /\ tasks'[i] = tasks[i]
      BY <1>3, <1>7, <1>8, <2>2
    <3>2. ~Rdp /\ (tasks[i] = "server-key" \/ (tasks[i] = "credentials" /\ i = 1
                                              /\ "credentials" \in view.sent
                                              /\ logon.candidate = 0))
      BY <1>4, <3>1
    <3> QED BY <1>9, <1>10, <3>1, <3>2 DEF TaskPlaced
  <2> QED BY <2>1, <2>2
<1>12. AttemptFollowed'
  BY <1>1, <1>9, <1>10 DEF AttemptFollowed, RememberedLogonWorked
<1>13. GatewayAccounted'
  <2>1. tasks' # <<>> /\ Head(tasks') = tasks'[1]
    <3>1. Len(tasks') # 0
      BY <1>3, <1>7
    <3> QED BY <1>7, <3>1, EmptySeq
  <2>2. Head(tasks') # "connect"
    <3>1. CASE Len(tasks) = 0
      BY <1>7, <2>1, <3>1
    <3>2. CASE Len(tasks) # 0
      <4>1. 1 \in 1 .. Len(tasks)
        BY <1>3, <3>2
      <4> QED BY <1>4, <1>7, <2>1, <4>1
    <3> QED BY <3>1, <3>2
  <2> QED BY <1>1, <2>2 DEF GatewayAccounted, RunningTask
<1>14. DesktopTypes' /\ TicketsInOrder' /\ \A i \in Ticket : StreamOK(i)'
  BY <1>1, <1>7, <1>9 DEF DesktopTypes, TicketsInOrder, StreamOK, SoundStream, Through
<1> QED BY <1>11, <1>12, <1>13, <1>14 DEF DesktopInv

LEMMA TabAsks ==
  ASSUME DesktopInv, NEW k \in Ticket,
         AsksAboutKey(k) \/ AsksForCredentials(k) \/ LogsIn(k) \/ IsRejected(k)
  PROVE  DesktopInv'
<1>1. logon \in LogonState /\ view \in ViewState
  BY DEF DesktopInv, DesktopTypes
<1>2. Views(k) /\ UNCHANGED <<desktop, gateway, at, ticket, stream>>
  BY DEF AsksAboutKey, AsksForCredentials, LogsIn, IsRejected, Sends
<1>3. {"server-key", "credentials", "connected", "retry"} \subseteq Task \ {"connect"}
  BY DEF Task
<1>4. CASE AsksAboutKey(k)
  <2>1. Send("server-key") /\ ~Rdp /\ UNCHANGED logon
    BY <1>4 DEF AsksAboutKey
  <2> QED BY <1>1, <1>2, <1>3, <2>1, SendStep
<1>5. CASE AsksForCredentials(k)
  <2>1. /\ Send("credentials") /\ ~Rdp /\ UNCHANGED logon /\ tasks = <<>>
        /\ "credentials" \notin view.sent
    BY <1>5 DEF AsksForCredentials
  <2> QED BY <1>1, <1>2, <1>3, <2>1, SendStep
<1>6. CASE IsRejected(k)
  <2>1. Send("retry") /\ UNCHANGED logon
    BY <1>6 DEF IsRejected
  <2> QED BY <1>1, <1>2, <1>3, <2>1, SendStep
<1>7. CASE LogsIn(k)
  <2>1. /\ Send("connected") /\ (Rdp \/ tasks = <<>>)
        /\ logon' = [logon EXCEPT !.proved = @ \union {view.attempt}]
    BY <1>7 DEF LogsIn
  <2>2. /\ logon.proved \in SUBSET Nat /\ view.attempt \in Nat
    BY <1>1 DEF LogonState, ViewState
  <2>3. logon.proved \union {view.attempt} \in SUBSET Nat
    BY <2>2
  <2>4. /\ logon' \in LogonState /\ logon'.candidate = logon.candidate
        /\ logon'.remembered = logon.remembered
        /\ logon'.proved = logon.proved \union {view.attempt}
    BY <1>1, <2>1, <2>3 DEF LogonState
  <2> QED BY <1>2, <1>3, <2>1, <2>4, SendStep
<1> QED BY <1>4, <1>5, <1>6, <1>7

LEMMA TabClosesKeeps ==
  ASSUME DesktopInv, TabCloses
  PROVE  DesktopInv'
<1>1. /\ DesktopTypes /\ GatewayAccounted /\ TicketsInOrder /\ AttemptFollowed
      /\ (\A i \in Ticket : StreamOK(i)) /\ \A i \in DOMAIN tasks : TaskPlaced(i)
  BY DEF DesktopInv
<1>2. TRUE \in BOOLEAN /\ FALSE \in BOOLEAN /\ 0 \in Nat
  OBVIOUS
<1>3. /\ desktop' \in TabState /\ desktop'.closed /\ desktop'.kind = desktop.kind
      /\ desktop'.needsGateway = desktop.needsGateway
  BY <1>1, <1>2 DEF TabCloses, DesktopTypes, TabState
<1>4. Rdp' = Rdp /\ Through' = Through
  BY <1>3 DEF Rdp, Through
<1>5. UNCHANGED <<tasks, at, ticket, view>>
  BY DEF TabCloses
<1>6. /\ logon' \in LogonState /\ logon'.candidate = 0 /\ logon'.proved = logon.proved
      /\ logon'.remembered = logon.remembered
  BY <1>1, <1>2 DEF TabCloses, DesktopTypes, LogonState
<1>7. gateway' \in GatewayState /\ ~gateway'.held /\ gateway'.taken = gateway'.released
  <2>1. gateway \in GatewayState /\ gateway.taken \in Nat /\ gateway.released \in Nat
    BY <1>1 DEF DesktopTypes, GatewayState
  <2>2. CASE gateway.held
    <3>1. gateway' = [gateway EXCEPT !.held = FALSE, !.released = @ + 1]
      BY <2>2 DEF TabCloses
    <3>2. gateway.released + 1 \in Nat
      BY <2>1
    <3>3. /\ gateway' \in GatewayState /\ ~gateway'.held /\ gateway'.taken = gateway.taken
          /\ gateway'.released = gateway.released + 1
      BY <1>2, <2>1, <3>1, <3>2 DEF GatewayState
    <3> QED BY <1>1, <2>2, <3>3 DEF GatewayAccounted
  <2>3. CASE ~gateway.held
    BY <1>1, <2>1, <2>3 DEF TabCloses, GatewayAccounted
  <2> QED BY <2>2, <2>3
<1>8. ASSUME NEW k \in Ticket
      PROVE  stream'[k] \in StreamState /\ StreamOK(k)'
  <2>1. stream[k] \in StreamState /\ SoundStream(stream[k])
        /\ (stream[k].opened = 0 \/ (stream[k].opened = 1 /\ ticket[k] = "used"))
    BY <1>1 DEF DesktopTypes, StreamOK
  <2>2. stream'[k] = IF stream[k].at = "opening" /\ ~Rdp THEN stream[k] ELSE Dropped(stream[k])
    BY DEF TabCloses
  <2> DEFINE d == Dropped(stream[k])
  <2>3. /\ d \in StreamState /\ SoundStream(d) /\ d.opened = stream[k].opened
        /\ d.upstream # "alive" /\ d.opening = stream[k].opening /\ d.route = stream[k].route
    BY <2>1, DroppedOK
  <2> HIDE DEF d
  <2>4. /\ stream'[k] \in StreamState /\ SoundStream(stream'[k]) /\ stream'[k].upstream # "alive"
        /\ stream'[k].opened = stream[k].opened
    <3>1. CASE stream[k].at = "opening" /\ ~Rdp
      BY <2>1, <2>2, <3>1 DEF SoundStream
    <3>2. CASE ~(stream[k].at = "opening" /\ ~Rdp)
      BY <2>2, <2>3, <3>2 DEF d
    <3> QED BY <3>1, <3>2
  <2> QED BY <1>4, <1>5, <2>1, <2>4 DEF StreamOK, SoundStream
<1>9. stream' \in [Ticket -> StreamState]
  <2>1. stream' = [k \in Ticket |-> stream'[k]]
    BY DEF TabCloses
  <2> QED BY <1>8, <2>1
<1>10. DesktopTypes'
  BY <1>1, <1>3, <1>5, <1>6, <1>7, <1>9 DEF DesktopTypes
<1>11. GatewayAccounted'
  BY <1>1, <1>3, <1>5, <1>7 DEF GatewayAccounted, RunningTask
<1>12. \A i \in DOMAIN tasks' : TaskPlaced(i)'
  BY <1>1, <1>4, <1>5, <1>6 DEF TaskPlaced
<1>13. AttemptFollowed' /\ TicketsInOrder'
  BY <1>1, <1>4, <1>5, <1>6 DEF AttemptFollowed, RememberedLogonWorked, TicketsInOrder
<1> QED BY <1>8, <1>10, <1>11, <1>12, <1>13 DEF DesktopInv

THEOREM DesktopInvHolds == DesktopSpec => []DesktopInv
<1>1. DesktopInit => DesktopInv
  <2> SUFFICES ASSUME DesktopInit
               PROVE  DesktopInv
    OBVIOUS
  <2>1. TRUE \in BOOLEAN /\ FALSE \in BOOLEAN /\ 0 \in Nat /\ {} \in SUBSET Nat
        /\ {} \in SUBSET Task
    OBVIOUS
  <2>2. desktop \in TabState
    BY <2>1 DEF DesktopInit, TabState
  <2>3. gateway \in GatewayState /\ ~gateway.held /\ gateway.taken = gateway.released
    BY <2>1 DEF DesktopInit, GatewayState
  <2>4. tasks = <<"connect">> /\ at = "queued"
    BY DEF DesktopInit
  <2>5. tasks \in Seq(Task) /\ Len(tasks) = 1 /\ DOMAIN tasks = {1} /\ tasks[1] = "connect"
    <3>1. "connect" \in Task
      BY DEF Task
    <3> QED BY <2>4, <3>1
  <2>6. /\ logon \in LogonState /\ logon.candidate = 0 /\ logon.remembered = 0
    BY <2>1 DEF DesktopInit, LogonState
  <2>7. /\ ticket \in [Ticket -> TicketState] /\ \A k \in Ticket : ticket[k] = "none"
    BY DEF DesktopInit, TicketState
  <2>8. NoStream \in StreamState /\ NoStream.opened = 0 /\ SoundStream(NoStream)
    BY <2>1 DEF NoStream, StreamState, SoundStream
  <2>9. stream \in [Ticket -> StreamState] /\ \A k \in Ticket : StreamOK(k)
    BY <2>8 DEF DesktopInit, StreamOK
  <2>10. view \in ViewState /\ view.ticket = 0 /\ view.attempt = 0
    BY <2>1 DEF DesktopInit, ViewState
  <2>11. TicketsInOrder
    <3>1. 0 \in 0 .. MaxTickets /\ \A k \in Ticket : ~(k <= 0)
      BY DesktopAssumption DEF Ticket
    <3> QED BY <2>7, <3>1 DEF TicketsInOrder
  <2>12. \A i \in DOMAIN tasks : TaskPlaced(i)
    BY <2>5, <2>6, <2>10 DEF TaskPlaced
  <2>13. GatewayAccounted
    BY <2>3, <2>4 DEF GatewayAccounted, RunningTask
  <2>14. AttemptFollowed
    BY <2>4, <2>6 DEF AttemptFollowed, RememberedLogonWorked
  <2> QED BY <2>2, <2>3, <2>5, <2>6, <2>7, <2>9, <2>10, <2>11, <2>12, <2>13, <2>14
          DEF DesktopInv, DesktopTypes
<1>2. DesktopInv /\ [DesktopNext]_desktopVars => DesktopInv'
  <2>1. ASSUME DesktopInv, DesktopNext
        PROVE  DesktopInv'
    BY <2>1, TasksKeep, StreamsKeep, TabAsks, TabClosesKeeps DEF DesktopNext
  <2>2. ASSUME DesktopInv, UNCHANGED desktopVars
        PROVE  DesktopInv'
    BY <2>2 DEF desktopVars, DesktopInv, DesktopTypes, GatewayAccounted, StreamOK, SoundStream,
       Through, TicketsInOrder, TaskPlaced, AttemptFollowed, RememberedLogonWorked, RunningTask, Rdp
  <2> QED BY <2>1, <2>2
<1> QED BY <1>1, <1>2, PTL DEF DesktopSpec

\* No stream outlives its tab or goes past the gateway of its profile, a ticket
\* opens one stream, the gateway is given back exactly once, and a password that is
\* remembered is one the desktop accepted, whatever dials, prompts and retries
\* overlap the closing of the tab (close, dialGateway, openStream and askLogin,
\* desktop-socket.ts:189-199, 245-280, 332-382, 465-478).
THEOREM DesktopsLeaveNothing == DesktopSpec => []DesktopLeavesNothing
<1>1. DesktopInv => DesktopLeavesNothing
  <2> SUFFICES ASSUME DesktopInv
               PROVE  DesktopLeavesNothing
    OBVIOUS
  <2>1. DesktopTypes /\ GatewayAccounted /\ AttemptFollowed /\ \A k \in Ticket : StreamOK(k)
    BY DEF DesktopInv
  <2>2. ASSUME NEW k \in Ticket
        PROVE  /\ stream[k].upstream = "alive" =>
                    /\ ~desktop.closed
                    /\ stream[k].route = (IF desktop.needsGateway THEN "gateway" ELSE "direct")
               /\ stream[k].opened <= 1
    <3>1. StreamOK(k)
      BY <2>1
    <3>2. stream[k].opened = 0 \/ stream[k].opened = 1
      BY <3>1 DEF StreamOK
    <3> QED BY <3>1, <3>2 DEF StreamOK, SoundStream, Through
  <2>3. gateway.taken = gateway.released + (IF gateway.held THEN 1 ELSE 0)
    <3>1. gateway.taken \in Nat /\ gateway.released \in Nat
      BY <2>1 DEF DesktopTypes, GatewayState
    <3> QED BY <2>1, <3>1 DEF GatewayAccounted
  <2> QED BY <2>1, <2>2, <2>3
          DEF GatewayAccounted, AttemptFollowed, DesktopLeavesNothing, StreamsEndWithTheTab
<1> QED BY <1>1, DesktopInvHolds, PTL

-----------------------------------------------------------------------------
(* One dial and its authentication (SshDial) *)

Questions == {"host-key", "pin", "passphrase", "challenge"} \union Passwords
               \union {"unlock for password", "unlock for password challenge"}

\* What the ladder itself asks: it goes on with the answer.
LadderQuestions == Questions \ {"host-key", "pin"}

\* Only the deadline of a dial that goes on is armed.
DeadlineState ==
  {d \in [active : BOOLEAN, armed : BOOLEAN, depth : Nat] : d.armed => d.active}
AgentState == [request : {"no", "identities", "sign"}, owed : BOOLEAN, unavailable : BOOLEAN]
LadderState ==
  [index : Nat, left : SUBSET Methods, turn : {"client", "server", "key", "agent", "signing"},
   round : Nat, last : Methods \union {NoMethod}, partials : Seq(Methods), candidate : Nat,
   partialCandidate : Nat, saved : BOOLEAN, savedTried : BOOLEAN, retryChallenge : BOOLEAN,
   cancelled : BOOLEAN]
LoginState ==
  [offered : Nat, proved : SUBSET Nat, granted : Seq(Methods \union {NoMethod}),
   remembered : Nat, committed : BOOLEAN]

DialTypes ==
  /\ dial \in {"keys", "auth", "ready", "failed"} /\ deadline \in DeadlineState
  /\ asking \in Questions \union {"no"} /\ agent \in AgentState
  /\ ladder \in LadderState /\ login \in LoginState

\* A password is asked for in the attempt it is for.
Fits(question, l) ==
  /\ question \in {"password", "unlock for password"} => l.last = "password"
  /\ question \in {"password challenge", "unlock for password challenge"} => l.round > 0

\* Who is waited for tells whose turn it is: a PIN is the only question that does
\* not hold the ladder up, and it may outlive the request of its agent.
TurnsFollowWaits ==
  /\ dial = "keys" => /\ ladder.turn = "client" /\ ladder.candidate = 0
                      /\ agent.request = "no" /\ asking \in {"no", "host-key"}
  /\ dial = "auth" => /\ agent.request # "no" <=> ladder.turn = "agent"
                      /\ \/ asking = "no"
                         \/ asking = "pin" /\ ladder.turn \in {"agent", "client"}
                         \/ /\ asking \in LadderQuestions
                            /\ ladder.turn = "key" /\ Fits(asking, ladder)

\* A password to remember is the one that the server is deciding on, or one that it
\* has accepted.
CandidatesWereOffered ==
  /\ dial = "auth" /\ ladder.candidate # 0 =>
       /\ ladder.turn = "server" /\ ladder.candidate = login.offered
       /\ ladder.last = "password" \/ ladder.round > 0
  /\ dial = "ready" => ladder.candidate \in login.proved \union {0}
  /\ ladder.partialCandidate \in login.proved \union {0}
  /\ login.remembered \in login.proved \union {0}

GrantedInOrder ==
  /\ Dialing => ladder.partials = login.granted
  /\ dial = "ready" => AcceptedMethods = login.granted

DialInv ==
  DialTypes /\ TurnsFollowWaits /\ CandidatesWereOffered /\ GrantedInOrder /\ DeadlineRuns

-----------------------------------------------------------------------------
(* What the helpers do. *)

LEMMA PausedEffect ==
  ASSUME NEW d \in DeadlineState
  PROVE  /\ Paused(d) \in DeadlineState /\ (Paused(d).active <=> d.active)
         /\ d.active => Paused(d).depth = d.depth + 1 /\ ~Paused(d).armed
<1> DEFINE p == [d EXCEPT !.depth = d.depth + 1, !.armed = FALSE]
<1>1. FALSE \in BOOLEAN /\ d.depth + 1 \in Nat
  BY DEF DeadlineState
<1>2. p \in DeadlineState /\ (p.active <=> d.active) /\ p.depth = d.depth + 1 /\ ~p.armed
  BY <1>1 DEF DeadlineState
<1>3. Paused(d) = IF d.active THEN p ELSE d
  BY DEF Paused
<1> HIDE DEF p
<1> QED BY <1>2, <1>3

LEMMA ResumedEffect ==
  ASSUME NEW d \in DeadlineState
  PROVE  /\ Resumed(d) \in DeadlineState /\ (Resumed(d).active <=> d.active)
         /\ d.active /\ d.depth > 0 =>
              Resumed(d).depth = d.depth - 1 /\ (Resumed(d).armed <=> d.depth = 1)
<1> DEFINE p == [d EXCEPT !.depth = d.depth - 1, !.armed = (d.depth = 1)]
<1>1. (d.depth = 1) \in BOOLEAN /\ d.depth \in Nat /\ (d.depth > 0 => d.depth - 1 \in Nat)
  BY DEF DeadlineState
<1>2. CASE d.active /\ d.depth > 0
  <2>1. /\ p \in DeadlineState /\ (p.active <=> d.active) /\ p.depth = d.depth - 1
        /\ p.armed <=> d.depth = 1
    BY <1>1, <1>2 DEF DeadlineState
  <2>2. Resumed(d) = p
    BY <1>2 DEF Resumed
  <2> HIDE DEF p
  <2> QED BY <2>1, <2>2
<1>3. CASE ~(d.active /\ d.depth > 0)
  BY <1>3 DEF Resumed
<1> QED BY <1>2, <1>3

LEMMA ClearedEffect == Cleared \in DeadlineState /\ ~Cleared.active
<1>1. FALSE \in BOOLEAN
  OBVIOUS
<1> QED BY <1>1 DEF Cleared, DeadlineState

\* What an operation on the ladder leaves alone.
KeepsItsMarks(l, k) ==
  k.partials = l.partials /\ k.partialCandidate = l.partialCandidate

LEMMA SkippedEffect ==
  ASSUME NEW l \in LadderState
  PROVE  /\ Skipped(l) \in LadderState /\ KeepsItsMarks(l, Skipped(l))
         /\ Skipped(l).turn = l.turn /\ Skipped(l).candidate = l.candidate
         /\ Skipped(l).last = l.last /\ Skipped(l).round = l.round
<1> DEFINE k == [l EXCEPT !.index = l.index + 1]
<1>1. l.index + 1 \in Nat
  BY DEF LadderState
<1>2. /\ k \in LadderState /\ k.partials = l.partials /\ k.partialCandidate = l.partialCandidate
      /\ k.turn = l.turn /\ k.candidate = l.candidate /\ k.last = l.last /\ k.round = l.round
  BY <1>1 DEF LadderState
<1>3. Skipped(l) = k
  BY DEF Skipped
<1> HIDE DEF k
<1> QED BY <1>2, <1>3 DEF KeepsItsMarks

LEMMA OffersEffect ==
  ASSUME NEW l \in LadderState, NEW m \in Methods
  PROVE  LET k == OffersTo(l, m)
         IN  /\ k \in LadderState /\ KeepsItsMarks(l, k) /\ k.candidate = l.candidate
             /\ k.turn = "server" /\ k.last = m /\ k.round = 0
BY DEF OffersTo, LadderState, KeepsItsMarks

LEMMA NextEffect ==
  ASSUME NEW l \in LadderState, NEW left \in SUBSET Methods, NEW partial \in BOOLEAN
  PROVE  LET k == NextAttempt(l, left, partial)
         IN  /\ k \in LadderState /\ k.candidate = 0 /\ k.turn = "client"
             /\ ~partial => KeepsItsMarks(l, k)
             /\ \/ k.partialCandidate = l.partialCandidate
                \/ partial /\ l.candidate # 0 /\ k.partialCandidate = l.candidate
             /\ partial /\ l.last # NoMethod => k.partials = Append(l.partials, l.last)
<1> DEFINE pc == IF partial /\ l.candidate # 0 THEN l.candidate ELSE l.partialCandidate
           ps == IF partial /\ l.last # NoMethod THEN Append(l.partials, l.last) ELSE l.partials
           k == [l EXCEPT !.left = left, !.turn = "client", !.last = NoMethod, !.candidate = 0,
                          !.partialCandidate = pc, !.partials = ps]
<1>1. l.candidate \in Nat /\ l.partialCandidate \in Nat /\ l.partials \in Seq(Methods)
      /\ l.last \in Methods \union {NoMethod}
  BY DEF LadderState
<1>2. pc \in Nat
  BY <1>1
<1>3. ps \in Seq(Methods)
  <2>1. ASSUME l.last # NoMethod
        PROVE  Append(l.partials, l.last) \in Seq(Methods)
    BY <1>1, <2>1, AppendProperties
  <2> QED BY <1>1, <2>1
<1>4. NextAttempt(l, left, partial) = k
  BY DEF NextAttempt
<1> HIDE DEF pc, ps
<1>5. /\ k \in LadderState /\ k.candidate = 0 /\ k.turn = "client" /\ k.partialCandidate = pc
      /\ k.partials = ps
  BY <1>2, <1>3 DEF LadderState
<1> HIDE DEF k
<1>6. /\ pc = l.partialCandidate \/ (partial /\ l.candidate # 0 /\ pc = l.candidate)
      /\ ~partial => ps = l.partials
      /\ partial /\ l.last # NoMethod => ps = Append(l.partials, l.last)
  BY DEF pc, ps
<1> QED BY <1>4, <1>5, <1>6 DEF KeepsItsMarks

-----------------------------------------------------------------------------
(* Kinds of steps. *)

LEMMA PauseKeeps ==
  ASSUME DialInv, Dialing, Dialing', deadline' = Paused(deadline),
         \/ asking = "no" /\ asking' # "no" /\ agent'.request = agent.request
         \/ asking' = asking /\ agent.request = "no" /\ agent'.request # "no"
  PROVE  deadline' \in DeadlineState /\ DeadlineRuns'
<1>1. deadline \in DeadlineState /\ deadline.active
  BY DEF DialInv, DialTypes, DeadlineRuns
<1>2. /\ deadline' \in DeadlineState /\ deadline'.active /\ ~deadline'.armed
      /\ deadline'.depth = deadline.depth + 1
  BY <1>1, PausedEffect
<1>3. deadline.depth = OneIf(asking # "no") + OneIf(agent.request # "no")
  BY DEF DialInv, DeadlineRuns
<1>4. /\ deadline'.depth = OneIf(asking' # "no") + OneIf(agent'.request # "no")
      /\ deadline'.depth # 0
  BY <1>2, <1>3 DEF OneIf
<1> QED BY <1>2, <1>4 DEF DeadlineRuns

LEMMA ResumeKeeps ==
  ASSUME DialInv, Dialing' <=> Dialing, deadline' = Resumed(deadline),
         \/ asking # "no" /\ asking' = "no" /\ agent'.request = agent.request
         \/ asking' = asking /\ agent.request # "no" /\ agent'.request = "no"
  PROVE  deadline' \in DeadlineState /\ DeadlineRuns'
<1>1. /\ deadline \in DeadlineState /\ (deadline.active <=> Dialing)
      /\ Dialing => deadline.depth = OneIf(asking # "no") + OneIf(agent.request # "no")
  BY DEF DialInv, DialTypes, DeadlineRuns
<1>2. deadline' \in DeadlineState /\ (deadline'.active <=> deadline.active)
  BY <1>1, ResumedEffect
<1>3. CASE Dialing
  <2>1. deadline.depth = OneIf(asking' # "no") + OneIf(agent'.request # "no") + 1
    BY <1>1, <1>3 DEF OneIf
  <2>2. OneIf(asking' # "no") + OneIf(agent'.request # "no") \in {0, 1}
    BY DEF OneIf
  <2>3. deadline'.depth = deadline.depth - 1 /\ (deadline'.armed <=> deadline.depth = 1)
    BY <1>1, <1>3, <2>1, <2>2, ResumedEffect
  <2>4. /\ deadline'.depth = OneIf(asking' # "no") + OneIf(agent'.request # "no")
        /\ deadline'.armed <=> deadline'.depth = 0
    <3> DEFINE n == OneIf(asking' # "no") + OneIf(agent'.request # "no")
    <3>1. n \in {0, 1} /\ deadline.depth = n + 1
      BY <2>1, <2>2
    <3> HIDE DEF n
    <3>2. deadline'.depth = n /\ (deadline'.armed <=> n = 0)
      BY <2>3, <3>1
    <3> QED BY <3>2 DEF n
  <2> QED BY <1>1, <1>2, <1>3, <2>4 DEF DeadlineRuns
<1>4. CASE ~Dialing
  BY <1>1, <1>2, <1>4 DEF DeadlineRuns
<1> QED BY <1>2, <1>3, <1>4

\* A dial that ends before it is ready remembers nothing.
LEMMA RejectedKeeps ==
  ASSUME DialInv, Dialing, Rejected(ladder), asking' \in Questions \union {"no"},
         agent' \in AgentState
  PROVE  DialInv'
<1> DEFINE l == [ladder EXCEPT !.candidate = 0, !.partialCandidate = 0]
<1>1. ladder \in LadderState /\ login \in LoginState
  BY DEF DialInv, DialTypes
<1>2. 0 \in Nat
  OBVIOUS
<1>3. l \in LadderState /\ l.candidate = 0 /\ l.partialCandidate = 0
  BY <1>1, <1>2 DEF LadderState
<1>4. ladder' = l /\ dial' = "failed" /\ deadline' = Cleared /\ login' = login
  BY DEF Rejected
<1> HIDE DEF l
<1>5. DialTypes'
  BY <1>1, <1>3, <1>4, ClearedEffect DEF DialTypes
<1>6. TurnsFollowWaits' /\ GrantedInOrder'
  BY <1>4 DEF TurnsFollowWaits, GrantedInOrder, Dialing
<1>7. CandidatesWereOffered'
  BY <1>3, <1>4 DEF DialInv, CandidatesWereOffered
<1>8. DeadlineRuns'
  BY <1>4, ClearedEffect DEF DeadlineRuns, Dialing
<1> QED BY <1>5, <1>6, <1>7, <1>8 DEF DialInv

\* A step of the ladder that the server has no part in.
LEMMA AttemptKeeps ==
  ASSUME DialInv, dial = "auth", dial' = dial, login' = login,
         ladder' \in LadderState, KeepsItsMarks(ladder, ladder'),
         asking' \in Questions \union {"no"}, agent' \in AgentState,
         deadline' \in DeadlineState, DeadlineRuns',
         agent'.request # "no" <=> ladder'.turn = "agent",
         \/ asking' = "no"
         \/ asking' = "pin" /\ ladder'.turn \in {"agent", "client"}
         \/ asking' \in LadderQuestions /\ ladder'.turn = "key" /\ Fits(asking', ladder'),
         ladder'.candidate # 0 =>
           /\ ladder'.turn = "server" /\ ladder'.candidate = login.offered
           /\ ladder'.last = "password" \/ ladder'.round > 0
  PROVE  DialInv'
<1>1. DialTypes'
  BY DEF DialInv, DialTypes
<1>2. TurnsFollowWaits'
  BY DEF TurnsFollowWaits
<1>3. CandidatesWereOffered'
  BY DEF DialInv, CandidatesWereOffered, KeepsItsMarks
<1>4. GrantedInOrder'
  BY DEF DialInv, GrantedInOrder, KeepsItsMarks, Dialing
<1> QED BY <1>1, <1>2, <1>3, <1>4 DEF DialInv

\* The ladder turns to an attempt with no password on offer, nobody being waited for.
LEMMA ChoosesWithNothing ==
  ASSUME DialInv, Chooses
  PROVE  /\ dial = "auth" /\ Dialing /\ ladder \in LadderState /\ agent \in AgentState
         /\ asking = "no" /\ agent.request = "no" /\ ladder.turn = "client"
         /\ ladder.candidate = 0 /\ deadline \in DeadlineState /\ DeadlineRuns
BY DEF DialInv, DialTypes, Chooses, Dialing, CandidatesWereOffered

LEMMA NotAcceptedKeeps == ASSUME DialInv, NotAccepted PROVE DialInv'
<1>1. /\ Chooses /\ ladder' = Skipped(ladder)
      /\ dial' = dial /\ deadline' = deadline /\ asking' = asking /\ agent' = agent
      /\ login' = login
  BY DEF NotAccepted
<1>2. /\ ladder' \in LadderState /\ KeepsItsMarks(ladder, ladder')
      /\ ladder'.turn = "client" /\ ladder'.candidate = 0
  BY <1>1, ChoosesWithNothing, SkippedEffect
<1>3. DeadlineRuns'
  BY <1>1, ChoosesWithNothing DEF DeadlineRuns, Dialing
<1> QED BY <1>1, <1>2, <1>3, ChoosesWithNothing, AttemptKeeps

LEMMA OfferNoneKeeps == ASSUME DialInv, OfferNone PROVE DialInv'
<1>1. /\ Chooses /\ ladder' = OffersTo(Skipped(ladder), "none")
      /\ dial' = dial /\ deadline' = deadline /\ asking' = asking /\ agent' = agent
      /\ login' = login
  BY DEF OfferNone, Due
<1>2. /\ Skipped(ladder) \in LadderState /\ KeepsItsMarks(ladder, Skipped(ladder))
      /\ Skipped(ladder).candidate = 0 /\ "none" \in Methods
  BY <1>1, ChoosesWithNothing, SkippedEffect DEF Methods
<1>3. /\ ladder' \in LadderState /\ KeepsItsMarks(ladder, ladder')
      /\ ladder'.turn = "server" /\ ladder'.candidate = 0
  BY <1>1, <1>2, OffersEffect DEF KeepsItsMarks
<1>4. DeadlineRuns'
  BY <1>1, ChoosesWithNothing DEF DeadlineRuns, Dialing
<1> QED BY <1>1, <1>3, <1>4, ChoosesWithNothing, AttemptKeeps

LEMMA OfferChallengesKeeps == ASSUME DialInv, OfferChallenges PROVE DialInv'
<1> DEFINE kb == "keyboard-interactive"
           s == Skipped(ladder)
           o == OffersTo(s, kb)
           k == [o EXCEPT !.retryChallenge = FALSE]
<1>1. /\ Chooses /\ ladder' \in {s, k}
      /\ dial' = dial /\ deadline' = deadline /\ asking' = asking /\ agent' = agent
      /\ login' = login
  BY DEF OfferChallenges, Due
<1>2. s \in LadderState /\ KeepsItsMarks(ladder, s) /\ s.candidate = 0 /\ s.turn = "client"
  BY <1>1, ChoosesWithNothing, SkippedEffect
<1>3. /\ o \in LadderState /\ KeepsItsMarks(ladder, o) /\ o.turn = "server"
      /\ o.candidate = 0
  <2>1. kb \in Methods
    BY DEF Methods
  <2> HIDE DEF s
  <2> QED BY <1>2, <2>1, OffersEffect DEF KeepsItsMarks
<1>4. /\ k \in LadderState /\ KeepsItsMarks(ladder, k) /\ k.turn = "server"
      /\ k.candidate = 0
  <2> HIDE DEF o
  <2>1. FALSE \in BOOLEAN
    OBVIOUS
  <2> QED BY <1>3, <2>1 DEF LadderState, KeepsItsMarks
<1>5. DeadlineRuns'
  BY <1>1, ChoosesWithNothing DEF DeadlineRuns, Dialing
<1> HIDE DEF s, k
<1>6. /\ ladder' \in LadderState /\ KeepsItsMarks(ladder, ladder')
      /\ ladder'.turn \in {"client", "server"} /\ ladder'.candidate = 0
  BY <1>1, <1>2, <1>4
<1> QED BY <1>1, <1>5, <1>6, ChoosesWithNothing, AttemptKeeps

\* The ladder waits for a question of its own.
LEMMA AskKeeps ==
  ASSUME DialInv, dial = "auth", dial' = dial, login' = login, agent' = agent,
         asking = "no", agent.request = "no", asking' \in LadderQuestions,
         deadline' = Paused(deadline), ladder' \in LadderState,
         KeepsItsMarks(ladder, ladder'), ladder'.turn = "key", ladder'.candidate = 0,
         Fits(asking', ladder')
  PROVE  DialInv'
<1>1. asking' # "no" /\ asking' \in Questions \union {"no"} /\ agent' \in AgentState
  BY DEF LadderQuestions, Questions, Passwords, DialInv, DialTypes
<1>2. deadline' \in DeadlineState /\ DeadlineRuns'
  BY <1>1, PauseKeeps DEF Dialing
<1> QED BY <1>1, <1>2, AttemptKeeps

\* What is asked before a password, and the password.
LEMMA QuestionsAreAsked ==
  /\ {"passphrase", "challenge"} \union Passwords \subseteq LadderQuestions
  /\ \A question \in Passwords : UnlockFor(question) \in LadderQuestions
BY DEF LadderQuestions, Questions, Passwords, UnlockFor

LEMMA PasswordFromEffect ==
  ASSUME DialInv, asking = "no", NEW l \in LadderState, NEW question \in Passwords,
         PasswordFrom(l, question), Fits(question, l)
  PROVE  /\ ladder' \in LadderState /\ KeepsItsMarks(l, ladder')
         /\ ladder'.candidate = l.candidate /\ ladder'.last = l.last
         /\ ladder'.round = l.round
         /\ \/ ladder'.turn = "server" /\ asking' = asking /\ deadline' = deadline
            \/ /\ ladder'.turn = "key" /\ asking' \in LadderQuestions
               /\ deadline' = Paused(deadline) /\ Fits(asking', ladder')
<1> DEFINE a == [l EXCEPT !.turn = "server", !.savedTried = TRUE]
           b == [l EXCEPT !.savedTried = TRUE, !.turn = "key"]
           c == [l EXCEPT !.turn = "key"]
           Same(k) == /\ k \in LadderState /\ KeepsItsMarks(l, k) /\ k.candidate = l.candidate
                      /\ k.last = l.last /\ k.round = l.round
<1>1. \/ ladder' = a /\ asking' = asking /\ deadline' = deadline
      \/ ladder' = b /\ asking' = UnlockFor(question) /\ deadline' = Paused(deadline)
      \/ ladder' = c /\ asking' = question /\ deadline' = Paused(deadline)
  BY DEF PasswordFrom, Ask
<1>2. TRUE \in BOOLEAN
  OBVIOUS
<1>3. Same(a) /\ a.turn = "server"
  BY <1>2 DEF LadderState, KeepsItsMarks
<1>4. Same(b) /\ b.turn = "key"
  BY <1>2 DEF LadderState, KeepsItsMarks
<1>5. Same(c) /\ c.turn = "key"
  BY DEF LadderState, KeepsItsMarks
<1>6. Fits(question, c) /\ Fits(UnlockFor(question), b)
  BY <1>4, <1>5 DEF Fits, Passwords, UnlockFor
<1> HIDE DEF a, b, c
<1> QED BY <1>1, <1>3, <1>4, <1>5, <1>6, QuestionsAreAsked

LEMMA OfferKeyKeeps == ASSUME DialInv, OfferKey PROVE DialInv'
<1> DEFINE s == Skipped(ladder)
           o == OffersTo(s, "publickey")
           k == [s EXCEPT !.turn = "key"]
<1>1. /\ Chooses /\ dial' = dial /\ agent' = agent /\ login' = login
      /\ \/ ladder' \in {s, o} /\ asking' = asking /\ deadline' = deadline
         \/ ladder' = k /\ asking' = "passphrase" /\ deadline' = Paused(deadline)
  BY DEF OfferKey, Due, Ask
<1>2. s \in LadderState /\ KeepsItsMarks(ladder, s) /\ s.candidate = 0 /\ s.turn = "client"
  BY <1>1, ChoosesWithNothing, SkippedEffect
<1> HIDE DEF s
<1>3. /\ o \in LadderState /\ KeepsItsMarks(ladder, o) /\ o.turn = "server" /\ o.candidate = 0
  <2>1. "publickey" \in Methods
    BY DEF Methods
  <2> QED BY <1>2, <2>1, OffersEffect DEF KeepsItsMarks
<1>4. k \in LadderState /\ KeepsItsMarks(ladder, k) /\ k.turn = "key" /\ k.candidate = 0
      /\ Fits("passphrase", k)
  BY <1>2 DEF LadderState, KeepsItsMarks, Fits
<1> HIDE DEF o, k
<1>5. CASE ladder' \in {s, o} /\ asking' = asking /\ deadline' = deadline
  <2>1. DeadlineRuns'
    BY <1>1, <1>5, ChoosesWithNothing DEF DeadlineRuns, Dialing
  <2>2. /\ ladder' \in LadderState /\ KeepsItsMarks(ladder, ladder')
        /\ ladder'.turn \in {"client", "server"} /\ ladder'.candidate = 0
    BY <1>2, <1>3, <1>5
  <2> QED BY <1>1, <1>5, <2>1, <2>2, ChoosesWithNothing, AttemptKeeps
<1>6. CASE ladder' = k /\ asking' = "passphrase" /\ deadline' = Paused(deadline)
  BY <1>1, <1>4, <1>6, ChoosesWithNothing, QuestionsAreAsked, AskKeeps
<1> QED BY <1>1, <1>5, <1>6

\* The password of an attempt, saved or asked for.
LEMMA PasswordStepKeeps ==
  ASSUME DialInv, dial = "auth", dial' = dial, login' = login, agent' = agent,
         asking = "no", agent.request = "no", NEW l \in LadderState, KeepsItsMarks(ladder, l),
         l.candidate = 0, NEW question \in Passwords, PasswordFrom(l, question),
         Fits(question, l)
  PROVE  DialInv'
<1>1. /\ ladder' \in LadderState /\ KeepsItsMarks(ladder, ladder') /\ ladder'.candidate = 0
      /\ \/ ladder'.turn = "server" /\ asking' = asking /\ deadline' = deadline
         \/ /\ ladder'.turn = "key" /\ asking' \in LadderQuestions
            /\ deadline' = Paused(deadline) /\ Fits(asking', ladder')
  BY PasswordFromEffect DEF KeepsItsMarks
<1>2. CASE ladder'.turn = "server" /\ asking' = asking /\ deadline' = deadline
  <2>1. deadline' \in DeadlineState /\ DeadlineRuns' /\ agent' \in AgentState
    BY <1>2 DEF DialInv, DialTypes, DeadlineRuns, Dialing
  <2> QED BY <1>1, <1>2, <2>1, AttemptKeeps
<1>3. CASE /\ ladder'.turn = "key" /\ asking' \in LadderQuestions
           /\ deadline' = Paused(deadline) /\ Fits(asking', ladder')
  BY <1>1, <1>3, AskKeeps
<1> QED BY <1>1, <1>2, <1>3

LEMMA OfferPasswordKeeps == ASSUME DialInv, OfferPassword PROVE DialInv'
<1> DEFINE s == Skipped(ladder)
           l == [s EXCEPT !.last = "password"]
<1>1. /\ Chooses /\ PasswordFrom(l, "password")
      /\ dial' = dial /\ agent' = agent /\ login' = login
  BY DEF OfferPassword, Due
<1>2. s \in LadderState /\ KeepsItsMarks(ladder, s) /\ s.candidate = 0
  BY <1>1, ChoosesWithNothing, SkippedEffect
<1>3. "password" \in Methods /\ "password" \in Passwords
  BY DEF Methods, Passwords
<1> HIDE DEF s
<1>4. /\ l \in LadderState /\ KeepsItsMarks(ladder, l) /\ l.candidate = 0
      /\ Fits("password", l)
  BY <1>2, <1>3 DEF LadderState, KeepsItsMarks, Fits
<1> HIDE DEF l
<1> QED BY <1>1, <1>3, <1>4, ChoosesWithNothing, PasswordStepKeeps

-----------------------------------------------------------------------------
(* Agents. *)

LEMMA RequestEffect ==
  ASSUME agent \in AgentState, NEW what \in {"identities", "sign"}, AgentRequest(what)
  PROVE  agent' \in AgentState /\ agent'.request = what /\ deadline' = Paused(deadline)
<1>1. TRUE \in BOOLEAN
  OBVIOUS
<1> QED BY <1>1 DEF AgentRequest, AgentState

LEMMA OfferAgentKeeps == ASSUME DialInv, OfferAgent PROVE DialInv'
<1> DEFINE s == Skipped(ladder)
           m == Ladder[Current]
           o == OffersTo(s, m)
           k == [o EXCEPT !.turn = "agent"]
<1>1. /\ Chooses /\ dial' = dial /\ asking' = asking /\ login' = login
      /\ m \in {"agent", "security-key"}
      /\ \/ /\ ladder' = NextAttempt(s, ladder.left, FALSE)
            /\ agent' = agent /\ deadline' = deadline
         \/ /\ AgentRequest(IF m = "agent" THEN "identities" ELSE "sign")
            /\ ladder' = k
  BY DEF OfferAgent, Due
<1>2. s \in LadderState /\ KeepsItsMarks(ladder, s) /\ s.candidate = 0
  BY <1>1, ChoosesWithNothing, SkippedEffect
<1> HIDE DEF s, m
<1>3. /\ o \in LadderState /\ KeepsItsMarks(ladder, o) /\ o.candidate = 0
  <2>1. m \in Methods
    BY <1>1 DEF Methods
  <2> QED BY <1>2, <2>1, OffersEffect DEF KeepsItsMarks
<1> HIDE DEF o
<1>4. k \in LadderState /\ KeepsItsMarks(ladder, k) /\ k.candidate = 0 /\ k.turn = "agent"
  BY <1>3 DEF LadderState, KeepsItsMarks
<1> HIDE DEF k
<1>5. CASE /\ ladder' = NextAttempt(s, ladder.left, FALSE)
           /\ agent' = agent /\ deadline' = deadline
  <2>1. ladder.left \in SUBSET Methods /\ FALSE \in BOOLEAN
    BY <1>1, ChoosesWithNothing DEF LadderState
  <2>2. /\ ladder' \in LadderState /\ KeepsItsMarks(ladder, ladder')
        /\ ladder'.turn = "client" /\ ladder'.candidate = 0
    BY <1>2, <1>5, <2>1, NextEffect DEF KeepsItsMarks
  <2>3. DeadlineRuns'
    BY <1>1, <1>5, ChoosesWithNothing DEF DeadlineRuns, Dialing
  <2> QED BY <1>1, <1>5, <2>2, <2>3, ChoosesWithNothing, AttemptKeeps
<1>6. CASE AgentRequest(IF m = "agent" THEN "identities" ELSE "sign") /\ ladder' = k
  <2>1. PICK what \in {"identities", "sign"} : AgentRequest(what)
    BY <1>6
  <2>2. agent' \in AgentState /\ agent'.request # "no" /\ deadline' = Paused(deadline)
    BY <1>1, <2>1, ChoosesWithNothing, RequestEffect
  <2>3. deadline' \in DeadlineState /\ DeadlineRuns'
    BY <1>1, <2>2, ChoosesWithNothing, PauseKeeps DEF Dialing
  <2> QED BY <1>1, <1>4, <1>6, <2>2, <2>3, ChoosesWithNothing, AttemptKeeps
<1> QED BY <1>1, <1>5, <1>6

LEMMA AgentSignsKeeps == ASSUME DialInv, AgentSigns PROVE DialInv'
<1> DEFINE k == [ladder EXCEPT !.turn = "agent"]
<1>1. /\ dial = "auth" /\ ladder.turn = "signing" /\ AgentRequest("sign") /\ ladder' = k
      /\ dial' = dial /\ asking' = asking /\ login' = login
  BY DEF AgentSigns
<1>2. asking = "no" /\ agent.request = "no" /\ ladder.candidate = 0
  BY <1>1 DEF DialInv, TurnsFollowWaits, CandidatesWereOffered
<1>3. ladder \in LadderState /\ agent \in AgentState
  BY DEF DialInv, DialTypes
<1>4. k \in LadderState /\ KeepsItsMarks(ladder, k) /\ k.candidate = 0 /\ k.turn = "agent"
  BY <1>2, <1>3 DEF LadderState, KeepsItsMarks
<1> HIDE DEF k
<1>5. agent' \in AgentState /\ agent'.request # "no" /\ deadline' = Paused(deadline)
  BY <1>1, <1>3, RequestEffect
<1>6. deadline' \in DeadlineState /\ DeadlineRuns'
  BY <1>1, <1>2, <1>5, PauseKeeps DEF Dialing
<1> QED BY <1>1, <1>2, <1>4, <1>5, <1>6, AttemptKeeps

\* A request of an agent settles.
LEMMA RequestSettles ==
  ASSUME DialInv, agent.request # "no", NEW gone \in BOOLEAN, AgentDone(gone),
         dial' = dial, asking' = asking
  PROVE  /\ agent' \in AgentState /\ agent'.request = "no"
         /\ deadline' \in DeadlineState /\ DeadlineRuns'
<1> DEFINE owed == agent.owed /\ gone
           dead == agent.unavailable \/ (gone /\ ladder.last = "agent")
<1>1. agent \in AgentState /\ owed \in BOOLEAN /\ dead \in BOOLEAN
  BY DEF DialInv, DialTypes
<1>2. /\ agent' = [agent EXCEPT !.request = "no", !.owed = owed, !.unavailable = dead]
      /\ deadline' = Resumed(deadline)
  BY DEF AgentDone
<1> HIDE DEF owed, dead
<1>3. agent' \in AgentState /\ agent'.request = "no"
  BY <1>1, <1>2 DEF AgentState
<1>4. deadline' \in DeadlineState /\ DeadlineRuns'
  BY <1>2, <1>3, ResumeKeeps DEF Dialing
<1> QED BY <1>3, <1>4

\* What settles when the dial is over changes nothing more.
LEMMA OverKeeps ==
  ASSUME DialInv, ~Dialing, dial' = dial, login' = login, ladder' = ladder,
         asking' \in Questions \union {"no"}, agent' \in AgentState,
         deadline' \in DeadlineState, DeadlineRuns'
  PROVE  DialInv'
<1>1. DialTypes' /\ TurnsFollowWaits'
  BY DEF DialInv, DialTypes, TurnsFollowWaits, Dialing
<1>2. CandidatesWereOffered'
  BY DEF DialInv, CandidatesWereOffered, Dialing
<1>3. GrantedInOrder'
  BY DEF DialInv, GrantedInOrder, Dialing, AcceptedMethods
<1> QED BY <1>1, <1>2, <1>3 DEF DialInv

LEMMA RequestOfTheLadder ==
  ASSUME DialInv, Dialing, agent.request # "no"
  PROVE  /\ dial = "auth" /\ ladder.turn = "agent" /\ ladder.candidate = 0
         /\ asking \in {"no", "pin"} /\ ladder \in LadderState
BY DEF DialInv, DialTypes, Dialing, TurnsFollowWaits, CandidatesWereOffered

\* ssh2 goes on after an agent that gave nothing.
LEMMA GoesOnKeeps ==
  ASSUME DialInv, Dialing, agent.request # "no", NEW gone \in BOOLEAN, AgentDone(gone),
         dial' = dial, asking' = asking, login' = login,
         ladder' = NextAttempt(ladder, ladder.left, FALSE)
  PROVE  DialInv'
<1>1. ladder.left \in SUBSET Methods /\ FALSE \in BOOLEAN
  BY RequestOfTheLadder DEF LadderState
<1>2. /\ ladder' \in LadderState /\ KeepsItsMarks(ladder, ladder')
      /\ ladder'.turn = "client" /\ ladder'.candidate = 0
  BY <1>1, RequestOfTheLadder, NextEffect
<1>3. asking' \in {"no", "pin"} /\ asking' \in Questions \union {"no"}
  BY RequestOfTheLadder DEF Questions
<1> QED BY <1>2, <1>3, RequestOfTheLadder, RequestSettles, AttemptKeeps

LEMMA SettlesOver ==
  ASSUME DialInv, ~Dialing, agent.request # "no", NEW gone \in BOOLEAN, AgentDone(gone),
         dial' = dial, asking' = asking, login' = login, ladder' = ladder
  PROVE  DialInv'
<1>1. asking' \in Questions \union {"no"}
  BY DEF DialInv, DialTypes
<1> QED BY <1>1, RequestSettles, OverKeeps

LEMMA AgentAnswersKeeps == ASSUME DialInv, AgentAnswers PROVE DialInv'
<1>1. /\ agent.request # "no" /\ asking # "pin" /\ AgentDone(FALSE) /\ FALSE \in BOOLEAN
      /\ dial' = dial /\ asking' = asking /\ login' = login
  BY DEF AgentAnswers
<1>2. CASE ~Dialing
  <2>1. ladder' = ladder
    BY <1>2 DEF AgentAnswers
  <2> QED BY <1>1, <1>2, <2>1, SettlesOver
<1>3. CASE Dialing
  <2> DEFINE turn == IF agent.request = "sign" THEN "server" ELSE "signing"
             k == [ladder EXCEPT !.turn = turn]
  <2>1. ladder' = k \/ ladder' = NextAttempt(ladder, ladder.left, FALSE)
    BY <1>3 DEF AgentAnswers
  <2>2. CASE ladder' = NextAttempt(ladder, ladder.left, FALSE)
    BY <1>1, <1>3, <2>2, GoesOnKeeps
  <2>3. CASE ladder' = k
    <3>1. turn \in {"server", "signing"}
      OBVIOUS
    <3> HIDE DEF turn
    <3>2. k \in LadderState /\ KeepsItsMarks(ladder, k) /\ k.candidate = 0 /\ k.turn = turn
      BY <1>1, <1>3, <3>1, RequestOfTheLadder DEF LadderState, KeepsItsMarks
    <3> HIDE DEF k
    <3>3. asking' = "no"
      BY <1>1, <1>3, RequestOfTheLadder
    <3> QED BY <1>1, <1>3, <2>3, <3>1, <3>2, <3>3, RequestOfTheLadder, RequestSettles,
               AttemptKeeps
  <2> QED BY <2>1, <2>2, <2>3
<1> QED BY <1>2, <1>3

LEMMA AgentFailsKeeps == ASSUME DialInv, AgentFails PROVE DialInv'
<1>1. /\ agent.request # "no" /\ AgentDone(TRUE) /\ TRUE \in BOOLEAN
      /\ dial' = dial /\ asking' = asking /\ login' = login
  BY DEF AgentFails
<1>2. CASE ~Dialing
  <2>1. ladder' = ladder
    BY <1>2 DEF AgentFails
  <2> QED BY <1>1, <1>2, <2>1, SettlesOver
<1>3. CASE Dialing
  <2>1. ladder' = NextAttempt(ladder, ladder.left, FALSE)
    BY <1>3 DEF AgentFails
  <2> QED BY <1>1, <1>3, <2>1, GoesOnKeeps
<1> QED BY <1>2, <1>3

LEMMA AgentAnswersLateKeeps == ASSUME DialInv, AgentAnswersLate PROVE DialInv'
<1> DEFINE a == [agent EXCEPT !.owed = FALSE]
<1>1. /\ agent' = a /\ deadline' = deadline
      /\ dial' = dial /\ asking' = asking /\ ladder' = ladder /\ login' = login
  BY DEF AgentAnswersLate, LateAnswer
<1>2. agent \in AgentState /\ FALSE \in BOOLEAN
  BY DEF DialInv, DialTypes
<1>3. a \in AgentState /\ a.request = agent.request
  BY <1>2 DEF AgentState
<1> HIDE DEF a
<1>4. DialTypes'
  BY <1>1, <1>3 DEF DialInv, DialTypes
<1>5. TurnsFollowWaits' /\ CandidatesWereOffered' /\ GrantedInOrder' /\ DeadlineRuns'
  BY <1>1, <1>3 DEF DialInv, TurnsFollowWaits, CandidatesWereOffered, GrantedInOrder,
                    DeadlineRuns, Dialing, AcceptedMethods
<1> QED BY <1>4, <1>5 DEF DialInv

LEMMA AgentAsksPinKeeps == ASSUME DialInv, AgentAsksPin PROVE DialInv'
<1>1. /\ dial = "auth" /\ agent.request # "no" /\ asking = "no" /\ asking' = "pin"
      /\ deadline' = Paused(deadline)
      /\ dial' = dial /\ agent' = agent /\ ladder' = ladder /\ login' = login
  BY DEF AgentAsksPin, Ask
<1>2. ladder.turn = "agent" /\ ladder.candidate = 0 /\ ladder \in LadderState
  BY <1>1, RequestOfTheLadder DEF Dialing
<1>3. deadline' \in DeadlineState /\ DeadlineRuns'
  BY <1>1, PauseKeeps DEF Dialing
<1>4. asking' \in Questions \union {"no"} /\ agent' \in AgentState
  BY <1>1 DEF Questions, DialInv, DialTypes
<1> QED BY <1>1, <1>2, <1>3, <1>4, AttemptKeeps DEF KeepsItsMarks

-----------------------------------------------------------------------------
(* Prompts. *)

\* The question that is open settles, and the ladder goes on.
LEMMA AnswerKeeps ==
  ASSUME DialInv, dial = "auth", Answered, dial' = dial, agent' = agent, login' = login,
         ladder' \in LadderState, KeepsItsMarks(ladder, ladder'),
         IF asking = "pin" THEN ladder'.turn = ladder.turn
                           ELSE ladder'.turn \in {"server", "client"},
         ladder'.candidate = 0
  PROVE  DialInv'
<1>1. asking # "no" /\ asking' = "no" /\ deadline' = Resumed(deadline)
  BY DEF Answered
<1>2. deadline' \in DeadlineState /\ DeadlineRuns'
  BY <1>1, ResumeKeeps DEF Dialing
<1>3. agent'.request # "no" <=> ladder'.turn = "agent"
  BY <1>1 DEF DialInv, TurnsFollowWaits
<1>4. asking' \in Questions \union {"no"} /\ agent' \in AgentState
  BY <1>1 DEF DialInv, DialTypes
<1> QED BY <1>1, <1>2, <1>3, <1>4, AttemptKeeps

LEMMA AskingWithNothing ==
  ASSUME DialInv, dial = "auth", asking # "no"
  PROVE  /\ ladder \in LadderState /\ ladder.candidate = 0
         /\ asking = "pin" \/ (asking \in LadderQuestions /\ agent.request = "no")
BY DEF DialInv, DialTypes, TurnsFollowWaits, CandidatesWereOffered

LEMMA HostKeyKeeps ==
  ASSUME DialInv, HostKeyKnown \/ HostKeyAsked \/ HostKeyAnswered PROVE DialInv'
<1>1. CASE HostKeyKnown
  <2>1. /\ dial = "keys" /\ asking = "no" /\ dial' = "auth" /\ deadline' = deadline
        /\ asking' = asking /\ agent' = agent /\ ladder' = ladder /\ login' = login
    BY <1>1 DEF HostKeyKnown
  <2>2. ladder.candidate = 0 /\ agent.request = "no" /\ ladder.turn = "client"
    BY <2>1 DEF DialInv, TurnsFollowWaits
  <2>3. DialTypes' /\ TurnsFollowWaits' /\ CandidatesWereOffered'
    BY <2>1, <2>2 DEF DialInv, DialTypes, TurnsFollowWaits, CandidatesWereOffered
  <2>4. GrantedInOrder' /\ DeadlineRuns'
    BY <2>1 DEF DialInv, GrantedInOrder, DeadlineRuns, Dialing
  <2> QED BY <2>3, <2>4 DEF DialInv
<1>2. CASE HostKeyAsked
  <2>1. /\ dial = "keys" /\ asking = "no" /\ dial' = dial /\ deadline' = Paused(deadline)
        /\ asking' = "host-key" /\ agent' = agent /\ ladder' = ladder /\ login' = login
    BY <1>2 DEF HostKeyAsked, Ask
  <2>2. deadline' \in DeadlineState /\ DeadlineRuns'
    BY <2>1, PauseKeeps DEF Dialing
  <2>3. DialTypes' /\ TurnsFollowWaits' /\ CandidatesWereOffered'
    BY <2>1, <2>2 DEF DialInv, DialTypes, TurnsFollowWaits, CandidatesWereOffered, Questions
  <2>4. GrantedInOrder'
    BY <2>1 DEF DialInv, GrantedInOrder, Dialing
  <2> QED BY <2>2, <2>3, <2>4 DEF DialInv
<1>3. CASE HostKeyAnswered
  <2>1. /\ dial = "keys" /\ asking = "host-key" /\ asking' = "no" /\ agent' = agent
        /\ \/ dial' = "auth" /\ deadline' = Resumed(deadline) /\ UNCHANGED <<ladder, login>>
           \/ Rejected(ladder)
    BY <1>3 DEF HostKeyAnswered
  <2>2. CASE Rejected(ladder)
    <3>1. asking' \in Questions \union {"no"} /\ agent' \in AgentState
      BY <2>1 DEF DialInv, DialTypes
    <3> QED BY <2>1, <2>2, <3>1, RejectedKeeps DEF Dialing
  <2>3. CASE dial' = "auth" /\ deadline' = Resumed(deadline) /\ UNCHANGED <<ladder, login>>
    <3>1. ladder.candidate = 0 /\ agent.request = "no" /\ ladder.turn = "client"
      BY <2>1 DEF DialInv, TurnsFollowWaits
    <3>2. deadline' \in DeadlineState /\ DeadlineRuns'
      BY <2>1, <2>3, ResumeKeeps DEF Dialing
    <3>3. DialTypes' /\ TurnsFollowWaits' /\ CandidatesWereOffered'
      BY <2>1, <2>3, <3>1, <3>2 DEF DialInv, DialTypes, TurnsFollowWaits, CandidatesWereOffered
    <3>4. GrantedInOrder'
      BY <2>1, <2>3 DEF DialInv, GrantedInOrder, Dialing
    <3> QED BY <3>2, <3>3, <3>4 DEF DialInv
  <2> QED BY <2>1, <2>2, <2>3
<1> QED BY <1>1, <1>2, <1>3

LEMMA TextAnsweredKeeps == ASSUME DialInv, TextAnswered PROVE DialInv'
<1> DEFINE a == [ladder EXCEPT !.last = "publickey", !.turn = "server"]
           b == [ladder EXCEPT !.turn = "client"]
           c == [ladder EXCEPT !.turn = "server"]
           KeepsMarks(k) == k \in LadderState /\ KeepsItsMarks(ladder, k) /\ k.candidate = 0
<1>1. /\ dial = "auth" /\ Answered /\ dial' = dial /\ agent' = agent /\ login' = login
      /\ \/ asking # "pin" /\ ladder' \in {a, b, c}
         \/ asking = "pin" /\ ladder' = ladder
  BY DEF TextAnswered
<1>2. ladder \in LadderState /\ ladder.candidate = 0
  BY <1>1, AskingWithNothing DEF Answered
<1>3. KeepsMarks(a) /\ a.turn = "server"
  <2>1. "publickey" \in Methods
    BY DEF Methods
  <2> QED BY <1>2, <2>1 DEF LadderState, KeepsItsMarks
<1>4. KeepsMarks(b) /\ b.turn = "client"
  BY <1>2 DEF LadderState, KeepsItsMarks
<1>5. KeepsMarks(c) /\ c.turn = "server"
  BY <1>2 DEF LadderState, KeepsItsMarks
<1>6. KeepsMarks(ladder)
  BY <1>2 DEF KeepsItsMarks
<1> HIDE DEF a, b, c
<1>7. /\ KeepsMarks(ladder')
      /\ IF asking = "pin" THEN ladder'.turn = ladder.turn
                           ELSE ladder'.turn \in {"server", "client"}
  BY <1>1, <1>3, <1>4, <1>5, <1>6
<1> QED BY <1>1, <1>7, AnswerKeeps

LEMMA PromptRefusedKeeps == ASSUME DialInv, PromptRefused PROVE DialInv'
<1> DEFINE turn == CASE asking \in Challenges -> "server"
                     [] asking = "pin" -> ladder.turn
                     [] OTHER -> "client"
           k == [ladder EXCEPT !.cancelled = TRUE, !.turn = turn]
<1>1. /\ dial = "auth" /\ asking # "no" /\ Answered /\ ladder' = k
      /\ dial' = dial /\ agent' = agent /\ login' = login
  BY DEF PromptRefused
<1>2. ladder \in LadderState /\ ladder.candidate = 0 /\ TRUE \in BOOLEAN
  BY <1>1, AskingWithNothing
<1>3. /\ IF asking = "pin" THEN turn = ladder.turn ELSE turn \in {"server", "client"}
      /\ ladder.turn \in {"client", "server", "key", "agent", "signing"}
  <2>1. "pin" \notin Challenges
    BY DEF Challenges
  <2>2. ladder.turn \in {"client", "server", "key", "agent", "signing"}
    BY <1>2 DEF LadderState
  <2>3. CASE asking \in Challenges
    BY <2>1, <2>2, <2>3
  <2>4. CASE asking = "pin"
    BY <2>1, <2>2, <2>4
  <2>5. CASE asking \notin Challenges /\ asking # "pin"
    BY <2>2, <2>5
  <2> QED BY <2>3, <2>4, <2>5
<1> HIDE DEF turn
<1>4. turn \in {"client", "server", "key", "agent", "signing"}
  BY <1>3
<1>5. k \in LadderState /\ KeepsItsMarks(ladder, k) /\ k.candidate = 0 /\ k.turn = turn
  BY <1>2, <1>4 DEF LadderState, KeepsItsMarks
<1> HIDE DEF k
<1> QED BY <1>1, <1>3, <1>5, AnswerKeeps

LEMMA PromptOutlivedKeeps == ASSUME DialInv, PromptOutlived PROVE DialInv'
<1>1. /\ ~Dialing /\ asking # "no" /\ asking' = "no" /\ deadline' = Resumed(deadline)
      /\ dial' = dial /\ agent' = agent /\ ladder' = ladder /\ login' = login
  BY DEF PromptOutlived, Answered
<1>2. deadline' \in DeadlineState /\ DeadlineRuns'
  BY <1>1, ResumeKeeps DEF Dialing
<1>3. asking' \in Questions \union {"no"} /\ agent' \in AgentState
  BY <1>1 DEF DialInv, DialTypes
<1> QED BY <1>1, <1>2, <1>3, OverKeeps

LEMMA PasswordAnsweredKeeps == ASSUME DialInv, PasswordAnswered PROVE DialInv'
<1>1. /\ dial = "auth" /\ asking \in Passwords /\ Answered
      /\ dial' = dial /\ agent' = agent
  BY DEF PasswordAnswered
<1>2. PICK remember \in BOOLEAN :
        ladder' = [ladder EXCEPT !.candidate = IF remember THEN ladder.index ELSE 0,
                                 !.turn = "server"]
  BY DEF PasswordAnswered
<1> DEFINE l == [login EXCEPT !.offered = ladder.index]
           kept == IF remember THEN ladder.index ELSE 0
           k == [ladder EXCEPT !.candidate = kept, !.turn = "server"]
<1>3. ladder' = k /\ login' = l
  BY <1>2 DEF PasswordAnswered
<1>4. /\ ladder \in LadderState /\ login \in LoginState /\ kept \in {0, ladder.index}
      /\ ladder.index \in Nat /\ kept \in Nat
  BY DEF DialInv, DialTypes, LadderState
<1> HIDE DEF kept
<1>5. /\ k \in LadderState /\ KeepsItsMarks(ladder, k) /\ k.candidate = kept
      /\ k.turn = "server" /\ k.last = ladder.last /\ k.round = ladder.round
  BY <1>4 DEF LadderState, KeepsItsMarks
<1>6. /\ l \in LoginState /\ l.offered = ladder.index /\ l.proved = login.proved
      /\ l.granted = login.granted /\ l.remembered = login.remembered
  BY <1>4 DEF LoginState
<1> HIDE DEF k, l
<1>7. asking # "pin" /\ asking # "no"
  BY <1>1 DEF Passwords
<1>8. agent.request = "no" /\ (ladder.last = "password" \/ ladder.round > 0)
  BY <1>1, <1>7 DEF DialInv, TurnsFollowWaits, Fits, Passwords
<1>9. asking' = "no" /\ deadline' = Resumed(deadline)
  BY <1>1 DEF Answered
<1>10. deadline' \in DeadlineState /\ DeadlineRuns'
  BY <1>1, <1>7, <1>9, ResumeKeeps DEF Dialing
<1>11. DialTypes' /\ TurnsFollowWaits'
  BY <1>1, <1>3, <1>5, <1>6, <1>8, <1>9, <1>10 DEF DialInv, DialTypes, TurnsFollowWaits
<1>12. CandidatesWereOffered'
  BY <1>1, <1>3, <1>4, <1>5, <1>6, <1>8
     DEF DialInv, CandidatesWereOffered, KeepsItsMarks
<1>13. GrantedInOrder'
  BY <1>1, <1>3, <1>5, <1>6 DEF DialInv, GrantedInOrder, Dialing, KeepsItsMarks
<1> QED BY <1>10, <1>11, <1>12, <1>13 DEF DialInv

LEMMA VaultAnsweredKeeps == ASSUME DialInv, VaultAnswered PROVE DialInv'
<1>1. dial = "auth" /\ dial' = dial /\ agent' = agent /\ login' = login
  BY DEF VaultAnswered
<1>2. PICK question \in Passwords :
        /\ asking = UnlockFor(question)
        /\ \/ Answered /\ ladder' = [ladder EXCEPT !.turn = "server"]
           \/ /\ asking' = question /\ deadline' = Paused(Resumed(deadline))
              /\ ladder' = ladder
  BY DEF VaultAnswered
<1>3. asking # "no" /\ asking # "pin" /\ question # "no"
  BY <1>2 DEF Passwords, UnlockFor
<1>4. ladder \in LadderState /\ ladder.candidate = 0 /\ agent.request = "no"
  BY <1>1, <1>3, AskingWithNothing
<1>5. CASE Answered /\ ladder' = [ladder EXCEPT !.turn = "server"]
  <2>1. /\ ladder' \in LadderState /\ KeepsItsMarks(ladder, ladder')
        /\ ladder'.candidate = 0 /\ ladder'.turn = "server"
    BY <1>4, <1>5 DEF LadderState, KeepsItsMarks
  <2> QED BY <1>1, <1>3, <1>5, <2>1, AnswerKeeps
<1>6. CASE asking' = question /\ deadline' = Paused(Resumed(deadline)) /\ ladder' = ladder
  <2>1. /\ deadline \in DeadlineState /\ deadline.active /\ deadline.depth = 1
    BY <1>1, <1>3, <1>4 DEF DialInv, DialTypes, DeadlineRuns, Dialing, OneIf
  <2>2. /\ Resumed(deadline) \in DeadlineState /\ Resumed(deadline).active
        /\ Resumed(deadline).depth = 0
    BY <2>1, ResumedEffect
  <2>3. /\ deadline' \in DeadlineState /\ deadline'.active /\ ~deadline'.armed
        /\ deadline'.depth = 1
    BY <1>6, <2>2, PausedEffect
  <2>4. DeadlineRuns'
    BY <1>1, <1>3, <1>4, <1>6, <2>3 DEF DeadlineRuns, Dialing, OneIf
  <2>5. ladder.turn = "key" /\ Fits(asking, ladder)
    BY <1>1, <1>3 DEF DialInv, TurnsFollowWaits
  <2>6. Fits(question, ladder)
    BY <1>2, <2>5 DEF Fits, UnlockFor, Passwords
  <2>7. question \in LadderQuestions /\ question \in Questions \union {"no"}
    BY QuestionsAreAsked DEF LadderQuestions
  <2>8. agent' \in AgentState
    BY <1>1 DEF DialInv, DialTypes
  <2> QED BY <1>1, <1>4, <1>6, <2>3, <2>4, <2>5, <2>6, <2>7, <2>8, AttemptKeeps
             DEF KeepsItsMarks
<1> QED BY <1>2, <1>5, <1>6

-----------------------------------------------------------------------------
(* The server. *)

LEMMA ServerTurnFacts ==
  ASSUME DialInv, ServerTurn
  PROVE  /\ dial = "auth" /\ Dialing /\ ladder.turn = "server" /\ ladder.last # NoMethod
         /\ ladder.last \in Methods /\ asking = "no" /\ agent.request = "no"
         /\ ladder \in LadderState /\ login \in LoginState
         /\ ladder.candidate # 0 => /\ ladder.candidate = login.offered
                                    /\ ladder.last = "password" \/ ladder.round > 0
BY DEF DialInv, DialTypes, ServerTurn, Dialing, TurnsFollowWaits, CandidatesWereOffered,
       LadderState

LEMMA ServerChallengesKeeps == ASSUME DialInv, ServerChallenges PROVE DialInv'
<1> DEFINE a == [ladder EXCEPT !.round = ladder.round + 1]
           b == [a EXCEPT !.retryChallenge = TRUE]
           c == [a EXCEPT !.candidate = 0, !.retryChallenge = FALSE, !.turn = "key"]
<1>1. /\ ServerTurn /\ ladder.last = "keyboard-interactive"
      /\ dial' = dial /\ agent' = agent /\ login' = login
      /\ \/ ladder.round = 0 /\ PasswordFrom(b, "password challenge")
         \/ /\ asking' = "challenge" /\ deadline' = Paused(deadline)
            /\ ladder' = c
  BY DEF ServerChallenges, Ask
<1>2. /\ ladder \in LadderState /\ ladder.round \in Nat /\ ladder.round + 1 \in Nat
      /\ ladder.round + 1 > 0
  <2>1. ladder \in LadderState
    BY <1>1, ServerTurnFacts
  <2>2. ladder.round \in Nat
    BY <2>1 DEF LadderState
  <2> QED BY <2>1, <2>2
<1>3. /\ a \in LadderState /\ KeepsItsMarks(ladder, a) /\ a.round > 0
      /\ a.candidate = ladder.candidate
  BY <1>2 DEF LadderState, KeepsItsMarks
<1> HIDE DEF a
<1>4. TRUE \in BOOLEAN /\ FALSE \in BOOLEAN /\ 0 \in Nat
  OBVIOUS
<1>5. /\ b \in LadderState /\ KeepsItsMarks(ladder, b) /\ b.round > 0
      /\ b.candidate = ladder.candidate
  BY <1>3, <1>4 DEF LadderState, KeepsItsMarks
<1>6. c \in LadderState /\ KeepsItsMarks(ladder, c) /\ c.candidate = 0 /\ c.turn = "key"
  BY <1>3, <1>4 DEF LadderState, KeepsItsMarks
<1> HIDE DEF b, c
<1>7. CASE ladder.round = 0 /\ PasswordFrom(b, "password challenge")
  <2>1. ladder.candidate = 0
    <3>1. ladder.candidate # 0 => ladder.last = "password" \/ ladder.round > 0
      BY <1>1, ServerTurnFacts
    <3>2. ladder.round = 0 /\ ladder.last # "password"
      BY <1>1, <1>7
    <3>3. ~(ladder.round > 0)
      BY <3>2
    <3> QED BY <3>1, <3>2, <3>3
  <2>2. "password challenge" \in Passwords /\ Fits("password challenge", b)
    BY <1>5 DEF Passwords, Fits
  <2> QED BY <1>1, <1>5, <1>7, <2>1, <2>2, ServerTurnFacts, PasswordStepKeeps
<1>8. CASE asking' = "challenge" /\ deadline' = Paused(deadline) /\ ladder' = c
  <2>1. Fits("challenge", c) /\ "challenge" \in LadderQuestions
    BY QuestionsAreAsked DEF Fits
  <2> QED BY <1>1, <1>6, <1>8, <2>1, ServerTurnFacts, AskKeeps
<1> QED BY <1>1, <1>7, <1>8

LEMMA ProvedGrows ==
  ASSUME DialInv, ServerTurn
  PROVE  /\ Proved \in SUBSET Nat /\ login.proved \subseteq Proved
         /\ ladder.candidate \in Proved \union {0}
         /\ Append(login.granted, ladder.last) \in Seq(Methods \union {NoMethod})
<1>1. login.proved \in SUBSET Nat /\ login.offered \in Nat
      /\ login.granted \in Seq(Methods \union {NoMethod})
  BY ServerTurnFacts DEF LoginState
<1>2. Proved \in SUBSET Nat /\ login.proved \subseteq Proved
  BY <1>1 DEF Proved
<1>3. ladder.candidate \in Proved \union {0}
  BY ServerTurnFacts DEF Proved
<1> QED BY <1>1, <1>2, <1>3, ServerTurnFacts, AppendProperties

LEMMA ServerRefusesKeeps == ASSUME DialInv, ServerRefuses PROVE DialInv'
<1>1. PICK left \in {Methods, {"publickey"}, {"password"}}, partial \in BOOLEAN :
        /\ ladder' = NextAttempt(ladder, left, partial)
        /\ login' = IF ~partial THEN [login EXCEPT !.offered = 0]
                    ELSE [login EXCEPT !.offered = 0, !.proved = Proved,
                                       !.granted = Append(login.granted, ladder.last)]
  BY DEF ServerRefuses
<1>2. /\ ServerTurn /\ dial' = dial /\ deadline' = deadline /\ asking' = asking
      /\ agent' = agent
  BY DEF ServerRefuses
<1>3. left \in SUBSET Methods
  BY DEF Methods
<1> DEFINE proved == IF partial THEN Proved ELSE login.proved
           granted == IF partial THEN Append(login.granted, ladder.last) ELSE login.granted
           l == [login EXCEPT !.offered = 0, !.proved = proved, !.granted = granted]
<1>4. login' = l
  <2>1. login \in LoginState
    BY <1>2, ServerTurnFacts
  <2>2. CASE ~partial
    BY <1>1, <2>1, <2>2 DEF LoginState
  <2>3. CASE partial
    BY <1>1, <2>3
  <2> QED BY <2>2, <2>3
<1>5. /\ proved \in SUBSET Nat /\ granted \in Seq(Methods \union {NoMethod})
      /\ login.proved \subseteq proved
      /\ partial => ladder.candidate \in proved \union {0}
      /\ partial => granted = Append(login.granted, ladder.last)
      /\ ~partial => granted = login.granted
  BY <1>2, ServerTurnFacts, ProvedGrows DEF LoginState
<1> HIDE DEF proved, granted
<1>6. /\ l \in LoginState /\ l.proved = proved /\ l.granted = granted
      /\ l.remembered = login.remembered
  <2>1. login \in LoginState /\ 0 \in Nat
    BY <1>2, ServerTurnFacts
  <2> QED BY <1>5, <2>1 DEF LoginState
<1> HIDE DEF l
<1>7. /\ ladder' \in LadderState /\ ladder'.candidate = 0 /\ ladder'.turn = "client"
      /\ ~partial => KeepsItsMarks(ladder, ladder')
      /\ \/ ladder'.partialCandidate = ladder.partialCandidate
         \/ /\ partial /\ ladder.candidate # 0
            /\ ladder'.partialCandidate = ladder.candidate
      /\ partial => ladder'.partials = Append(ladder.partials, ladder.last)
  BY <1>1, <1>2, <1>3, ServerTurnFacts, NextEffect
<1>8. DialTypes' /\ TurnsFollowWaits'
  BY <1>2, <1>4, <1>6, <1>7, ServerTurnFacts DEF DialInv, DialTypes, TurnsFollowWaits
<1>9. CandidatesWereOffered'
  BY <1>2, <1>4, <1>5, <1>6, <1>7, ServerTurnFacts DEF DialInv, CandidatesWereOffered
<1>10. ladder.partials = login.granted
  BY <1>2, ServerTurnFacts DEF DialInv, GrantedInOrder
<1>11. GrantedInOrder'
  <2>1. ladder'.partials = login'.granted
    BY <1>4, <1>5, <1>6, <1>7, <1>10 DEF KeepsItsMarks
  <2> QED BY <1>2, <2>1, ServerTurnFacts DEF GrantedInOrder
<1>12. DeadlineRuns'
  BY <1>2 DEF DialInv, DeadlineRuns, Dialing
<1> QED BY <1>8, <1>9, <1>11, <1>12 DEF DialInv

LEMMA ServerAcceptsKeeps == ASSUME DialInv, ServerAccepts PROVE DialInv'
<1> DEFINE granted == Append(login.granted, ladder.last)
           l == [login EXCEPT !.proved = Proved, !.granted = granted]
<1>1. /\ ServerTurn /\ dial' = "ready" /\ deadline' = Cleared /\ login' = l
      /\ asking' = asking /\ agent' = agent /\ ladder' = ladder
  BY DEF ServerAccepts
<1>2. granted \in Seq(Methods \union {NoMethod})
  BY <1>1, ProvedGrows
<1>3. granted = AcceptedMethods
  BY <1>1, ServerTurnFacts DEF DialInv, GrantedInOrder, AcceptedMethods
<1> HIDE DEF granted
<1>4. /\ l \in LoginState /\ l.proved = Proved /\ l.granted = granted
      /\ l.remembered = login.remembered
  BY <1>1, <1>2, ServerTurnFacts, ProvedGrows DEF LoginState
<1> HIDE DEF l
<1>5. DialTypes' /\ TurnsFollowWaits'
  BY <1>1, <1>4, ClearedEffect DEF DialInv, DialTypes, TurnsFollowWaits
<1>6. CandidatesWereOffered'
  BY <1>1, <1>4, ProvedGrows DEF DialInv, CandidatesWereOffered
<1>7. GrantedInOrder'
  BY <1>1, <1>3, <1>4 DEF GrantedInOrder, Dialing, AcceptedMethods
<1>8. DeadlineRuns'
  BY <1>1, ClearedEffect DEF DeadlineRuns, Dialing
<1> QED BY <1>5, <1>6, <1>7, <1>8 DEF DialInv

LEMMA CommitKeeps == ASSUME DialInv, Commit PROVE DialInv'
<1> DEFINE kept == IF ladder.candidate # 0 THEN ladder.candidate ELSE ladder.partialCandidate
           k == [ladder EXCEPT !.candidate = 0, !.partialCandidate = 0]
<1>1. /\ dial = "ready" /\ dial' = dial /\ deadline' = deadline /\ asking' = asking
      /\ agent' = agent /\ ladder' = k
  BY DEF Commit
<1>2. PICK stored \in {0, kept} :
        login' = [login EXCEPT !.remembered = stored, !.committed = TRUE]
  BY DEF Commit
<1> DEFINE l == [login EXCEPT !.remembered = stored, !.committed = TRUE]
<1>3. stored \in login.proved \union {0}
  BY <1>1 DEF DialInv, CandidatesWereOffered
<1>4. ladder \in LadderState /\ login \in LoginState /\ TRUE \in BOOLEAN /\ 0 \in Nat
  BY DEF DialInv, DialTypes
<1>5. stored \in Nat
  BY <1>3, <1>4 DEF LoginState
<1>6. login' = l
  BY <1>2
<1>7. /\ l \in LoginState /\ l.proved = login.proved /\ l.granted = login.granted
      /\ l.remembered = stored
  BY <1>4, <1>5 DEF LoginState
<1>8. /\ k \in LadderState /\ k.candidate = 0 /\ k.partialCandidate = 0
      /\ k.partials = ladder.partials /\ k.last = ladder.last
  BY <1>4 DEF LadderState
<1> HIDE DEF k, l
<1>9. DialTypes' /\ TurnsFollowWaits'
  BY <1>1, <1>6, <1>7, <1>8 DEF DialInv, DialTypes, TurnsFollowWaits
<1>10. CandidatesWereOffered'
  BY <1>1, <1>3, <1>6, <1>7, <1>8 DEF CandidatesWereOffered
<1>11. GrantedInOrder'
  BY <1>1, <1>6, <1>7, <1>8 DEF DialInv, GrantedInOrder, Dialing, AcceptedMethods
<1>12. DeadlineRuns'
  BY <1>1 DEF DialInv, DeadlineRuns, Dialing
<1> QED BY <1>9, <1>10, <1>11, <1>12 DEF DialInv

LEMMA EndsKeep == ASSUME DialInv, Exhausted \/ ConnectionLost \/ DeadlineExpires PROVE DialInv'
<1>1. asking' = asking /\ agent' = agent /\ Rejected(ladder)
  BY DEF Exhausted, ConnectionLost, DeadlineExpires
<1>2. Dialing
  <2>1. DeadlineExpires => Dialing
    <3>1. deadline \in DeadlineState /\ (deadline.active <=> Dialing)
      BY DEF DialInv, DialTypes, DeadlineRuns
    <3>2. deadline.armed => deadline.active
      BY <3>1 DEF DeadlineState
    <3> QED BY <3>1, <3>2 DEF DeadlineExpires
  <2> QED BY <2>1 DEF Exhausted, ConnectionLost, Chooses, Dialing
<1>3. asking' \in Questions \union {"no"} /\ agent' \in AgentState
  BY <1>1 DEF DialInv, DialTypes
<1> QED BY <1>1, <1>2, <1>3, RejectedKeeps

-----------------------------------------------------------------------------
LEMMA DialStarts == DialInit => DialInv
<1> SUFFICES ASSUME DialInit
             PROVE  DialInv
  OBVIOUS
<1>1. /\ dial = "keys" /\ asking = "no"
      /\ deadline = [active |-> TRUE, armed |-> TRUE, depth |-> 0]
      /\ agent = [request |-> "no", owed |-> FALSE, unavailable |-> FALSE]
      /\ login = [offered |-> 0, proved |-> {}, granted |-> <<>>, remembered |-> 0,
                  committed |-> FALSE]
  BY DEF DialInit
<1>2. PICK stored \in BOOLEAN :
        ladder = [index |-> 0, left |-> Methods, turn |-> "client", round |-> 0,
                  last |-> NoMethod, partials |-> <<>>, candidate |-> 0, partialCandidate |-> 0,
                  saved |-> stored, savedTried |-> FALSE, retryChallenge |-> FALSE,
                  cancelled |-> FALSE]
  BY DEF DialInit
<1>3. TRUE \in BOOLEAN /\ FALSE \in BOOLEAN /\ 0 \in Nat
  OBVIOUS
<1>4. <<>> \in Seq(Methods) /\ <<>> \in Seq(Methods \union {NoMethod})
  BY EmptySeq
<1>5. ladder \in LadderState /\ login \in LoginState
  BY <1>1, <1>2, <1>3, <1>4 DEF LadderState, LoginState
<1>6. deadline \in DeadlineState /\ agent \in AgentState
  BY <1>1, <1>3 DEF DeadlineState, AgentState
<1>7. DialTypes /\ TurnsFollowWaits
  BY <1>1, <1>2, <1>5, <1>6 DEF DialTypes, TurnsFollowWaits
<1>8. CandidatesWereOffered /\ GrantedInOrder
  BY <1>1, <1>2 DEF CandidatesWereOffered, GrantedInOrder, Dialing
<1>9. DeadlineRuns
  BY <1>1 DEF DeadlineRuns, Dialing, OneIf
<1> QED BY <1>7, <1>8, <1>9 DEF DialInv

LEMMA DialStep == ASSUME DialInv, [DialNext]_dialVars PROVE DialInv'
<1>1. CASE UNCHANGED dialVars
  BY <1>1 DEF dialVars, DialInv, DialTypes, TurnsFollowWaits, CandidatesWereOffered,
              GrantedInOrder, DeadlineRuns, Dialing, AcceptedMethods
<1>2. CASE NotAccepted \/ OfferNone \/ OfferKey \/ OfferPassword \/ OfferChallenges
  BY <1>2, NotAcceptedKeeps, OfferNoneKeeps, OfferKeyKeeps, OfferPasswordKeeps,
     OfferChallengesKeeps
<1>3. CASE OfferAgent \/ AgentAnswers \/ AgentSigns \/ AgentFails \/ AgentAnswersLate
             \/ AgentAsksPin
  BY <1>3, OfferAgentKeeps, AgentAnswersKeeps, AgentSignsKeeps, AgentFailsKeeps,
     AgentAnswersLateKeeps, AgentAsksPinKeeps
<1>4. CASE HostKeyKnown \/ HostKeyAsked \/ HostKeyAnswered
  BY <1>4, HostKeyKeeps
<1>5. CASE TextAnswered \/ PasswordAnswered \/ VaultAnswered \/ PromptRefused
             \/ PromptOutlived
  BY <1>5, TextAnsweredKeeps, PasswordAnsweredKeeps, VaultAnsweredKeeps,
     PromptRefusedKeeps, PromptOutlivedKeeps
<1>6. CASE ServerChallenges \/ ServerRefuses \/ ServerAccepts \/ Commit
  BY <1>6, ServerChallengesKeeps, ServerRefusesKeeps, ServerAcceptsKeeps, CommitKeeps
<1>7. CASE Exhausted \/ ConnectionLost \/ DeadlineExpires
  BY <1>7, EndsKeep
<1> QED BY <1>1, <1>2, <1>3, <1>4, <1>5, <1>6, <1>7 DEF DialNext

\* The deadline of a dial runs exactly while nobody is waited for, and a password is
\* remembered only when the server has accepted it in this login, whatever is refused,
\* timed out or answered late (PausableDeadline, AuthLadder and ResponsiveAgent,
\* connection-manager.ts:1370-1377, 1473-1490, 2180-2201, 2274-2318, 2585-2596).
THEOREM DialsKeepTheirWord == DialSpec => []DialKeepsItsWord
<1>1. DialInv => DialKeepsItsWord
  BY DEF DialInv, DialKeepsItsWord, LoginIsAccounted, CandidatesWereOffered, GrantedInOrder
<1> QED BY <1>1, DialStarts, DialStep, PTL DEF DialSpec

-----------------------------------------------------------------------------
(* The password vault (PasswordVault) *)

WellConfigured ==
  {k \in Config : IF k.vault = NoVault THEN k = NoConfig ELSE k.policy \in Policy}

ForCredential == {"edit", "add", "use", "remember"}
ForConfig == {"unlock", "repair", "policy", "password"} \union ForCredential

\* Which operation may be at which await, and with what it came there.
OpState ==
  {x \in [kind : Kind, at : AwaitName, snap : WellConfigured, right : BOOLEAN,
          arg : Policy \union Password \union {"none"}, cred : Credential \union {"none"},
          row : 0 .. MaxRows] :
     /\ x.at = "idle" <=> x.kind = "idle"
     /\ x.at = "derive" => x.kind \notin {"idle", "reset"}
     /\ x.at = "derive next" => x.kind = "password"
     /\ x.at = "set" => /\ x.kind \in {"create", "repair", "policy", "password", "use", "remember"}
                        /\ x.kind \in {"create", "password", "use", "remember"}
                             => x.snap.policy = "never"
     /\ x.at = "undo" => x.kind \in {"create", "repair", "policy"}
     /\ x.at = "delete" => x.kind = "reset" \/ (x.kind = "policy" /\ x.arg # "never")
     /\ x.kind = "unlock" => x.snap.policy = "startup"
     /\ x.kind = "policy" => x.arg \in Policy
     /\ x.kind = "password" => x.arg \in Password
     /\ x.kind \in ForCredential => x.cred \in Credential
     /\ x.kind = "edit" <=> x.row # 0 /\ x.kind \notin {"use", "remember"}}

DataTypes ==
  /\ config \in WellConfigured /\ config.vault \in drawn \union {NoVault}
  /\ saved \in [Credential -> SavedRow]
  /\ cleanup \subseteq drawn /\ osKeys \subseteq drawn /\ drawn \subseteq Vault
  /\ key \in drawn \union {NoVault} /\ up \in BOOLEAN /\ raced \in BOOLEAN
  /\ access \in [Vault -> {"none", "wanted", "left"}]
  /\ ~up => key = NoVault

\* Whoever waits waits for a vault that was drawn, while the application runs.
WaitsFor(x) ==
  x.kind # "idle" => /\ up /\ x.snap.vault \in drawn
                     /\ x.kind \in ForCredential => RoomFor(x.cred)

\* While nothing has overlapped: an operation still finds the configuration it read,
\* but for what it has changed itself, and the row it read.
IsCurrent(x) ==
  x.kind # "idle" =>
    /\ x.at # "undo"
    /\ x.kind \in {"create", "reset"} => config = NoConfig
    /\ x.kind \in ForConfig => config.vault = x.snap.vault
    /\ x.kind \in ForConfig /\ x.at # "delete" /\ (x.kind = "password" => x.at # "set")
         => config = x.snap
    /\ x.kind = "password" /\ x.at = "set" => config.policy = "never"
    /\ x.kind = "policy" /\ x.at = "delete" => config.policy = x.arg
    /\ x.kind = "edit" => saved[x.cred].row = x.row

SavedInVault == \A c \in Credential : IsSaved(c) => Configured

Automatically(v) == config.vault = v /\ config.policy = "never"

\* Only the vault that has automatic access wants its key kept.
AccessFollows ==
  \A v \in Vault : /\ access[v] = "wanted" => v \in osKeys /\ Automatically(v)
                   /\ access[v] = "left" => /\ v \notin osKeys \/ v \in cleanup
                                            /\ ~Automatically(v)

VaultSound ==
  /\ KeyIsCurrent /\ SealsOpen /\ SavedInVault /\ AccessFollows
  /\ \A o \in Op : IsCurrent(ops[o])

VaultInv ==
  /\ DataTypes /\ ops \in [Op -> OpState] /\ \A o \in Op : WaitsFor(ops[o])
  /\ ~raced => VaultSound

Races == raced' = (raced \/ Overlaps)

\* Rows come and go; while they are there, their number stays.
RowsStay ==
  \A c \in Credential : /\ RoomFor(c) => RoomFor(c)'
                        /\ saved'[c].row \in {0, saved[c].row} \/ ~IsSaved(c)

LEMMA IdleOp == NoOp \in OpState /\ NoOp.kind = "idle" /\ NoConfig \in WellConfigured
<1>1. NoConfig \in WellConfigured
  BY DEF NoConfig, WellConfigured, Config
<1>2. 0 \in 0 .. MaxRows /\ FALSE \in BOOLEAN
  BY VaultAssumption
<1> QED BY <1>1, <1>2, VaultAssumption DEF NoOp, OpState, Kind, AwaitName, ForCredential

\* What one operation does leaves the others as they are, or has overlapped them.
LEMMA OthersGoOn ==
  ASSUME VaultInv, Races, NEW o \in Op, NEW x \in OpState, ops' = [ops EXCEPT ![o] = x],
         up' = up, drawn \subseteq drawn', RowsStay
  PROVE  /\ ops' \in [Op -> OpState] /\ ops'[o] = x
         /\ raced' \in BOOLEAN
         /\ ~raced' => VaultSound
         /\ \A p \in Op \ {o} : ops'[p] = ops[p] /\ WaitsFor(ops[p])'
         /\ ~raced' => \A p \in Op \ {o} : IsCurrent(ops[p])'
<1>1. ops \in [Op -> OpState] /\ raced \in BOOLEAN
  BY DEF VaultInv, DataTypes
<1>2. ops' \in [Op -> OpState] /\ ops'[o] = x /\ \A p \in Op \ {o} : ops'[p] = ops[p]
  BY <1>1
<1>3. raced' \in BOOLEAN /\ (~raced' => ~raced /\ ~Overlaps)
  BY <1>1 DEF Races
<1>4. ~raced' => VaultSound
  BY <1>3 DEF VaultInv
<1>5. ASSUME NEW p \in Op \ {o}
      PROVE  WaitsFor(ops[p])' /\ (~raced' => IsCurrent(ops[p])')
  <2>1. ops'[p] = ops[p] /\ ops[p] \in OpState
    BY <1>1, <1>2
  <2>2. WaitsFor(ops[p])
    BY DEF VaultInv
  <2>3. ops[p].kind \in ForCredential => ops[p].cred \in Credential
    BY <2>1 DEF OpState
  <2>4. WaitsFor(ops[p])'
    BY <2>1, <2>2, <2>3 DEF WaitsFor, RowsStay
  <2>5. ASSUME ~raced', ops[p].kind # "idle"
        PROVE  /\ config' = config
               /\ \A c \in Credential : IsSaved(c) => saved'[c].row # 0
    <3>1. up'
      BY <2>2, <2>5 DEF WaitsFor
    <3> QED BY <1>3, <2>1, <2>5, <3>1 DEF Overlaps, InFlight
  <2>6. ASSUME ~raced', ops[p].kind = "edit"
        PROVE  saved'[ops[p].cred].row = ops[p].row
    <3>1. ops[p].cred \in Credential /\ ops[p].row # 0
      BY <2>1, <2>6 DEF OpState, ForCredential
    <3>2. saved[ops[p].cred].row = ops[p].row
      BY <1>4, <2>6 DEF VaultSound, IsCurrent
    <3> QED BY <2>5, <2>6, <3>1, <3>2 DEF RowsStay, IsSaved
  <2>7. ~raced' => IsCurrent(ops[p])
    BY <1>4 DEF VaultSound
  <2> QED BY <2>1, <2>4, <2>5, <2>6, <2>7 DEF IsCurrent
<1> QED BY <1>1, <1>2, <1>3, <1>4, <1>5

LEMMA OneOpSteps ==
  ASSUME VaultInv, Races, NEW o \in Op, NEW x \in OpState, ops' = [ops EXCEPT ![o] = x],
         up' = up, drawn \subseteq drawn', RowsStay, DataTypes', WaitsFor(x)',
         ~raced' => /\ KeyIsCurrent' /\ SealsOpen' /\ SavedInVault' /\ AccessFollows'
                    /\ IsCurrent(x)'
  PROVE  VaultInv'
<1>1. /\ ops' \in [Op -> OpState] /\ ops'[o] = x
      /\ \A p \in Op \ {o} : ops'[p] = ops[p] /\ WaitsFor(ops[p])'
      /\ ~raced' => \A p \in Op \ {o} : IsCurrent(ops[p])'
  BY OthersGoOn
<1>2. ASSUME NEW p \in Op
      PROVE  WaitsFor(ops[p])' /\ (~raced' => IsCurrent(ops[p])')
  <2>1. CASE p = o
    BY <1>1, <2>1 DEF WaitsFor, IsCurrent
  <2>2. CASE p # o
    BY <1>1, <2>2 DEF WaitsFor, IsCurrent
  <2> QED BY <2>1, <2>2
<1> QED BY <1>1, <1>2 DEF VaultInv, VaultSound

\* The key stays current while the operation that is entering a policy stays there.
LEMMA KeyStays ==
  ASSUME VaultInv, Races, NEW o \in Op, NEW x \in OpState, ops' = [ops EXCEPT ![o] = x],
         UNCHANGED key, config'.vault = config.vault, config'.policy = config.policy,
         ops[o].at = "delete" => x.at = "delete"
  PROVE  KeyIsCurrent => KeyIsCurrent'
<1>1. SUFFICES ASSUME KeyIsCurrent PROVE KeyIsCurrent'
  OBVIOUS
<1>2. ops \in [Op -> OpState]
  BY DEF VaultInv
<1>3. \A p \in Op : IsAt(p, "delete") => IsAt(p, "delete")'
  BY <1>2 DEF IsAt
<1> QED BY <1>1, <1>3 DEF KeyIsCurrent

\* An operation that only waits, or ends, changes nothing.
LEMMA OnlyWaits ==
  ASSUME VaultInv, Races, NEW o \in Op, NEW x \in OpState, ops' = [ops EXCEPT ![o] = x],
         UNCHANGED <<database, osKeys, key, up, access>>, drawn \subseteq drawn',
         drawn' \subseteq Vault, WaitsFor(x)', ops[o].at = "delete" => x.at = "delete",
         ~raced' /\ VaultSound => IsCurrent(x)'
  PROVE  VaultInv'
<1>1. DataTypes /\ (~raced => VaultSound)
  BY DEF VaultInv
<1>2. raced' \in BOOLEAN /\ (~raced' => ~raced)
  BY <1>1 DEF Races, DataTypes
<1>3. DataTypes'
  BY <1>1, <1>2 DEF DataTypes, database
<1>4. RowsStay
  BY DEF RowsStay, RoomFor, IsSaved, database
<1>5. ~raced' => SealsOpen' /\ SavedInVault' /\ AccessFollows'
  BY <1>1, <1>2 DEF VaultSound, SealsOpen, SavedInVault, AccessFollows, IsSaved, Configured,
                    Automatically, database
<1>6. ~raced' => KeyIsCurrent'
  BY <1>1, <1>2, KeyStays DEF VaultSound, database
<1> QED BY <1>1, <1>2, <1>3, <1>4, <1>5, <1>6, OneOpSteps

LEMMA InsertsRow ==
  ASSUME DataTypes, NEW c \in Credential, RoomFor(c), NEW k \in drawn, NEW b \in 0 .. MaxRows,
         saved' = Upserted(c, k, b)
  PROVE  /\ saved' \in [Credential -> SavedRow] /\ RowsStay
         /\ saved'[c].row # 0 /\ saved'[c].key = k
         /\ IsSaved(c) => saved'[c].row = saved[c].row
         /\ b \in {0, saved'[c].row} => saved'[c].bound = saved'[c].row
         /\ \A d \in Credential \ {c} : saved'[d] = saved[d]
<1> DEFINE row == IF IsSaved(c) THEN saved[c].row ELSE saved[c].last + 1
           newest == IF row > saved[c].last THEN row ELSE saved[c].last
           r == [row |-> row, last |-> newest, key |-> k, bound |-> IF b = 0 THEN row ELSE b]
<1>1. saved \in [Credential -> SavedRow] /\ k \in Vault /\ MaxRows \in Nat
  BY VaultAssumption DEF DataTypes
<1>2. saved[c].row \in 0 .. MaxRows /\ saved[c].last \in 0 .. MaxRows
  BY <1>1 DEF SavedRow
<1>3. row \in 0 .. MaxRows /\ row # 0
  BY <1>1, <1>2 DEF RoomFor, IsSaved
<1>4. newest \in 0 .. MaxRows
  BY <1>2, <1>3
<1>5. saved' = [saved EXCEPT ![c] = r]
  BY <1>1 DEF Upserted, IsSaved
<1>6. r \in SavedRow /\ r.row = row /\ r.key = k /\ (b \in {0, row} => r.bound = row)
  BY <1>1, <1>3, <1>4 DEF SavedRow
<1>7. IsSaved(c) => row = saved[c].row
  OBVIOUS
<1> HIDE DEF r, row
<1>8. /\ saved' \in [Credential -> SavedRow] /\ saved'[c] = r
      /\ \A d \in Credential \ {c} : saved'[d] = saved[d]
  BY <1>1, <1>5, <1>6
<1>9. RowsStay
  <2>1. SUFFICES ASSUME NEW d \in Credential
                 PROVE  /\ RoomFor(d) => RoomFor(d)'
                        /\ saved'[d].row \in {0, saved[d].row} \/ ~IsSaved(d)
    BY DEF RowsStay
  <2>2. CASE d = c
    BY <1>3, <1>6, <1>7, <1>8, <2>2 DEF RoomFor, IsSaved
  <2>3. CASE d # c
    BY <1>8, <2>3 DEF RoomFor, IsSaved
  <2> QED BY <2>2, <2>3
<1> QED BY <1>3, <1>6, <1>7, <1>8, <1>9

\* An operation begins with the configuration there is and the row it is about.
LEMMA BeginKeeps ==
  ASSUME VaultInv, Races, NEW o \in Op, up, ~InFlight(o), Configured,
         NEW kind \in ForConfig, NEW p \in Password,
         NEW arg \in Policy \union Password \union {"none"}, NEW c \in Credential \union {"none"},
         kind = "unlock" => config.policy = "startup",
         kind = "policy" => arg \in Policy, kind = "password" => arg \in Password,
         IF kind \in ForCredential THEN c \in Credential /\ RoomFor(c) ELSE c = "none",
         kind = "edit" => IsSaved(c), kind = "add" => ~IsSaved(c),
         UNCHANGED up, Begins(o, kind, p, arg, c)
  PROVE  VaultInv'
<1>1. PICK x :
        /\ x = [kind |-> kind, at |-> "derive", snap |-> config, right |-> p = config.password,
                arg |-> arg, cred |-> c, row |-> IF c = "none" THEN 0 ELSE saved[c].row]
        /\ ops' = [ops EXCEPT ![o] = x]
  BY DEF Begins
<1>2. DataTypes /\ ops \in [Op -> OpState]
  BY DEF VaultInv
<1>3. saved \in [Credential -> SavedRow] /\ config \in WellConfigured
  BY <1>2 DEF DataTypes
<1>4. PICK row \in 0 .. MaxRows : row = IF c = "none" THEN 0 ELSE saved[c].row
  BY <1>3, VaultAssumption DEF SavedRow
<1>5. PICK right \in BOOLEAN : right = (p = config.password)
  OBVIOUS
<1>6. /\ x.kind = kind /\ x.at = "derive" /\ x.snap = config /\ x.arg = arg /\ x.cred = c
      /\ x.row = row
      /\ x \in [kind : Kind, at : AwaitName, snap : WellConfigured, right : BOOLEAN,
                arg : Policy \union Password \union {"none"}, cred : Credential \union {"none"},
                row : 0 .. MaxRows]
  <2>1. kind \in Kind /\ "derive" \in AwaitName
    BY DEF Kind, AwaitName, ForConfig, ForCredential
  <2> QED BY <1>1, <1>3, <1>4, <1>5, <2>1
<1>7. kind = "edit" <=> row # 0 /\ kind \notin {"use", "remember"}
  <2>1. kind = "edit" => c \in Credential /\ row # 0
    BY <1>4, VaultAssumption DEF ForCredential, IsSaved
  <2>2. kind \notin {"edit", "use", "remember"} => row = 0
    BY <1>4 DEF ForCredential, IsSaved
  <2> QED BY <2>1, <2>2
<1>8. x \in OpState
  BY <1>6, <1>7 DEF OpState, ForConfig, ForCredential
<1>9. WaitsFor(x)'
  <2>1. config.vault \in drawn /\ drawn' = drawn /\ saved' = saved /\ up'
    BY <1>2 DEF DataTypes, Configured, Begins, database
  <2> QED BY <1>6, <2>1 DEF WaitsFor, RoomFor, IsSaved
<1>10. ops[o].at # "delete"
  BY <1>2 DEF InFlight, OpState
<1>11. IsCurrent(x)'
  <2>1. config' = config /\ saved' = saved
    BY DEF Begins, database
  <2>2. kind = "edit" => c \in Credential /\ row = saved[c].row
    BY <1>4, VaultAssumption DEF ForCredential
  <2> QED BY <1>6, <2>1, <2>2 DEF IsCurrent, ForConfig, ForCredential
<1>12. UNCHANGED <<database, osKeys, key, up, access, drawn>>
  BY DEF Begins
<1> QED BY <1>1, <1>2, <1>8, <1>9, <1>10, <1>11, <1>12, OnlyWaits DEF DataTypes

LEMMA ManageKeeps ==
  ASSUME VaultInv, Races, NEW o \in Op, UNCHANGED up, Manage(o) \/ Edit(o)
  PROVE  VaultInv'
<1> USE DEF Free
<1>1. CASE Manage(o)
  <2>1. PICK p \in Password :
          \/ config.policy = "startup" /\ Begins(o, "unlock", p, "none", "none")
          \/ Begins(o, "repair", p, "none", "none")
          \/ \E policy \in Policy : Begins(o, "policy", p, policy, "none")
          \/ \E next \in Password : Begins(o, "password", p, next, "none")
    BY <1>1 DEF Manage
  <2>2. {"unlock", "repair", "policy", "password"} \subseteq ForConfig \ ForCredential
    BY DEF ForConfig, ForCredential
  <2>3. CASE config.policy = "startup" /\ Begins(o, "unlock", p, "none", "none")
    BY <1>1, <2>2, <2>3, BeginKeeps DEF Manage
  <2>4. CASE Begins(o, "repair", p, "none", "none")
    BY <1>1, <2>2, <2>4, BeginKeeps DEF Manage
  <2>5. CASE \E policy \in Policy : Begins(o, "policy", p, policy, "none")
    BY <1>1, <2>2, <2>5, BeginKeeps DEF Manage
  <2>6. CASE \E next \in Password : Begins(o, "password", p, next, "none")
    BY <1>1, <2>2, <2>6, BeginKeeps DEF Manage
  <2> QED BY <2>1, <2>3, <2>4, <2>5, <2>6
<1>2. CASE Edit(o)
  <2>1. PICK p \in Password, c \in Credential :
          \/ IsSaved(c) /\ Begins(o, "edit", p, "none", c)
          \/ ~IsSaved(c) /\ RoomFor(c) /\ Begins(o, "add", p, "none", c)
    BY <1>2 DEF Edit
  <2>2. {"edit", "add"} \subseteq ForCredential /\ ForCredential \subseteq ForConfig
    BY DEF ForConfig, ForCredential
  <2>3. IsSaved(c) => RoomFor(c)
    BY DEF RoomFor
  <2> QED BY <1>2, <2>1, <2>2, <2>3, BeginKeeps DEF Edit
<1> QED BY <1>1, <1>2

LEMMA CreateKeeps ==
  ASSUME VaultInv, Races, NEW o \in Op, UNCHANGED up, CreateVault(o)
  PROVE  VaultInv'
<1>1. PICK v \in Vault \ drawn, p \in Password, policy \in Policy :
        /\ ops' = [ops EXCEPT ![o] = [NoOp EXCEPT !.kind = "create", !.at = "derive",
                    !.right = TRUE, !.snap = [vault |-> v, policy |-> policy, password |-> p]]]
        /\ drawn' = drawn \union {v}
  BY DEF CreateVault
<1>2. PICK s : s = [vault |-> v, policy |-> policy, password |-> p]
  OBVIOUS
<1>3. s \in WellConfigured /\ s.vault = v
  BY <1>2, VaultAssumption DEF WellConfigured, Config
<1>4. PICK x : x = [NoOp EXCEPT !.kind = "create", !.at = "derive", !.right = TRUE, !.snap = s]
  OBVIOUS
<1>5. x \in OpState /\ x.kind = "create" /\ x.at = "derive" /\ x.snap = s
  <2>1. TRUE \in BOOLEAN /\ 0 \in 0 .. MaxRows /\ "create" \in Kind /\ "derive" \in AwaitName
    BY VaultAssumption DEF Kind, AwaitName
  <2>2. x = [kind |-> "create", at |-> "derive", snap |-> s, right |-> TRUE, arg |-> "none",
             cred |-> "none", row |-> 0]
    BY <1>4 DEF NoOp
  <2> HIDE <1>4
  <2> QED BY <1>3, <2>1, <2>2 DEF OpState, ForCredential
<1>6. DataTypes /\ ops \in [Op -> OpState] /\ ops[o].at # "delete"
  <2>1. ops \in [Op -> OpState] /\ ops[o].kind = "idle"
    BY DEF VaultInv, CreateVault, Free, InFlight
  <2> QED BY <2>1 DEF VaultInv, OpState
<1>7. WaitsFor(x)'
  BY <1>1, <1>3, <1>5 DEF WaitsFor, CreateVault, Free, ForCredential
<1>8. config' = config /\ config = NoConfig
  BY <1>6 DEF DataTypes, WellConfigured, CreateVault, Configured, database
<1>9. IsCurrent(x)'
  BY <1>5, <1>8 DEF IsCurrent, ForConfig, ForCredential
<1>10. UNCHANGED <<database, osKeys, key, up, access>>
  BY DEF CreateVault
<1>11. drawn \subseteq drawn' /\ drawn' \subseteq Vault
  BY <1>1, <1>6 DEF DataTypes
<1> QED BY <1>1, <1>2, <1>4, <1>5, <1>6, <1>7, <1>9, <1>10, <1>11, OnlyWaits

\* An operation that ends without a change: a wrong password, a second create().
LEMMA NothingKeeps ==
  ASSUME VaultInv, Races, NEW o \in Op, ops[o].at # "delete", Ends(o),
         UNCHANGED <<database, osKeys, key, up, access, drawn>>
  PROVE  VaultInv'
<1>1. ops' = [ops EXCEPT ![o] = NoOp]
  BY DEF Ends
<1>2. NoOp \in OpState /\ WaitsFor(NoOp)' /\ IsCurrent(NoOp)'
  BY IdleOp DEF WaitsFor, IsCurrent, NoOp
<1> QED BY <1>1, <1>2, OnlyWaits DEF VaultInv, DataTypes

\* An operation that goes on to its next await, nothing changed.
LEMMA AwaitKeeps ==
  ASSUME VaultInv, Races, NEW o \in Op, NEW await \in {"derive next", "set"}, Awaits(o, await),
         ops[o].at = "derive", ops[o].kind # "edit",
         [ops[o] EXCEPT !.at = await] \in OpState,
         await = "set" => ops[o].kind # "password",
         UNCHANGED <<database, osKeys, key, up, access, drawn>>
  PROVE  VaultInv'
<1>1. PICK x \in OpState : x = [ops[o] EXCEPT !.at = await]
  OBVIOUS
<1>2. /\ DataTypes /\ ops \in [Op -> OpState] /\ WaitsFor(ops[o]) /\ ops[o].kind # "idle"
      /\ ~raced => IsCurrent(ops[o])
  <2>1. DataTypes /\ ops \in [Op -> OpState] /\ WaitsFor(ops[o])
    BY DEF VaultInv
  <2> QED BY <2>1 DEF OpState, VaultInv, VaultSound
<1>3. /\ x.at = await /\ x.kind = ops[o].kind /\ x.snap = ops[o].snap /\ x.cred = ops[o].cred
  <2>1. ops[o] \in OpState
    BY <1>2
  <2> QED BY <1>1, <2>1 DEF OpState
<1>4. WaitsFor(x)'
  BY <1>2, <1>3 DEF WaitsFor, RoomFor, IsSaved, database
<1>5. ~raced' => ~raced
  BY <1>2 DEF Races
<1>6. ~raced => IsCurrent(x)'
  BY <1>2, <1>3 DEF IsCurrent, ForConfig, ForCredential, database
<1>7. ops' = [ops EXCEPT ![o] = x]
  BY <1>1, <1>2 DEF Awaits
<1> QED BY <1>2, <1>4, <1>5, <1>6, <1>7, OnlyWaits DEF DataTypes

LEMMA DerivedOp ==
  ASSUME VaultInv, NEW o \in Op, NEW kind, Derived(o, kind)
  PROVE  /\ ops[o] \in OpState /\ ops[o].at = "derive" /\ ops[o].kind = kind /\ kind # "idle"
         /\ up /\ up' = up /\ WaitsFor(ops[o]) /\ (~raced => IsCurrent(ops[o]))
         /\ ops[o].snap \in WellConfigured /\ ops[o].snap.vault \in drawn
         /\ ops[o].snap.vault \in Vault /\ ops[o].snap.policy \in Policy
<1>1. ops[o] \in OpState /\ WaitsFor(ops[o]) /\ DataTypes /\ (~raced => IsCurrent(ops[o]))
  BY DEF VaultInv, VaultSound
<1>2. ops[o].at = "derive" /\ ops[o].kind = kind /\ up' = up
  BY DEF Derived, IsAt
<1>3. kind # "idle" /\ ops[o].snap \in WellConfigured
  BY <1>1, <1>2 DEF OpState
<1>4. up /\ ops[o].snap.vault \in drawn /\ ops[o].snap.vault \in Vault
  BY <1>1, <1>2, <1>3 DEF WaitsFor, DataTypes
<1>5. ops[o].snap.policy \in Policy
  BY <1>3, <1>4, VaultAssumption DEF WellConfigured
<1> QED BY <1>1, <1>2, <1>3, <1>4, <1>5

LEMMA WaitingKeeps ==
  ASSUME VaultInv, Races, NEW o \in Op, WrongPassword(o) \/ StoresKey(o) \/ Rederives(o)
  PROVE  VaultInv'
<1>1. CASE WrongPassword(o)
  BY <1>1, NothingKeeps DEF WrongPassword, Throws, IsAt
<1>2. CASE StoresKey(o)
  <2>1. PICK kind \in {"repair", "policy"} :
          Derived(o, kind) /\ (kind = "policy" => ops[o].arg = "never")
    BY <1>2 DEF StoresKey
  <2>2. ops[o] \in OpState /\ ops[o].at = "derive" /\ ops[o].kind = kind /\ up' = up
    BY <2>1, DerivedOp
  <2>3. "set" \in AwaitName
    BY DEF AwaitName
  <2>4. [ops[o] EXCEPT !.at = "set"] \in OpState
    BY <2>1, <2>2, <2>3 DEF OpState
  <2>5. Awaits(o, "set") /\ UNCHANGED <<database, osKeys, key, up, access, drawn>>
    BY <1>2, <2>2 DEF StoresKey
  <2> QED BY <2>2, <2>3, <2>4, <2>5, AwaitKeeps
<1>3. CASE Rederives(o)
  <2>2. ops[o] \in OpState /\ ops[o].at = "derive" /\ ops[o].kind = "password" /\ up' = up
    BY <1>3, DerivedOp DEF Rederives
  <2>3. "derive next" \in AwaitName
    BY DEF AwaitName
  <2>4. [ops[o] EXCEPT !.at = "derive next"] \in OpState
    BY <2>2, <2>3 DEF OpState
  <2>5. Awaits(o, "derive next") /\ UNCHANGED <<database, osKeys, key, up, access, drawn>>
    BY <1>3, <2>2 DEF Rederives
  <2> QED BY <2>2, <2>3, <2>4, <2>5, AwaitKeeps
<1> QED BY <1>1, <1>2, <1>3

LEMMA FlyingOp ==
  ASSUME VaultInv, NEW o \in Op, ops[o].at # "idle"
  PROVE  /\ ops[o] \in OpState /\ ops[o].kind # "idle" /\ up
         /\ ops[o].snap \in WellConfigured /\ ops[o].snap.vault \in drawn
         /\ ops[o].snap.vault \in Vault /\ ops[o].snap.policy \in Policy
         /\ ops[o].kind \in ForCredential => ops[o].cred \in Credential /\ RoomFor(ops[o].cred)
         /\ ~raced => VaultSound /\ IsCurrent(ops[o])
<1>1. /\ ops[o] \in OpState /\ WaitsFor(ops[o]) /\ DataTypes
      /\ ~raced => VaultSound /\ IsCurrent(ops[o])
  BY DEF VaultInv, VaultSound
<1>2. ops[o].kind # "idle" /\ ops[o].snap \in WellConfigured
  BY <1>1 DEF OpState
<1>3. up /\ ops[o].snap.vault \in drawn /\ ops[o].snap.vault \in Vault
  BY <1>1, <1>2 DEF WaitsFor, DataTypes
<1>4. ops[o].snap.policy \in Policy
  BY <1>2, <1>3, VaultAssumption DEF WellConfigured
<1>5. ops[o].kind \in ForCredential => ops[o].cred \in Credential /\ RoomFor(ops[o].cred)
  BY <1>1, <1>2 DEF WaitsFor, OpState
<1> QED BY <1>1, <1>2, <1>3, <1>4, <1>5

\* An operation that ends, whatever it changed.
LEMMA EndsWith ==
  ASSUME VaultInv, Races, NEW o \in Op, Ends(o), UNCHANGED <<up, drawn>>, RowsStay, DataTypes',
         ~raced' => /\ KeyIsCurrent' /\ SealsOpen' /\ SavedInVault' /\ AccessFollows'
  PROVE  VaultInv'
<1>1. ops' = [ops EXCEPT ![o] = NoOp]
  BY DEF Ends
<1>2. NoOp \in OpState /\ WaitsFor(NoOp)' /\ IsCurrent(NoOp)'
  BY IdleOp DEF WaitsFor, IsCurrent, NoOp
<1> QED BY <1>1, <1>2, OneOpSteps

LEMMA RowsRest == UNCHANGED saved => RowsStay
BY DEF RowsStay, RoomFor, IsSaved

LEMMA SealsRest ==
  ASSUME SealsOpen, SavedInVault, UNCHANGED saved, config'.vault = config.vault
  PROVE  SealsOpen' /\ SavedInVault'
BY DEF SealsOpen, SavedInVault, IsSaved, Configured

LEMMA SealsNew ==
  ASSUME DataTypes, SealsOpen, SavedInVault, NEW c \in Credential, RoomFor(c), Configured,
         NEW b \in 0 .. MaxRows, b # 0 => b = saved[c].row,
         config'.vault = config.vault, saved' = Upserted(c, config.vault, b)
  PROVE  SealsOpen' /\ SavedInVault'
<1>1. config.vault \in drawn /\ config.vault # NoVault
  BY DEF Configured, DataTypes
<1>2. /\ saved'[c].row # 0 /\ saved'[c].key = config.vault
      /\ IsSaved(c) => saved'[c].row = saved[c].row
      /\ b \in {0, saved'[c].row} => saved'[c].bound = saved'[c].row
      /\ \A d \in Credential \ {c} : saved'[d] = saved[d]
  BY <1>1, InsertsRow
<1>3. b \in {0, saved'[c].row}
  BY <1>2 DEF IsSaved
<1> QED BY <1>1, <1>2, <1>3 DEF SealsOpen, SavedInVault, IsSaved, Configured

LEMMA AccessRests ==
  ASSUME AccessFollows, UNCHANGED <<osKeys, cleanup, access>>,
         config'.vault = config.vault, config'.policy = config.policy
  PROVE  AccessFollows'
BY DEF AccessFollows, Automatically

LEMMA NowRaced == VaultInv /\ Races => raced' \in BOOLEAN /\ (~raced' => ~raced)
BY DEF VaultInv, DataTypes, Races

LEMMA UnlockedKeeps == ASSUME VaultInv, Races, NEW o \in Op, Unlocked(o) PROVE VaultInv'
<1>1. /\ ops[o] \in OpState /\ ops[o].kind = "unlock" /\ ops[o].at = "derive" /\ up' = up
      /\ Ends(o) /\ key' = ops[o].snap.vault
      /\ UNCHANGED <<config, saved, cleanup, osKeys, drawn, access>>
  BY DerivedOp DEF Unlocked, Snap, database
<1>2. /\ ops[o].snap.vault \in drawn /\ up
      /\ ~raced => VaultSound /\ IsCurrent(ops[o])
  BY <1>1, FlyingOp
<1>3. DataTypes /\ raced' \in BOOLEAN /\ (~raced' => ~raced)
  BY NowRaced DEF VaultInv
<1>4. DataTypes'
  BY <1>1, <1>2, <1>3 DEF DataTypes
<1>5. RowsStay
  BY <1>1, RowsRest
<1>6. ASSUME ~raced'
      PROVE  KeyIsCurrent' /\ SealsOpen' /\ SavedInVault' /\ AccessFollows'
  <2>1. VaultSound /\ config = ops[o].snap /\ ops[o].snap.policy = "startup"
    BY <1>1, <1>2, <1>3, <1>6 DEF IsCurrent, ForConfig, OpState
  <2>2. KeyIsCurrent'
    BY <1>1, <2>1 DEF KeyIsCurrent
  <2> QED BY <1>1, <2>1, <2>2, SealsRest, AccessRests DEF VaultSound
<1> QED BY <1>1, <1>4, <1>5, <1>6, EndsWith

LEMMA EditedKeeps == ASSUME VaultInv, Races, NEW o \in Op, Edited(o) PROVE VaultInv'
<1>1. /\ ops[o] \in OpState /\ ops[o].kind \in {"edit", "add"} /\ ops[o].at = "derive"
      /\ up' = up /\ Ends(o) /\ saved' = Upserted(ops[o].cred, ops[o].snap.vault, ops[o].row)
      /\ UNCHANGED <<config, cleanup, osKeys, key, drawn, access>>
  BY DerivedOp DEF Edited, Snap
<1>2. /\ ops[o].snap.vault \in drawn /\ up
      /\ ops[o].cred \in Credential /\ RoomFor(ops[o].cred)
      /\ ~raced => VaultSound /\ IsCurrent(ops[o])
  BY <1>1, FlyingOp DEF ForCredential
<1>3. DataTypes /\ raced' \in BOOLEAN /\ (~raced' => ~raced)
  BY NowRaced DEF VaultInv
<1>4. ops[o].row \in 0 .. MaxRows /\ (ops[o].row # 0 <=> ops[o].kind = "edit")
  BY <1>1 DEF OpState
<1>5. saved' \in [Credential -> SavedRow] /\ RowsStay
  BY <1>1, <1>2, <1>3, <1>4, InsertsRow
<1>6. DataTypes'
  BY <1>1, <1>2, <1>3, <1>5 DEF DataTypes
<1>7. ASSUME ~raced'
      PROVE  KeyIsCurrent' /\ SealsOpen' /\ SavedInVault' /\ AccessFollows'
  <2>1. /\ VaultSound /\ config.vault = ops[o].snap.vault /\ Configured
        /\ ops[o].row # 0 => ops[o].row = saved[ops[o].cred].row
    <3>1. VaultSound /\ config.vault = ops[o].snap.vault
      BY <1>1, <1>2, <1>3, <1>7 DEF IsCurrent, ForConfig, ForCredential
    <3>2. Configured
      BY <1>2, <1>3, <3>1, VaultAssumption DEF Configured, DataTypes
    <3> QED BY <1>2, <1>3, <1>4, <1>7, <3>1, <3>2 DEF IsCurrent
  <2>2. SealsOpen' /\ SavedInVault'
    BY <1>1, <1>2, <1>3, <1>4, <2>1, SealsNew DEF VaultSound
  <2>3. KeyIsCurrent'
    BY <1>1, <2>1, IdleOp, KeyStays DEF Ends, VaultSound
  <2> QED BY <1>1, <2>1, <2>2, <2>3, AccessRests DEF VaultSound
<1> QED BY <1>1, <1>5, <1>6, <1>7, EndsWith

LEMMA ImmediateKeeps ==
  ASSUME VaultInv, Races, key # NoVault, up, UNCHANGED up, NEW c \in Credential, RoomFor(c),
         saved' = Upserted(c, key, 0),
         UNCHANGED <<config, cleanup, osKeys, key, ops, drawn, access>>
  PROVE  VaultInv'
<1>1. DataTypes /\ raced' \in BOOLEAN /\ (~raced' => ~raced) /\ 0 \in 0 .. MaxRows
  BY NowRaced, VaultAssumption DEF VaultInv
<1>2. key \in drawn
  BY <1>1 DEF DataTypes
<1>3. saved' \in [Credential -> SavedRow] /\ RowsStay
  BY <1>1, <1>2, InsertsRow
<1>4. DataTypes'
  BY <1>1, <1>3 DEF DataTypes
<1>5. /\ \A o \in Op : WaitsFor(ops[o])'
      /\ ~raced' => \A o \in Op : IsCurrent(ops[o])'
  <2>1. SUFFICES ASSUME NEW o \in Op
                 PROVE  WaitsFor(ops[o])' /\ (~raced' => IsCurrent(ops[o])')
    OBVIOUS
  <2>2. ops \in [Op -> OpState] /\ ops' = [ops EXCEPT ![o] = ops[o]]
    BY DEF VaultInv
  <2>3. WaitsFor(ops[o]) /\ (~raced => IsCurrent(ops[o]))
    BY DEF VaultInv, VaultSound
  <2>4. WaitsFor(ops[o])'
    <3>1. ops[o].kind \in ForCredential => ops[o].cred \in Credential
      BY <2>2 DEF OpState
    <3> QED BY <1>3, <2>3, <3>1 DEF WaitsFor, RowsStay
  <2>5. ~raced' /\ ops[o].kind = "edit" => saved'[ops[o].cred].row = ops[o].row
    <3>1. SUFFICES ASSUME ~raced', ops[o].kind = "edit"
                   PROVE  saved'[ops[o].cred].row = ops[o].row
      OBVIOUS
    <3>2. ops[o].cred \in Credential /\ ops[o].row # 0 /\ saved[ops[o].cred].row = ops[o].row
      BY <1>1, <2>2, <2>3, <3>1 DEF OpState, ForCredential, IsCurrent
    <3>3. /\ IsSaved(c) => saved'[c].row = saved[c].row
          /\ \A d \in Credential \ {c} : saved'[d] = saved[d]
      BY <1>1, <1>2, InsertsRow
    <3> QED BY <3>2, <3>3 DEF IsSaved
  <2> QED BY <1>1, <2>3, <2>4, <2>5 DEF IsCurrent
<1>6. ASSUME ~raced'
      PROVE  KeyIsCurrent' /\ SealsOpen' /\ SavedInVault' /\ AccessFollows'
  <2>1. VaultSound /\ key = config.vault /\ Configured
    BY <1>1, <1>6 DEF VaultInv, VaultSound, KeyIsCurrent, Configured
  <2>2. SealsOpen' /\ SavedInVault'
    BY <1>1, <2>1, SealsNew DEF VaultSound
  <2>3. KeyIsCurrent'
    BY <2>1 DEF VaultSound, KeyIsCurrent, IsAt
  <2> QED BY <2>1, <2>2, <2>3, AccessRests DEF VaultSound
<1> QED BY <1>4, <1>5, <1>6 DEF VaultInv, VaultSound

LEMMA UseKeeps == ASSUME VaultInv, Races, UNCHANGED up, NEW o \in Op, Use(o) PROVE VaultInv'
<1>1. up /\ ~InFlight(o) /\ Configured
  BY DEF Use, Free
<1>2. PICK c \in Credential :
        \/ /\ key # NoVault /\ RoomFor(c)
           /\ saved' = Upserted(c, key, 0)
           /\ UNCHANGED <<config, cleanup, osKeys, key, up, ops, drawn, access>>
        \/ /\ key = NoVault
           /\ \E p \in Password :
                \/ IsSaved(c) /\ Begins(o, "use", p, "none", c)
                \/ RoomFor(c) /\ Begins(o, "remember", p, "none", c)
  BY DEF Use
<1>3. CASE \E p \in Password : \/ IsSaved(c) /\ Begins(o, "use", p, "none", c)
                               \/ RoomFor(c) /\ Begins(o, "remember", p, "none", c)
  <2>1. PICK p \in Password, kind \in {"use", "remember"} :
          RoomFor(c) /\ Begins(o, kind, p, "none", c)
    BY <1>3 DEF RoomFor
  <2>2. kind \in ForCredential /\ ForCredential \subseteq ForConfig
    BY DEF ForConfig, ForCredential
  <2> QED BY <1>1, <2>1, <2>2, BeginKeeps
<1> QED BY <1>1, <1>2, <1>3, ImmediateKeeps

LEMMA ForgetKeeps ==
  ASSUME VaultInv, Races, UNCHANGED up, NEW c \in Credential, ForgetCredential(c)
  PROVE  VaultInv'
<1> DEFINE r == [saved[c] EXCEPT !.row = 0, !.key = NoVault, !.bound = 0]
<1>1. /\ up /\ IsSaved(c) /\ saved[c].last < MaxRows /\ saved' = [saved EXCEPT ![c] = r]
      /\ UNCHANGED <<config, cleanup, osKeys, key, ops, drawn, access>>
  BY DEF ForgetCredential, WithoutRow
<1>2. DataTypes /\ raced' \in BOOLEAN /\ (~raced' => ~raced)
  BY NowRaced DEF VaultInv
<1>3. r \in SavedRow /\ r.row = 0 /\ r.last = saved[c].last
  <2>1. saved[c] \in SavedRow /\ 0 \in 0 .. MaxRows
    BY <1>2, VaultAssumption DEF DataTypes
  <2> QED BY <2>1 DEF SavedRow
<1> HIDE DEF r
<1>4. /\ saved' \in [Credential -> SavedRow] /\ saved'[c] = r
      /\ \A d \in Credential \ {c} : saved'[d] = saved[d]
  BY <1>1, <1>2, <1>3 DEF DataTypes
<1>5. DataTypes'
  BY <1>1, <1>2, <1>4 DEF DataTypes
<1>6. \A d \in Credential : RoomFor(d) => RoomFor(d)'
  BY <1>1, <1>3, <1>4 DEF RoomFor, IsSaved
<1>7. ASSUME NEW o \in Op
      PROVE  WaitsFor(ops[o])' /\ (~raced' => IsCurrent(ops[o])')
  <2>1. ops[o] \in OpState /\ WaitsFor(ops[o]) /\ (~raced => IsCurrent(ops[o]))
    BY DEF VaultInv, VaultSound
  <2>2. ops[o].kind \in ForCredential => ops[o].cred \in Credential
    BY <2>1 DEF OpState
  <2>3. WaitsFor(ops[o])'
    BY <1>1, <1>6, <2>1, <2>2 DEF WaitsFor
  <2>4. ops[o].kind # "idle" => raced'
    <3>1. IsSaved(c) /\ saved'[c].row = 0
      BY <1>1, <1>3, <1>4
    <3> QED BY <1>1, <3>1 DEF Races, Overlaps, InFlight
  <2>5. ~raced' => IsCurrent(ops[o])'
    BY <1>1, <2>4 DEF IsCurrent
  <2> QED BY <2>3, <2>5
<1>8. ASSUME ~raced'
      PROVE  KeyIsCurrent' /\ SealsOpen' /\ SavedInVault' /\ AccessFollows'
  <2>1. VaultSound
    BY <1>2, <1>8 DEF VaultInv
  <2>2. SealsOpen' /\ SavedInVault'
    BY <1>1, <1>3, <1>4, <2>1 DEF VaultSound, SealsOpen, SavedInVault, IsSaved, Configured
  <2>3. KeyIsCurrent'
    BY <1>1, <2>1 DEF VaultSound, KeyIsCurrent, IsAt
  <2> QED BY <1>1, <2>1, <2>2, <2>3, AccessRests DEF VaultSound
<1> QED BY <1>1, <1>5, <1>7, <1>8 DEF VaultInv, VaultSound

\* A change of the configuration that keeps its vault and whether access is automatic.
LEMMA SealedAndFollowed ==
  ASSUME VaultSound, UNCHANGED <<saved, osKeys, cleanup, access>>, config'.vault = config.vault,
         config'.policy = config.policy
  PROVE  SealsOpen' /\ SavedInVault' /\ AccessFollows'
BY SealsRest, AccessRests DEF VaultSound

\* What an operation leaves in memory when it ends with the key it unwrapped.
LEMMA KeyUnwrappedIsCurrent ==
  ASSUME VaultInv, Races, NEW o \in Op, Ends(o), ops[o].at # "delete", VaultSound,
         NEW k \in WellConfigured, k.vault = config.vault, k.policy = config.policy,
         config'.vault = config.vault, config'.policy = config.policy,
         key' = IF k.policy = "credential" THEN key ELSE k.vault
  PROVE  KeyIsCurrent'
<1>1. CASE k.policy # "credential"
  BY <1>1 DEF KeyIsCurrent
<1>2. CASE k.policy = "credential"
  <2>1. ops \in [Op -> OpState] /\ ops' = [ops EXCEPT ![o] = NoOp]
    BY DEF VaultInv, Ends
  <2>2. \A p \in Op : IsAt(p, "delete") => IsAt(p, "delete")'
    BY <2>1 DEF IsAt
  <2> QED BY <1>2, <2>2 DEF VaultSound, KeyIsCurrent
<1> QED BY <1>1, <1>2

LEMMA UsesKeep ==
  ASSUME VaultInv, Races, NEW o \in Op, ops[o].at \in {"derive", "set"},
         ops[o].kind \in {"use", "remember"}, Uses(o),
         UNCHANGED <<config, cleanup, up, drawn>>, osKeys' \in SUBSET drawn,
         access' \in [Vault -> {"none", "wanted", "left"}],
         key' = IF Snap(o).policy = "credential" THEN key ELSE Snap(o).vault,
         ~raced' => AccessFollows'
  PROVE  VaultInv'
<1>1. /\ ops[o] \in OpState /\ up /\ ops[o].snap.vault \in drawn /\ ops[o].snap \in WellConfigured
      /\ ops[o].cred \in Credential /\ RoomFor(ops[o].cred)
      /\ ~raced => VaultSound /\ IsCurrent(ops[o])
  BY FlyingOp DEF ForCredential
<1>2. DataTypes /\ raced' \in BOOLEAN /\ (~raced' => ~raced) /\ 0 \in 0 .. MaxRows
  BY NowRaced, VaultAssumption DEF VaultInv
<1>3. \/ saved' = saved
      \/ saved' = Upserted(ops[o].cred, ops[o].snap.vault, 0)
  BY DEF Uses, Snap
<1>4. saved' \in [Credential -> SavedRow] /\ RowsStay
  <2>1. CASE saved' = saved
    BY <1>2, <2>1, RowsRest DEF DataTypes
  <2>2. CASE saved' = Upserted(ops[o].cred, ops[o].snap.vault, 0)
    BY <1>1, <1>2, <2>2, InsertsRow
  <2> QED BY <1>3, <2>1, <2>2
<1>5. DataTypes'
  BY <1>1, <1>2, <1>4 DEF DataTypes, Snap
<1>6. ASSUME ~raced'
      PROVE  KeyIsCurrent' /\ SealsOpen' /\ SavedInVault'
  <2>1. VaultSound /\ config = ops[o].snap /\ Configured
    <3>1. VaultSound /\ config = ops[o].snap
      BY <1>1, <1>2, <1>6 DEF IsCurrent, ForConfig, ForCredential
    <3>2. Configured
      BY <1>1, <1>2, <3>1, VaultAssumption DEF Configured, DataTypes
    <3> QED BY <3>1, <3>2
  <2>2. SealsOpen' /\ SavedInVault'
    <3>1. CASE saved' = saved
      BY <2>1, <3>1, SealsRest DEF VaultSound
    <3>2. CASE saved' = Upserted(ops[o].cred, ops[o].snap.vault, 0)
      BY <1>1, <1>2, <2>1, <3>2, SealsNew DEF VaultSound
    <3> QED BY <1>3, <3>1, <3>2
  <2>3. KeyIsCurrent'
    BY <1>1, <2>1, KeyUnwrappedIsCurrent DEF Uses, Snap
  <2> QED BY <2>2, <2>3
<1> QED BY <1>4, <1>5, <1>6, EndsWith DEF Uses

LEMMA UnwrappedKeeps == ASSUME VaultInv, Races, NEW o \in Op, KeyUnwrapped(o) PROVE VaultInv'
<1>1. /\ ops[o] \in OpState /\ ops[o].kind \in {"use", "remember"} /\ ops[o].at = "derive"
      /\ up' = up /\ UNCHANGED <<config, cleanup, osKeys, drawn, access>>
      /\ IF ops[o].snap.policy = "never" THEN Awaits(o, "set") /\ UNCHANGED <<saved, key>>
         ELSE /\ Uses(o)
              /\ key' = IF ops[o].snap.policy = "credential" THEN key ELSE ops[o].snap.vault
  BY DerivedOp DEF KeyUnwrapped, Snap
<1>2. CASE ops[o].snap.policy = "never"
  <2>1. "set" \in AwaitName
    BY DEF AwaitName
  <2>2. [ops[o] EXCEPT !.at = "set"] \in OpState
    BY <1>1, <1>2, <2>1 DEF OpState
  <2> QED BY <1>1, <1>2, <2>2, AwaitKeeps DEF database
<1>3. CASE ops[o].snap.policy # "never"
  <2>1. DataTypes /\ (~raced' => ~raced)
    BY NowRaced DEF VaultInv
  <2>2. ~raced' => AccessFollows'
    BY <1>1, <2>1, AccessRests DEF VaultInv, VaultSound
  <2>3. osKeys' \in SUBSET drawn /\ access' \in [Vault -> {"none", "wanted", "left"}]
    BY <1>1, <2>1 DEF DataTypes
  <2> QED BY <1>1, <1>3, <2>2, <2>3, UsesKeep DEF Snap
<1> QED BY <1>2, <1>3

LEMMA InsertsKeep ==
  ASSUME VaultInv, Races, NEW o \in Op, ops[o].at \in {"derive", "set"}, ops[o].kind = "create",
         Inserts(o), UNCHANGED <<saved, cleanup, up, drawn>>, osKeys' \in SUBSET drawn,
         access' \in [Vault -> {"none", "wanted", "left"}], ~raced' => AccessFollows'
  PROVE  VaultInv'
<1>1. /\ ops[o] \in OpState /\ up /\ ops[o].snap.vault \in drawn /\ ops[o].snap \in WellConfigured
      /\ ~raced => VaultSound
  BY FlyingOp
<1>2. DataTypes /\ raced' \in BOOLEAN /\ (~raced' => ~raced)
  BY NowRaced DEF VaultInv
<1>3. /\ ~Configured /\ config' = ops[o].snap /\ Ends(o)
      /\ key' = IF ops[o].snap.policy = "credential" THEN key ELSE ops[o].snap.vault
  BY DEF Inserts, Snap
<1>4. DataTypes' /\ RowsStay
  BY <1>1, <1>2, <1>3, RowsRest DEF DataTypes
<1>5. ASSUME ~raced'
      PROVE  KeyIsCurrent' /\ SealsOpen' /\ SavedInVault'
  <2>1. VaultSound /\ key = NoVault
    BY <1>1, <1>2, <1>3, <1>5 DEF VaultSound, KeyIsCurrent, Configured
  <2>2. \A c \in Credential : ~IsSaved(c)'
    BY <1>3, <2>1 DEF VaultSound, SavedInVault, IsSaved
  <2>3. KeyIsCurrent'
    BY <1>3, <2>1 DEF KeyIsCurrent
  <2> QED BY <2>2, <2>3 DEF SealsOpen, SavedInVault
<1> QED BY <1>3, <1>4, <1>5, EndsWith

LEMMA CreatedKeeps == ASSUME VaultInv, Races, NEW o \in Op, Created(o) PROVE VaultInv'
<1>1. /\ ops[o] \in OpState /\ ops[o].kind = "create" /\ ops[o].at = "derive" /\ up' = up
      /\ UNCHANGED <<saved, cleanup, osKeys, drawn, access>>
      /\ \/ ops[o].snap.policy = "never" /\ Awaits(o, "set") /\ UNCHANGED <<config, key>>
         \/ ops[o].snap.policy # "never" /\ Inserts(o)
         \/ Ends(o) /\ UNCHANGED <<config, key>>
  BY DerivedOp DEF Created, Snap
<1>2. DataTypes /\ raced' \in BOOLEAN /\ (~raced' => ~raced)
  BY NowRaced DEF VaultInv
<1>3. CASE ops[o].snap.policy = "never" /\ Awaits(o, "set") /\ UNCHANGED <<config, key>>
  <2>1. "set" \in AwaitName
    BY DEF AwaitName
  <2>2. [ops[o] EXCEPT !.at = "set"] \in OpState
    BY <1>1, <1>3, <2>1 DEF OpState
  <2> QED BY <1>1, <1>3, <2>2, AwaitKeeps DEF database
<1>4. CASE ops[o].snap.policy # "never" /\ Inserts(o)
  <2>1. ~raced' => AccessFollows'
    <3>1. SUFFICES ASSUME ~raced' PROVE AccessFollows'
      OBVIOUS
    <3>2. AccessFollows
      BY <1>2, <3>1 DEF VaultInv, VaultSound
    <3>3. \A v \in Vault : ~Automatically(v) /\ ~Automatically(v)'
      BY <1>2, <1>4, VaultAssumption DEF Inserts, Snap, Automatically, Configured
    <3> QED BY <1>1, <3>2, <3>3 DEF AccessFollows
  <2>2. osKeys' \in SUBSET drawn /\ access' \in [Vault -> {"none", "wanted", "left"}]
    BY <1>1, <1>2 DEF DataTypes
  <2> QED BY <1>1, <1>4, <2>1, <2>2, InsertsKeep
<1>5. CASE Ends(o) /\ UNCHANGED <<config, key>>
  BY <1>1, <1>5, NothingKeeps DEF database
<1> QED BY <1>1, <1>3, <1>4, <1>5

LEMMA RewrappedKeeps == ASSUME VaultInv, Races, NEW o \in Op, Rewrapped(o) PROVE VaultInv'
<1> DEFINE next == [ops[o].snap EXCEPT !.password = ops[o].arg]
<1>1. /\ ops[o].at = "derive next" /\ up' = up
      /\ UNCHANGED <<saved, cleanup, osKeys, drawn, access>>
      /\ \/ /\ config' = next
            /\ \/ ops[o].snap.policy = "never" /\ Awaits(o, "set") /\ UNCHANGED key
               \/ /\ Ends(o)
                  /\ key' = IF ops[o].snap.policy = "credential" THEN key ELSE ops[o].snap.vault
         \/ Ends(o) /\ UNCHANGED <<config, key>>
  BY DEF Rewrapped, IsAt, Snap, Rewrites
<1>2. /\ ops[o] \in OpState /\ up /\ ops[o].snap.vault \in drawn /\ ops[o].snap \in WellConfigured
      /\ ops[o].snap.vault \in Vault
      /\ ~raced => VaultSound /\ IsCurrent(ops[o])
  BY <1>1, FlyingOp
<1>3. DataTypes /\ raced' \in BOOLEAN /\ (~raced' => ~raced)
  BY NowRaced DEF VaultInv
<1>4. ops[o].kind = "password" /\ ops[o].arg \in Password
  BY <1>1, <1>2 DEF OpState
<1>5. /\ next \in WellConfigured /\ next.vault = ops[o].snap.vault
      /\ next.policy = ops[o].snap.policy
  BY <1>2, <1>4, VaultAssumption DEF WellConfigured, Config
<1> HIDE DEF next
<1>6. CASE Ends(o) /\ UNCHANGED <<config, key>>
  BY <1>1, <1>6, NothingKeeps DEF database
<1>7. ASSUME config' = next
      PROVE  /\ config' \in WellConfigured /\ config'.vault \in drawn' \union {NoVault}
             /\ RowsStay
             /\ ~raced' => /\ VaultSound /\ config = ops[o].snap
                           /\ config'.vault = config.vault /\ config'.policy = config.policy
                           /\ SealsOpen' /\ SavedInVault' /\ AccessFollows'
  <2>1. ASSUME ~raced'
        PROVE  /\ VaultSound /\ config = ops[o].snap
               /\ config'.vault = config.vault /\ config'.policy = config.policy
    <3>1. VaultSound /\ config = ops[o].snap
      BY <1>1, <1>2, <1>3, <1>4, <2>1 DEF IsCurrent, ForConfig
    <3> QED BY <1>5, <1>7, <3>1
  <2>2. ~raced' => SealsOpen' /\ SavedInVault' /\ AccessFollows'
    BY <1>1, <2>1, SealedAndFollowed
  <2> QED BY <1>1, <1>2, <1>5, <1>7, <2>1, <2>2, RowsRest
<1>8. CASE config' = next /\ ops[o].snap.policy = "never" /\ Awaits(o, "set") /\ UNCHANGED key
  <2>1. DataTypes'
    BY <1>1, <1>3, <1>7, <1>8 DEF DataTypes
  <2>2. PICK x : x = [ops[o] EXCEPT !.at = "set"]
    OBVIOUS
  <2>3. x \in OpState /\ x.at = "set" /\ x.kind = "password" /\ x.snap = ops[o].snap
    <3>1. "set" \in AwaitName
      BY DEF AwaitName
    <3> QED BY <1>1, <1>2, <1>4, <1>8, <2>2, <3>1 DEF OpState
  <2>4. ops' = [ops EXCEPT ![o] = x]
    BY <1>8, <2>2 DEF Awaits, VaultInv
  <2>5. WaitsFor(x)'
    BY <1>1, <1>2, <2>3 DEF WaitsFor, ForCredential
  <2>6. ~raced' => IsCurrent(x)'
    BY <1>5, <1>7, <1>8, <2>3 DEF IsCurrent, ForConfig, ForCredential
  <2>7. ~raced' => KeyIsCurrent'
    BY <1>1, <1>7, <1>8, <2>3, <2>4, KeyStays DEF VaultSound
  <2> QED BY <1>1, <1>7, <1>8, <2>1, <2>3, <2>4, <2>5, <2>6, <2>7, OneOpSteps
<1>9. CASE /\ config' = next /\ Ends(o)
           /\ key' = IF ops[o].snap.policy = "credential" THEN key ELSE ops[o].snap.vault
  <2>1. DataTypes'
    BY <1>1, <1>2, <1>3, <1>7, <1>9 DEF DataTypes
  <2>2. ~raced' => KeyIsCurrent'
    BY <1>1, <1>2, <1>7, <1>9, KeyUnwrappedIsCurrent
  <2> QED BY <1>1, <1>7, <1>9, <2>1, <2>2, EndsWith
<1> QED BY <1>1, <1>6, <1>8, <1>9

LEMMA LeavesNeverKeeps == ASSUME VaultInv, Races, NEW o \in Op, LeavesNever(o) PROVE VaultInv'
<1> DEFINE next == [ops[o].snap EXCEPT !.policy = ops[o].arg]
           v == ops[o].snap.vault
<1>1. /\ ops[o] \in OpState /\ ops[o].kind = "policy" /\ ops[o].at = "derive" /\ up' = up
      /\ ops[o].arg # "never" /\ UNCHANGED <<saved, osKeys, drawn>>
      /\ cleanup' = IF ops[o].snap.policy = "never" THEN cleanup \union {v} ELSE cleanup
      /\ \/ /\ config' = next
            /\ \/ /\ ops[o].snap.policy = "never" /\ Awaits(o, "delete") /\ UNCHANGED key
                  /\ access' = [access EXCEPT ![v] = "left"]
               \/ /\ ops[o].snap.policy # "never" /\ Ends(o) /\ UNCHANGED access
                  /\ key' = IF ops[o].arg = "startup" THEN v ELSE NoVault
         \/ ~Configured /\ Ends(o) /\ UNCHANGED <<config, key, access>>
  BY DerivedOp DEF LeavesNever, Snap, Rewrites, QueuedKeys, KeyUnder, Reaches
<1>2. /\ up /\ v \in drawn /\ ops[o].snap \in WellConfigured /\ v \in Vault /\ v # NoVault
      /\ ~raced => VaultSound /\ IsCurrent(ops[o])
  BY <1>1, FlyingOp, VaultAssumption
<1>3. DataTypes /\ raced' \in BOOLEAN /\ (~raced' => ~raced)
  BY NowRaced DEF VaultInv
<1>4. ops[o].arg \in Policy
  BY <1>1 DEF OpState
<1>5. next \in WellConfigured /\ next.vault = v /\ next.policy = ops[o].arg
  BY <1>2, <1>4 DEF WellConfigured, Config
<1>6. cleanup' \subseteq drawn' /\ RowsStay
  BY <1>1, <1>2, <1>3, RowsRest DEF DataTypes
<1>7. ~raced => config = ops[o].snap /\ VaultSound /\ Configured
  <2>1. ~raced => config = ops[o].snap /\ VaultSound
    BY <1>1, <1>2 DEF IsCurrent, ForConfig
  <2> QED BY <1>2, <2>1 DEF Configured
<1> HIDE DEF next
<1>8. CASE ~Configured /\ Ends(o) /\ UNCHANGED <<config, key, access>>
  <2>1. raced'
    BY <1>3, <1>7, <1>8
  <2>2. DataTypes'
    BY <1>1, <1>3, <1>6, <1>8 DEF DataTypes
  <2> QED BY <1>1, <1>6, <1>8, <2>1, <2>2, EndsWith
<1>9. ASSUME config' = next, ~raced'
      PROVE  SealsOpen' /\ SavedInVault'
  BY <1>1, <1>3, <1>5, <1>7, <1>9, SealsRest DEF VaultSound
<1>10. CASE /\ config' = next /\ ops[o].snap.policy = "never" /\ Awaits(o, "delete")
            /\ UNCHANGED key /\ access' = [access EXCEPT ![v] = "left"]
  <2>1. DataTypes'
    BY <1>1, <1>2, <1>3, <1>5, <1>6, <1>10 DEF DataTypes
  <2>2. PICK x : x = [ops[o] EXCEPT !.at = "delete"]
    OBVIOUS
  <2>3. /\ x \in OpState /\ x.at = "delete" /\ x.kind = "policy" /\ x.snap = ops[o].snap
        /\ x.arg = ops[o].arg
    <3>1. "delete" \in AwaitName
      BY DEF AwaitName
    <3> QED BY <1>1, <2>2, <3>1 DEF OpState
  <2>4. ops' = [ops EXCEPT ![o] = x]
    BY <1>10, <2>2 DEF Awaits
  <2>5. WaitsFor(x)'
    BY <1>1, <1>2, <2>3 DEF WaitsFor, ForCredential
  <2>6. ~raced' => IsCurrent(x)'
    BY <1>5, <1>10, <2>3 DEF IsCurrent, ForConfig, ForCredential
  <2>7. ~raced' => KeyIsCurrent'
    <3>1. ops' \in [Op -> OpState] /\ ops'[o] = x
      BY <2>3, <2>4 DEF VaultInv
    <3>2. IsAt(o, "delete")'
      BY <2>3, <3>1 DEF IsAt
    <3> QED BY <1>3, <1>5, <1>7, <1>10, <3>2 DEF VaultSound, KeyIsCurrent
  <2>8. ~raced' => AccessFollows'
    <3>1. SUFFICES ASSUME ~raced', NEW w \in Vault
                   PROVE  /\ access'[w] = "wanted" => w \in osKeys' /\ Automatically(w)'
                          /\ access'[w] = "left" => /\ w \notin osKeys' \/ w \in cleanup'
                                                    /\ ~Automatically(w)'
      BY DEF AccessFollows
    <3>2. AccessFollows /\ config.vault = v
      BY <1>3, <1>7, <3>1 DEF VaultSound
    <3>3. access'[w] = IF w = v THEN "left" ELSE access[w]
      BY <1>2, <1>3, <1>10 DEF DataTypes
    <3>4. w # v => access[w] # "wanted"
      BY <3>2 DEF AccessFollows, Automatically
    <3>5. ~Automatically(w)' /\ v \in cleanup' /\ cleanup \subseteq cleanup'
      BY <1>1, <1>5, <1>10 DEF Automatically
    <3> QED BY <1>1, <3>2, <3>3, <3>4, <3>5 DEF AccessFollows
  <2> QED BY <1>1, <1>6, <1>9, <1>10, <2>1, <2>3, <2>4, <2>5, <2>6, <2>7, <2>8, OneOpSteps
<1>11. CASE /\ config' = next /\ ops[o].snap.policy # "never" /\ Ends(o) /\ UNCHANGED access
            /\ key' = IF ops[o].arg = "startup" THEN v ELSE NoVault
  <2>1. DataTypes'
    BY <1>1, <1>2, <1>3, <1>5, <1>6, <1>11 DEF DataTypes
  <2>2. ~raced' => KeyIsCurrent'
    BY <1>5, <1>11 DEF KeyIsCurrent
  <2>3. ~raced' => AccessFollows'
    <3>1. SUFFICES ASSUME ~raced' PROVE AccessFollows'
      OBVIOUS
    <3>2. \A w \in Vault : ~Automatically(w) /\ ~Automatically(w)'
      BY <1>1, <1>3, <1>5, <1>7, <1>11, <3>1 DEF Automatically
    <3>3. AccessFollows
      BY <1>3, <1>7, <3>1 DEF VaultSound
    <3> QED BY <1>1, <1>11, <3>2, <3>3 DEF AccessFollows
  <2> QED BY <1>1, <1>6, <1>9, <1>11, <2>1, <2>2, <2>3, EndsWith
<1> QED BY <1>1, <1>8, <1>10, <1>11

LEMMA ResetKeeps == ASSUME VaultInv, Races, UNCHANGED up, NEW o \in Op, Reset(o) PROVE VaultInv'
<1>1. /\ up /\ ops[o].kind = "idle" /\ Configured /\ key' = NoVault /\ config' = NoConfig
      /\ \A c \in Credential : IsSaved(c) => saved[c].last < MaxRows
      /\ saved' = [c \in Credential |-> IF IsSaved(c) THEN WithoutRow(c) ELSE saved[c]]
      /\ IF config.policy = "never"
         THEN /\ cleanup' = cleanup \union {config.vault}
              /\ ops' = [ops EXCEPT ![o] = [NoOp EXCEPT !.kind = "reset", !.at = "delete",
                                                        !.snap = config]]
              /\ access' = [access EXCEPT ![config.vault] = "left"]
         ELSE UNCHANGED <<cleanup, ops, access>>
      /\ UNCHANGED <<osKeys, drawn>>
  BY DEF Reset, Free, InFlight, Reaches
<1>2. DataTypes /\ raced' \in BOOLEAN /\ (~raced' => ~raced)
  BY NowRaced DEF VaultInv
<1>3. config.vault \in drawn /\ config.vault \in Vault /\ config \in WellConfigured
  BY <1>1, <1>2 DEF DataTypes, Configured
<1>4. \A c \in Credential : /\ saved'[c] \in SavedRow /\ saved'[c].row = 0
                            /\ RoomFor(c) => RoomFor(c)'
  <2>1. SUFFICES ASSUME NEW c \in Credential
                 PROVE  /\ saved'[c] \in SavedRow /\ saved'[c].row = 0
                        /\ RoomFor(c) => RoomFor(c)'
    OBVIOUS
  <2>2. saved[c] \in SavedRow /\ 0 \in 0 .. MaxRows
    BY <1>2, VaultAssumption DEF DataTypes
  <2>3. CASE IsSaved(c)
    <3>1. saved'[c] = [saved[c] EXCEPT !.row = 0, !.key = NoVault, !.bound = 0]
      BY <1>1, <2>3 DEF WithoutRow
    <3>2. saved'[c] \in SavedRow /\ saved'[c].row = 0 /\ saved'[c].last = saved[c].last
      BY <2>2, <3>1 DEF SavedRow
    <3> QED BY <1>1, <2>3, <3>2 DEF RoomFor
  <2>4. CASE ~IsSaved(c)
    <3>1. saved'[c] = saved[c]
      BY <1>1, <2>4
    <3> QED BY <2>2, <2>4, <3>1 DEF RoomFor, IsSaved
  <2> QED BY <2>3, <2>4
<1>5. saved' \in [Credential -> SavedRow] /\ RowsStay
  <2>1. RowsStay
    BY <1>4 DEF RowsStay
  <2>2. saved' = [c \in Credential |-> saved'[c]]
    BY <1>1
  <2> QED BY <1>4, <2>1, <2>2
<1>6. NoConfig \in WellConfigured /\ NoConfig.vault = NoVault /\ NoConfig.policy = "none"
  BY IdleOp DEF NoConfig
<1>7. DataTypes'
  BY <1>1, <1>2, <1>3, <1>5, <1>6 DEF DataTypes
<1>8. ~raced' => KeyIsCurrent' /\ SealsOpen' /\ SavedInVault'
  BY <1>1, <1>4, <1>6 DEF KeyIsCurrent, SealsOpen, SavedInVault, IsSaved
<1>9. ~raced' => AccessFollows'
  <2>1. SUFFICES ASSUME ~raced', NEW w \in Vault
                 PROVE  /\ access'[w] = "wanted" => w \in osKeys' /\ Automatically(w)'
                        /\ access'[w] = "left" => /\ w \notin osKeys' \/ w \in cleanup'
                                                  /\ ~Automatically(w)'
    BY DEF AccessFollows
  <2>2. AccessFollows
    BY <1>2, <2>1 DEF VaultInv, VaultSound
  <2>3. ~Automatically(w)'
    BY <1>1, <1>6 DEF Automatically
  <2>4. CASE config.policy = "never"
    <3>1. access'[w] = IF w = config.vault THEN "left" ELSE access[w]
      BY <1>1, <1>2, <1>3, <2>4 DEF DataTypes
    <3>2. w # config.vault => access[w] # "wanted"
      BY <2>2 DEF AccessFollows, Automatically
    <3> QED BY <1>1, <2>2, <2>3, <2>4, <3>1, <3>2 DEF AccessFollows
  <2>5. CASE config.policy # "never"
    BY <1>1, <2>2, <2>3, <2>5 DEF AccessFollows, Automatically
  <2> QED BY <2>4, <2>5
<1>10. CASE config.policy = "never"
  <2>1. PICK s : s = config
    OBVIOUS
  <2>2. PICK x : x = [NoOp EXCEPT !.kind = "reset", !.at = "delete", !.snap = s]
    OBVIOUS
  <2>3. x \in OpState /\ x.kind = "reset" /\ x.at = "delete" /\ x.snap = s
    <3>1. FALSE \in BOOLEAN /\ 0 \in 0 .. MaxRows /\ "reset" \in Kind /\ "delete" \in AwaitName
      BY VaultAssumption DEF Kind, AwaitName
    <3>2. x = [kind |-> "reset", at |-> "delete", snap |-> s, right |-> FALSE, arg |-> "none",
               cred |-> "none", row |-> 0]
      BY <2>2 DEF NoOp
    <3> QED BY <1>3, <2>1, <3>1, <3>2 DEF OpState, ForCredential
  <2>4. ops' = [ops EXCEPT ![o] = x]
    BY <1>1, <1>10, <2>1, <2>2
  <2>5. WaitsFor(x)' /\ IsCurrent(x)'
    BY <1>1, <1>3, <2>1, <2>3 DEF WaitsFor, IsCurrent, ForConfig, ForCredential
  <2> QED BY <1>1, <1>5, <1>7, <1>8, <1>9, <2>3, <2>4, <2>5, OneOpSteps
<1>11. CASE config.policy # "never"
  <2>1. ops \in [Op -> OpState]
    BY DEF VaultInv
  <2>2. PICK x \in OpState : x = ops[o]
    BY <2>1
  <2>3. ops' = [ops EXCEPT ![o] = x] /\ x.kind = "idle"
    BY <1>1, <1>11, <2>1, <2>2
  <2>4. WaitsFor(x)' /\ IsCurrent(x)'
    BY <2>3 DEF WaitsFor, IsCurrent
  <2> QED BY <1>1, <1>5, <1>7, <1>8, <1>9, <2>3, <2>4, OneOpSteps
<1> QED BY <1>10, <1>11

\* changeMasterPassword() and the uses of a saved password end with the key, whether
\* the credential store has taken it or not.
LEMMA BestEffortKeeps ==
  ASSUME VaultInv, Races, NEW o \in Op, ops[o].at = "set", BestEffort(o), Uses(o),
         key' = ops[o].snap.vault, UNCHANGED <<config, cleanup, up, drawn>>,
         osKeys' \in SUBSET drawn, access' \in [Vault -> {"none", "wanted", "left"}],
         ~raced' => AccessFollows'
  PROVE  VaultInv'
<1>1. /\ ops[o] \in OpState /\ up /\ ops[o].snap.vault \in drawn
      /\ ~raced => VaultSound /\ IsCurrent(ops[o])
  BY FlyingOp
<1>2. ops[o].kind \in {"password", "use", "remember"} /\ ops[o].snap.policy = "never"
  BY <1>1 DEF BestEffort, OpState
<1>3. CASE ops[o].kind \in {"use", "remember"}
  BY <1>2, <1>3, UsesKeep DEF Snap
<1>4. CASE ops[o].kind = "password"
  <2>1. saved' = saved /\ Ends(o)
    BY <1>4 DEF Uses
  <2>2. DataTypes /\ raced' \in BOOLEAN /\ (~raced' => ~raced)
    BY NowRaced DEF VaultInv
  <2>3. DataTypes' /\ RowsStay
    BY <1>1, <2>1, <2>2, RowsRest DEF DataTypes
  <2>4. ASSUME ~raced'
        PROVE  KeyIsCurrent' /\ SealsOpen' /\ SavedInVault'
    <3>1. VaultSound /\ config.vault = ops[o].snap.vault /\ config.policy = "never"
      BY <1>1, <1>4, <2>2, <2>4 DEF IsCurrent, ForConfig
    <3>2. KeyIsCurrent'
      BY <3>1 DEF KeyIsCurrent
    <3> QED BY <2>1, <3>1, <3>2, SealsRest DEF VaultSound
  <2> QED BY <2>1, <2>3, <2>4, EndsWith
<1> QED BY <1>2, <1>3, <1>4

LEMMA StoreFailsKeeps == ASSUME VaultInv, Races, NEW o \in Op, StoreFails(o) PROVE VaultInv'
<1>1. /\ ops[o].at = "set" /\ UNCHANGED <<config, cleanup, osKeys, up, drawn, access>>
      /\ IF BestEffort(o) THEN key' = ops[o].snap.vault /\ Uses(o)
                          ELSE UNCHANGED <<saved, key>> /\ Ends(o)
  BY DEF StoreFails, IsAt, Snap
<1>2. DataTypes /\ (~raced' => ~raced)
  BY NowRaced DEF VaultInv
<1>3. CASE BestEffort(o)
  <2>1. ~raced' => AccessFollows'
    BY <1>1, <1>2, AccessRests DEF VaultInv, VaultSound
  <2>2. osKeys' \in SUBSET drawn /\ access' \in [Vault -> {"none", "wanted", "left"}]
    BY <1>1, <1>2 DEF DataTypes
  <2> QED BY <1>1, <1>3, <2>1, <2>2, BestEffortKeeps
<1>4. CASE ~BestEffort(o)
  BY <1>1, <1>4, NothingKeeps DEF database
<1> QED BY <1>3, <1>4

\* A key that arrives in the credential store is wanted there by the vault it opens.
LEMMA StoredIsWanted ==
  ASSUME DataTypes, AccessFollows, NEW v \in Vault, osKeys' = osKeys \union {v},
         cleanup' = cleanup, access' = [access EXCEPT ![v] = "wanted"],
         config'.vault = v, config'.policy = "never", config.vault \in {NoVault, v}
  PROVE  AccessFollows'
<1>1. SUFFICES ASSUME NEW w \in Vault
               PROVE  /\ access'[w] = "wanted" => w \in osKeys' /\ Automatically(w)'
                      /\ access'[w] = "left" => /\ w \notin osKeys' \/ w \in cleanup'
                                                /\ ~Automatically(w)'
  BY DEF AccessFollows
<1>2. access'[w] = IF w = v THEN "wanted" ELSE access[w]
  BY DEF DataTypes
<1>3. w # v => access[w] # "wanted" /\ ~Automatically(w)'
  BY VaultAssumption DEF AccessFollows, Automatically
<1> QED BY <1>2, <1>3 DEF AccessFollows, Automatically

LEMMA KeyStoredKeeps == ASSUME VaultInv, Races, NEW o \in Op, KeyStored(o) PROVE VaultInv'
<1> DEFINE v == ops[o].snap.vault
           next == [ops[o].snap EXCEPT !.policy = "never"]
<1>1. /\ ops[o].at = "set" /\ osKeys' = osKeys \union {v}
      /\ \/ /\ ops[o].kind = "create" /\ Inserts(o)
            /\ UNCHANGED saved
         \/ /\ ops[o].kind \in {"repair", "policy"} /\ Configured
            /\ config' = next /\ key' = v /\ Ends(o)
            /\ UNCHANGED saved
         \/ /\ IF ops[o].kind = "create" THEN Configured ELSE ~BestEffort(o) /\ ~Configured
            /\ Awaits(o, "undo")
            /\ UNCHANGED <<config, saved, key>>
         \/ /\ BestEffort(o) /\ key' = v
            /\ Uses(o) /\ UNCHANGED config
      /\ access' = [access EXCEPT ![v] = IF config'.vault = v /\ config'.policy = "never"
                                         THEN "wanted" ELSE "none"]
      /\ UNCHANGED <<cleanup, up, drawn>>
  BY DEF KeyStored, IsAt, Snap, Rewrites, Reaches
<1>2. /\ ops[o] \in OpState /\ up /\ v \in drawn /\ v \in Vault /\ v # NoVault
      /\ ops[o].snap \in WellConfigured
      /\ ~raced => VaultSound /\ IsCurrent(ops[o])
  BY <1>1, FlyingOp, VaultAssumption
<1>3. DataTypes /\ raced' \in BOOLEAN /\ (~raced' => ~raced)
  BY NowRaced DEF VaultInv
<1>4. osKeys' \in SUBSET drawn /\ access' \in [Vault -> {"none", "wanted", "left"}]
  BY <1>1, <1>2, <1>3 DEF DataTypes
<1>5. /\ ops[o].kind \in {"create", "repair", "policy", "password", "use", "remember"}
      /\ ops[o].kind \in {"create", "password", "use", "remember"}
           => ops[o].snap.policy = "never"
  BY <1>1, <1>2 DEF OpState
<1>6. next \in WellConfigured /\ next.vault = v /\ next.policy = "never"
  BY <1>2 DEF WellConfigured, Config, Policy
<1> HIDE DEF next
<1>7. ASSUME ~raced', config'.vault = v, config'.policy = "never", config.vault \in {NoVault, v}
      PROVE  AccessFollows'
  BY <1>1, <1>2, <1>3, <1>7, StoredIsWanted DEF VaultInv, VaultSound
<1>8. CASE ops[o].kind = "create" /\ Inserts(o) /\ UNCHANGED saved
  <2>1. config' = ops[o].snap /\ config.vault = NoVault
    BY <1>8 DEF Inserts, Snap, Configured
  <2>2. ~raced' => AccessFollows'
    BY <1>5, <1>7, <1>8, <2>1
  <2> QED BY <1>1, <1>4, <1>8, <2>2, InsertsKeep
<1>9. CASE /\ ops[o].kind \in {"repair", "policy"} /\ config' = next /\ key' = v /\ Ends(o)
           /\ UNCHANGED saved
  <2>1. DataTypes' /\ RowsStay
    BY <1>1, <1>2, <1>3, <1>4, <1>6, <1>9, RowsRest DEF DataTypes
  <2>2. ~raced' => KeyIsCurrent'
    BY <1>6, <1>9 DEF KeyIsCurrent
  <2>3. ASSUME ~raced'
        PROVE  SealsOpen' /\ SavedInVault' /\ AccessFollows'
    <3>1. VaultSound /\ config.vault = v
      BY <1>1, <1>2, <1>3, <1>9, <2>3 DEF IsCurrent, ForConfig
    <3>2. AccessFollows'
      BY <1>6, <1>7, <1>9, <2>3, <3>1
    <3> QED BY <1>6, <1>9, <3>1, <3>2, SealsRest DEF VaultSound
  <2> QED BY <1>1, <1>9, <2>1, <2>2, <2>3, EndsWith
<1>10. CASE /\ IF ops[o].kind = "create" THEN Configured ELSE ~BestEffort(o) /\ ~Configured
            /\ Awaits(o, "undo")
            /\ UNCHANGED <<config, saved, key>>
  <2>1. ops[o].kind \in {"create", "repair", "policy"}
    BY <1>5, <1>10 DEF BestEffort
  <2>2. raced'
    <3>1. SUFFICES ASSUME ~raced' PROVE FALSE
      BY <1>3
    <3>2. IF ops[o].kind = "create" THEN config = NoConfig ELSE config.vault = v
      BY <1>1, <1>2, <1>3, <2>1, <3>1 DEF IsCurrent, ForConfig
    <3> QED BY <1>2, <1>10, <3>2 DEF Configured, NoConfig
  <2>3. PICK x : x = [ops[o] EXCEPT !.at = "undo"]
    OBVIOUS
  <2>4. x \in OpState /\ x.kind = ops[o].kind /\ x.snap = ops[o].snap
    <3>1. "undo" \in AwaitName
      BY DEF AwaitName
    <3> QED BY <1>1, <1>2, <2>1, <2>3, <3>1 DEF OpState
  <2>5. ops' = [ops EXCEPT ![o] = x]
    BY <1>10, <2>3 DEF Awaits
  <2>6. WaitsFor(x)'
    BY <1>1, <1>2, <2>1, <2>4 DEF WaitsFor, ForCredential
  <2>7. DataTypes' /\ RowsStay
    BY <1>1, <1>3, <1>4, <1>10, RowsRest DEF DataTypes
  <2> QED BY <1>1, <2>2, <2>4, <2>5, <2>6, <2>7, OneOpSteps
<1>11. CASE BestEffort(o) /\ key' = v /\ Uses(o) /\ UNCHANGED config
  <2>1. ~raced' => AccessFollows'
    <3>1. SUFFICES ASSUME ~raced' PROVE AccessFollows'
      OBVIOUS
    <3>2. config.vault = v /\ config.policy = "never"
      BY <1>1, <1>2, <1>3, <1>5, <1>11, <3>1 DEF BestEffort, IsCurrent, ForConfig, ForCredential
    <3> QED BY <1>7, <1>11, <3>1, <3>2
  <2> QED BY <1>1, <1>4, <1>11, <2>1, BestEffortKeeps
<1> QED BY <1>1, <1>8, <1>9, <1>10, <1>11

LEMMA UndoneKeeps == ASSUME VaultInv, Races, NEW o \in Op, Undone(o) PROVE VaultInv'
<1>1. /\ ops[o].at = "undo" /\ Ends(o) /\ osKeys' \subseteq osKeys
      /\ access' = [access EXCEPT ![ops[o].snap.vault] = "none"]
      /\ UNCHANGED <<config, saved, cleanup, key, up, drawn>>
  BY DEF Undone, IsAt, Snap, Reaches, database
<1>2. ~raced => IsCurrent(ops[o]) /\ ops[o].kind # "idle"
  BY <1>1, FlyingOp
<1>3. DataTypes /\ raced' \in BOOLEAN /\ (~raced' => ~raced)
  BY NowRaced DEF VaultInv
<1>4. raced'
  BY <1>1, <1>2, <1>3 DEF IsCurrent
<1>5. DataTypes' /\ RowsStay
  BY <1>1, <1>3, RowsRest DEF DataTypes
<1> QED BY <1>1, <1>4, <1>5, EndsWith

LEMMA DeletedKeeps == ASSUME VaultInv, Races, NEW o \in Op, KeyDeleted(o) PROVE VaultInv'
<1> DEFINE v == ops[o].snap.vault
<1>1. PICK gone \in SUBSET {v}, done \in BOOLEAN :
        /\ ops[o].at = "delete" /\ Ends(o)
        /\ osKeys' = osKeys \ gone
        /\ cleanup' = IF done THEN cleanup \ gone ELSE cleanup
        /\ key' = IF ops[o].kind = "policy"
                  THEN IF ops[o].arg = "startup" THEN v ELSE NoVault ELSE key
        /\ UNCHANGED <<config, saved, up, drawn, access>>
  BY DEF KeyDeleted, IsAt, Snap, KeyUnder
<1>2. /\ ops[o] \in OpState /\ v \in drawn /\ v \in Vault /\ ops[o].kind # "idle"
      /\ ~raced => VaultSound /\ IsCurrent(ops[o])
  BY <1>1, FlyingOp
<1>3. DataTypes /\ raced' \in BOOLEAN /\ (~raced' => ~raced)
  BY NowRaced DEF VaultInv
<1>4. DataTypes' /\ RowsStay
  <2>1. key' \in drawn \union {NoVault} /\ cleanup' \subseteq cleanup /\ osKeys' \subseteq osKeys
    BY <1>1, <1>2, <1>3 DEF DataTypes
  <2>2. ops[o].at # "idle"
    BY <1>1
  <2>3. up
    BY <2>2, FlyingOp
  <2> HIDE DEF v
  <2>4. DataTypes'
    BY <1>1, <1>3, <2>1, <2>3 DEF DataTypes
  <2> QED BY <1>1, <2>4, RowsRest
<1>5. \/ ops[o].kind = "reset"
      \/ ops[o].kind = "policy" /\ ops[o].arg # "never"
  BY <1>1, <1>2 DEF OpState
<1>6. ASSUME ~raced'
      PROVE  KeyIsCurrent' /\ SealsOpen' /\ SavedInVault' /\ AccessFollows'
  <2>1. /\ VaultSound
        /\ ops[o].kind = "reset" => config = NoConfig
        /\ ops[o].kind = "policy" => config.vault = v /\ config.policy = ops[o].arg
    BY <1>1, <1>2, <1>3, <1>6 DEF IsCurrent, ForConfig
  <2>2. KeyIsCurrent'
    <3>1. CASE ops[o].kind = "reset"
      <4>1. config.vault = NoVault /\ config.policy = "none" /\ key' = key
        BY <1>1, <2>1, <3>1 DEF NoConfig
      <4> QED BY <1>1, <2>1, <4>1 DEF VaultSound, KeyIsCurrent
    <3>2. CASE ops[o].kind = "policy"
      BY <1>1, <2>1, <3>2 DEF KeyIsCurrent
    <3> QED BY <1>5, <3>1, <3>2
  <2>3. access[v] # "wanted"
    BY <1>2, <1>5, <2>1 DEF VaultSound, AccessFollows, Automatically, NoConfig
  <2>4. AccessFollows'
    BY <1>1, <2>1, <2>3 DEF VaultSound, AccessFollows, Automatically
  <2>5. SealsOpen' /\ SavedInVault'
    BY <1>1, <2>1, SealsRest DEF VaultSound
  <2> QED BY <2>2, <2>4, <2>5
<1> QED BY <1>1, <1>4, <1>6, EndsWith

LEMMA NobodyWaits ==
  ASSUME VaultInv, ~up
  PROVE  \A o \in Op : ops[o] \in OpState /\ ops[o].kind = "idle" /\ ops[o].at = "idle"
BY DEF VaultInv, WaitsFor, OpState

LEMMA CrashKeeps == ASSUME VaultInv, Races, Crash PROVE VaultInv'
<1>1. PICK stored \in SUBSET Pending("set"),
           gone \in SUBSET (Pending("delete") \union Pending("undo")) :
        /\ osKeys' = (osKeys \union stored) \ gone
        /\ access' = [v \in Vault |-> IF v \in stored \/ v \in gone THEN "none" ELSE access[v]]
  BY DEF Crash, Dies
<1>2. /\ up' = FALSE /\ key' = NoVault /\ ops' = [o \in Op |-> NoOp]
      /\ UNCHANGED <<config, saved, drawn>>
      /\ \/ cleanup' = cleanup
         \/ /\ Configured /\ config.policy = "never"
            /\ cleanup' = cleanup \union {config.vault}
  BY DEF Crash, Dies
<1>3. DataTypes /\ raced' \in BOOLEAN /\ (~raced' => ~raced)
  BY NowRaced DEF VaultInv
<1>4. stored \subseteq drawn
  <2>1. SUFFICES ASSUME NEW w \in stored PROVE w \in drawn
    OBVIOUS
  <2>2. PICK o \in Op : w = ops[o].snap.vault /\ ops[o].at = "set"
    BY DEF Pending, IsAt, Snap
  <2> QED BY <2>2, FlyingOp
<1>5. DataTypes'
  <2>1. cleanup' \subseteq drawn
    BY <1>2, <1>3 DEF DataTypes, Configured
  <2>2. access' \in [Vault -> {"none", "wanted", "left"}]
    BY <1>1, <1>3 DEF DataTypes
  <2> QED BY <1>1, <1>2, <1>3, <1>4, <2>1, <2>2 DEF DataTypes
<1>6. \A o \in Op : ops'[o] = NoOp /\ ops'[o] \in OpState
  BY <1>2, IdleOp
<1>7. ops' \in [Op -> OpState]
  BY <1>2, IdleOp
<1>8. \A o \in Op : WaitsFor(ops[o])' /\ IsCurrent(ops[o])'
  BY <1>6 DEF WaitsFor, IsCurrent, NoOp
<1>9. ASSUME ~raced'
      PROVE  KeyIsCurrent' /\ SealsOpen' /\ SavedInVault' /\ AccessFollows'
  <2>1. VaultSound
    BY <1>3, <1>9 DEF VaultInv
  <2>2. KeyIsCurrent' /\ SealsOpen' /\ SavedInVault'
    BY <1>2, <2>1, SealsRest DEF VaultSound, KeyIsCurrent
  <2>3. AccessFollows'
    <3>1. SUFFICES ASSUME NEW w \in Vault
                   PROVE  /\ access'[w] = "wanted" => w \in osKeys' /\ Automatically(w)'
                          /\ access'[w] = "left" => /\ w \notin osKeys' \/ w \in cleanup'
                                                    /\ ~Automatically(w)'
      BY DEF AccessFollows
    <3>2. /\ access'[w] # "none" => w \notin stored /\ w \notin gone /\ access'[w] = access[w]
      BY <1>1
    <3>3. cleanup \subseteq cleanup' /\ (Automatically(w)' <=> Automatically(w))
      BY <1>2 DEF Automatically
    <3> QED BY <1>1, <2>1, <3>2, <3>3 DEF VaultSound, AccessFollows
  <2> QED BY <2>2, <2>3
<1> QED BY <1>5, <1>7, <1>8, <1>9 DEF VaultInv, VaultSound

LEMMA InitializeKeeps == ASSUME VaultInv, Races, Initialize PROVE VaultInv'
<1>1. PICK available \in BOOLEAN, gone \in SUBSET (cleanup \ Automatic),
           done \in SUBSET cleanup :
        /\ done \subseteq gone /\ osKeys' = osKeys \ gone
        /\ cleanup' = cleanup \ (done \union Automatic)
        /\ key' = IF available /\ config.policy = "never" /\ config.vault \in osKeys'
                  THEN config.vault ELSE NoVault
  BY DEF Initialize
<1>2. ~up /\ up' = TRUE /\ UNCHANGED <<config, saved, ops, drawn, access>>
  BY DEF Initialize
<1>3. DataTypes /\ raced' \in BOOLEAN /\ (~raced' => ~raced)
  BY NowRaced DEF VaultInv
<1>4. DataTypes'
  BY <1>1, <1>2, <1>3 DEF DataTypes
<1>5. \A o \in Op : ops'[o] = ops[o] /\ ops[o].kind = "idle" /\ ops[o].at = "idle"
  BY <1>2, NobodyWaits
<1>6. ops' \in [Op -> OpState] /\ \A o \in Op : WaitsFor(ops[o])' /\ IsCurrent(ops[o])'
  BY <1>2, <1>5 DEF VaultInv, WaitsFor, IsCurrent
<1>7. ASSUME ~raced'
      PROVE  KeyIsCurrent' /\ SealsOpen' /\ SavedInVault' /\ AccessFollows'
  <2>1. VaultSound
    BY <1>3, <1>7 DEF VaultInv
  <2>2. KeyIsCurrent' /\ SealsOpen' /\ SavedInVault'
    BY <1>1, <1>2, <2>1, SealsRest DEF VaultSound, KeyIsCurrent
  <2>3. AccessFollows'
    <3>1. SUFFICES ASSUME NEW w \in Vault
                   PROVE  /\ access[w] = "wanted" => w \in osKeys' /\ Automatically(w)
                          /\ access[w] = "left" => /\ w \notin osKeys' \/ w \in cleanup'
                                                   /\ ~Automatically(w)
      BY <1>2 DEF AccessFollows, Automatically
    <3>2. Automatically(w) <=> w \in Automatic
      BY <1>3, VaultAssumption DEF Automatic, Automatically
    <3> QED BY <1>1, <2>1, <3>2 DEF VaultSound, AccessFollows
  <2> QED BY <2>2, <2>3
<1> QED BY <1>4, <1>6, <1>7 DEF VaultInv, VaultSound

LEMMA VaultStarts == VaultInit => VaultInv
<1> SUFFICES ASSUME VaultInit
             PROVE  VaultInv
  OBVIOUS
<1>1. NoRow \in SavedRow /\ NoRow.row = 0
  BY VaultAssumption DEF NoRow, SavedRow
<1>2. NoOp \in OpState /\ NoOp.kind = "idle" /\ NoConfig \in WellConfigured
  BY IdleOp
<1>3. NoConfig.vault = NoVault /\ NoConfig.policy = "none"
  BY DEF NoConfig
<1>4. DataTypes
  BY <1>1, <1>2, <1>3 DEF VaultInit, DataTypes
<1>5. ops \in [Op -> OpState] /\ \A o \in Op : WaitsFor(ops[o]) /\ IsCurrent(ops[o])
  BY <1>2 DEF VaultInit, WaitsFor, IsCurrent
<1>6. KeyIsCurrent /\ SealsOpen /\ SavedInVault /\ AccessFollows
  BY <1>1, <1>3 DEF VaultInit, KeyIsCurrent, SealsOpen, SavedInVault, AccessFollows, IsSaved
<1> QED BY <1>4, <1>5, <1>6 DEF VaultInv, VaultSound

LEMMA VaultKeeps == ASSUME VaultInv, [VaultNext]_vaultVars PROVE VaultInv'
<1>1. CASE UNCHANGED vaultVars
  BY <1>1 DEF vaultVars, VaultInv, DataTypes, VaultSound, WaitsFor, IsCurrent, RoomFor, IsSaved,
              KeyIsCurrent, IsAt, SealsOpen, SavedInVault, Configured, AccessFollows, Automatically
<1>2. CASE VaultNext
  <2>1. Races /\ VaultStep
    BY <1>2 DEF VaultNext, Races
  <2>2. CASE Requested
    <3>1. UNCHANGED up
      <4>1. ASSUME NEW o \in Op, CreateVault(o) \/ Manage(o) \/ Edit(o)
            PROVE  UNCHANGED up
        BY <4>1 DEF CreateVault, Manage, Edit, Begins
      <4>2. ASSUME NEW o \in Op, Use(o) \/ Reset(o)
            PROVE  UNCHANGED up
        BY <4>2 DEF Use, Reset, Begins
      <4>3. ASSUME NEW c \in Credential, ForgetCredential(c)
            PROVE  UNCHANGED up
        BY <4>3 DEF ForgetCredential
      <4> QED BY <2>2, <4>1, <4>2, <4>3 DEF Requested
    <3> QED BY <2>1, <2>2, <3>1, CreateKeeps, ManageKeeps, UseKeeps, ResetKeeps, ForgetKeeps
            DEF Requested
  <2>3. CASE VaultAnswers
    <3>1. PICK o \in Op :
            \/ WrongPassword(o) \/ Created(o) \/ Unlocked(o) \/ StoresKey(o) \/ LeavesNever(o)
            \/ Rederives(o) \/ Rewrapped(o) \/ Edited(o) \/ KeyUnwrapped(o)
            \/ KeyStored(o) \/ StoreFails(o) \/ Undone(o) \/ KeyDeleted(o)
      BY <2>3 DEF VaultAnswers
    <3> QED BY <2>1, <3>1, WaitingKeeps, CreatedKeeps, UnlockedKeeps, LeavesNeverKeeps,
               RewrappedKeeps, EditedKeeps, UnwrappedKeeps, KeyStoredKeeps, StoreFailsKeeps,
               UndoneKeeps, DeletedKeeps
  <2> QED BY <2>1, <2>2, <2>3, CrashKeeps, InitializeKeeps DEF VaultStep
<1> QED BY <1>1, <1>2

\* Until a change of the vault overlaps another operation, the key in memory is that of
\* the vault there is, what is saved opens with it, and the credential store holds the
\* key exactly while automatic access wants it, or is still to delete it, through
\* refused requests, a store that fails, and crashes (password-vault.ts:93-622).
THEOREM VaultsStaySound == VaultSpec => []VaultIsSound
<1>1. VaultInv => VaultIsSound
  BY DEF VaultInv, VaultSound, VaultIsSound, AccessFollows, StoreFollowsPolicy
<1> QED BY <1>1, VaultStarts, VaultKeeps, PTL DEF VaultSpec

-----------------------------------------------------------------------------
(* What is typed automatically (AutoTyping).  The invariant has two halves *)
(* that do not meet: the sequence with its output, and the idle timer.     *)

Stages == SequenceOver \union Deriving \union {"attached", "next", "waiting", "asking"}
RunnerState ==
  [at : Stages, step : Nat, aborted : {"no", "cancelled", "closed"}, queued : BOOLEAN,
   attempt : Nat]
OutputState == [text : Seq(Char), searched : Nat, received : Nat]
IdleState ==
  [at : {"absent", "armed", "running", "closed"}, timer : 0 .. Interval, age : 0 .. Interval,
   held : BOOLEAN]

RunnerTypes ==
  /\ steps \in LoginSequences \union {NoSteps} /\ open \in BOOLEAN
  /\ runner \in RunnerState /\ output \in OutputState
  /\ output.searched <= Len(output.text)

\* Where the sequence is tells at which of its steps.
StepInPlace ==
  /\ runner.at = "attached" => runner.step = 1
  /\ runner.at \notin SequenceOver \union {"attached"} => steps # NoSteps
  /\ runner.at \notin SequenceOver /\ steps # NoSteps => runner.step \in 1 .. Len(steps) + 1
  /\ runner.at = "waiting" => runner.step <= Len(steps) /\ StepIs("wait")
  /\ runner.at \in Deriving \union {"asking"} => runner.step <= Len(steps) /\ StepIs("secret")

\* A search resumes at the latest where what it looks for could be first, and what
\* it has not seen yet has its check queued.
StillToSee(pattern) ==
  \A i \in 1 .. Len(output.text) :
    Occurs(pattern, output.text, i)
      => runner.queued /\ output.searched < i + Len(pattern) - 1

SearchResumes ==
  /\ runner.at # "waiting" => output.searched = 0
  /\ runner.at = "waiting" => StillToSee(steps[runner.step].pattern)

StopsAtOnce ==
  /\ Aborted => runner.at \in SequenceOver \union Deriving
  /\ ~open => Aborted \/ runner.at \in SequenceOver

RunnerInv == RunnerTypes /\ StepInPlace /\ SearchResumes /\ EachMatchIsNew /\ StopsAtOnce

\* A timer that runs has not waited longer than it is quiet.
IdleInv ==
  /\ idle \in IdleState /\ quiet \in 0 .. Interval
  /\ typed \in [any : BOOLEAN, early : BOOLEAN, late : BOOLEAN]
  /\ idle.at = "running" => idle.age <= quiet /\ (afterFirst => typed.any)
  /\ ~typed.early /\ ~typed.late

TypingInv == RunnerInv /\ IdleInv /\ afterFirst \in BOOLEAN

\* What the steps before step k have matched.
MatchedUpTo(k) == SumOf([n \in 1 .. k - 1 |-> MatchedIn(n)])

LEMMA StepsOfSequence ==
  ASSUME RunnerTypes, steps # NoSteps
  PROVE  /\ steps \in Seq(LoginStep) /\ Len(steps) \in Nat
         /\ \A k \in 1 .. Len(steps) : /\ steps[k] \in LoginStep
                                       /\ MatchedIn(k) \in Nat
<1>1. steps \in Seq(LoginStep) /\ Len(steps) \in Nat
  BY TypingAssumption, LenProperties DEF RunnerTypes
<1>2. ASSUME NEW k \in 1 .. Len(steps)
      PROVE  steps[k] \in LoginStep /\ MatchedIn(k) \in Nat
  <2>1. steps[k] \in LoginStep
    BY <1>1, ElementOfSeq
  <2>2. CASE steps[k].kind = "wait"
    <3>1. steps[k].pattern \in Seq(Char)
      BY <2>1, <2>2 DEF LoginStep
    <3>2. Len(steps[k].pattern) \in Nat
      BY <3>1, LenProperties
    <3> QED BY <2>1, <2>2, <3>2 DEF MatchedIn
  <2>3. CASE steps[k].kind # "wait"
    BY <2>1, <2>3 DEF MatchedIn
  <2> QED BY <2>1, <2>2, <2>3
<1> QED BY <1>1, <1>2

LEMMA MatchedAddsUp ==
  ASSUME RunnerTypes, steps # NoSteps
  PROVE  /\ MatchedUpTo(1) = 0
         /\ \A k \in 1 .. Len(steps) + 1 : MatchedUpTo(k) \in Int
         /\ \A k \in 1 .. Len(steps) : MatchedUpTo(k + 1) = MatchedUpTo(k) + MatchedIn(k)
<1> DEFINE lengths(k) == [n \in 1 .. k - 1 |-> MatchedIn(n)]
<1>1. Len(steps) \in Nat /\ \A k \in 1 .. Len(steps) : MatchedIn(k) \in Nat
  BY StepsOfSequence
<1>2. \A k \in 1 .. Len(steps) + 1 : lengths(k) \in Seq(Int) /\ Len(lengths(k)) = k - 1
  <2>1. SUFFICES ASSUME NEW k \in 1 .. Len(steps) + 1
                 PROVE  lengths(k) \in Seq(Int) /\ Len(lengths(k)) = k - 1
    OBVIOUS
  <2>2. k - 1 \in Nat /\ \A n \in 1 .. k - 1 : MatchedIn(n) \in Int
    BY <1>1
  <2> QED BY <2>2
<1>3. \A k \in 1 .. Len(steps) + 1 : MatchedUpTo(k) = SumOf(lengths(k))
  BY DEF MatchedUpTo
<1>4. MatchedUpTo(1) = 0
  <2>1. 1 \in 1 .. Len(steps) + 1 /\ 1 - 1 = 0
    BY <1>1
  <2>2. lengths(1) \in Seq(Int) /\ Len(lengths(1)) = 0
    BY <1>2, <2>1
  <2> HIDE DEF lengths
  <2> QED BY <1>3, <2>1, <2>2, SumOfNone
<1>5. \A k \in 1 .. Len(steps) + 1 : MatchedUpTo(k) \in Int
  <2> HIDE DEF lengths
  <2> QED BY <1>2, <1>3, SumIsInt
<1>6. ASSUME NEW k \in 1 .. Len(steps)
      PROVE  MatchedUpTo(k + 1) = MatchedUpTo(k) + MatchedIn(k)
  <2>1. k \in 1 .. Len(steps) + 1 /\ k + 1 \in 1 .. Len(steps) + 1 /\ k + 1 - 1 = k
    BY <1>1, <1>6
  <2>2. \A i \in 1 .. k - 1 : lengths(k + 1)[i] = lengths(k)[i]
    BY <1>1, <1>6
  <2>3. lengths(k + 1)[k] = MatchedIn(k)
    BY <1>1, <1>6
  <2>4. /\ lengths(k) \in Seq(Int) /\ Len(lengths(k)) = k - 1
        /\ lengths(k + 1) \in Seq(Int) /\ Len(lengths(k + 1)) = k
    BY <1>2, <2>1
  <2> HIDE DEF lengths
  <2>5. Len(lengths(k + 1)) = Len(lengths(k)) + 1
    BY <2>1, <2>4
  <2>6. SumOf(lengths(k + 1)) = SumOf(lengths(k)) + lengths(k + 1)[k]
    BY <2>2, <2>4, <2>5, SumGrows
  <2> QED BY <1>3, <2>1, <2>3, <2>6
<1> QED BY <1>4, <1>5, <1>6

\* MatchesFrom(pattern, 1) = {} says that the pattern occurs nowhere.
LEMMA NowhereFound ==
  ASSUME RunnerTypes, NEW step
  PROVE  MatchesFrom(step, 1) = {}
           <=> \A i \in 1 .. Len(output.text) : ~Occurs(step.pattern, output.text, i)
BY DEF MatchesFrom

\* From m to n, t has what is k further in s.
Shifted(s, t, m, n, k) == \A i \in m .. n : s[i + k] = t[i]

LEMMA SubSeqSame ==
  ASSUME NEW s, NEW t, NEW m \in Nat, NEW n \in Nat, NEW k \in Nat, Shifted(s, t, m, n, k)
  PROVE  SubSeq(s, m + k, n + k) = SubSeq(t, m, n)
<1>1. 1 .. 1 + (n + k) - (m + k) = 1 .. 1 + n - m
  <2>1. 1 + (n + k) - (m + k) = 1 + n - m
    OBVIOUS
  <2> QED BY <2>1
<1>2. ASSUME NEW i \in 1 .. 1 + n - m
      PROVE  s[i + (m + k) - 1] = t[i + m - 1]
  <2>1. i + (m + k) - 1 = i + m - 1 + k /\ i + m - 1 \in m .. n
    OBVIOUS
  <2> QED BY <2>1 DEF Shifted
<1>3. /\ SubSeq(s, m + k, n + k) = [i \in 1 .. 1 + (n + k) - (m + k) |-> s[i + (m + k) - 1]]
      /\ SubSeq(t, m, n) = [i \in 1 .. 1 + n - m |-> t[i + m - 1]]
  BY DEF SubSeq
<1>4. [i \in 1 .. 1 + n - m |-> s[i + (m + k) - 1]] = [i \in 1 .. 1 + n - m |-> t[i + m - 1]]
  BY <1>2, Zenon
<1> QED BY ONLY <1>1, <1>3, <1>4

\* One more character: what was looked at, and not dropped, was looked at before.
LEMMA OneMoreCharacter ==
  ASSUME output \in OutputState, output.searched <= Len(output.text), NEW c \in Char
  PROVE  /\ Appended(c) \in OutputState
         /\ Len(Appended(c).text) <= Len(output.text) + 1
         /\ Appended(c).searched <= Len(Appended(c).text)
         /\ Appended(c).received = output.received + 1
         /\ output.searched = 0 => Appended(c).searched = 0
         /\ \A pattern \in Seq(Char) \ {<<>>} :
              (\A i \in 1 .. Len(output.text) :
                 Occurs(pattern, output.text, i) => output.searched < i + Len(pattern) - 1)
              => \A i \in 1 .. Len(Appended(c).text) :
                   Occurs(pattern, Appended(c).text, i)
                     => Appended(c).searched < i + Len(pattern) - 1
<1> DEFINE all == Append(output.text, c)
           dropped == IF Len(all) > Window THEN Len(all) - Window ELSE 0
           text == SubSeq(all, dropped + 1, Len(all))
           searched == IF output.searched > dropped THEN output.searched - dropped ELSE 0
<1>1. /\ output.text \in Seq(Char) /\ Len(output.text) \in Nat
      /\ output.searched \in Nat /\ output.received \in Nat /\ Window \in Nat
  BY TypingAssumption, LenProperties DEF OutputState
<1>2. /\ all \in Seq(Char) /\ Len(all) = Len(output.text) + 1
      /\ \A i \in 1 .. Len(output.text) : all[i] = output.text[i]
  BY <1>1
<1>3. dropped \in Nat /\ dropped <= Len(all)
  BY <1>1, <1>2
<1>4. Appended(c) = [text |-> text, searched |-> searched, received |-> output.received + 1]
  BY DEF Appended
<1> HIDE DEF all, dropped
<1>5. \A i \in dropped + 1 .. Len(all) : all[i] \in Char
  <2>1. SUFFICES ASSUME NEW i \in dropped + 1 .. Len(all)
                 PROVE  all[i] \in Char
    OBVIOUS
  <2>2. i \in 1 .. Len(all)
    BY <1>2, <1>1, <1>3
  <2> QED BY <1>2, <2>2, ElementOfSeq
<1>6. /\ text \in Seq(Char) /\ Len(text) = Len(all) - dropped
      /\ \A i \in 1 .. Len(all) - dropped : text[i] = all[dropped + i]
  <2>1. dropped + 1 \in Int /\ Len(all) \in Int
    BY <1>1, <1>2, <1>3
  <2>2. /\ text \in Seq(Char)
        /\ Len(text) = IF dropped + 1 <= Len(all) THEN Len(all) - (dropped + 1) + 1 ELSE 0
        /\ \A i \in 1 .. Len(all) - (dropped + 1) + 1 : text[i] = all[dropped + 1 + i - 1]
    BY <1>5, <2>1, SubSeqProperties
  <2>3. Len(all) - (dropped + 1) + 1 = Len(all) - dropped
    BY <1>1, <1>2, <1>3
  <2>4. \A i \in 1 .. Len(all) - dropped : dropped + 1 + i - 1 = dropped + i
    BY <1>3
  <2> QED BY <1>1, <1>2, <1>3, <2>2, <2>3, <2>4
<1> HIDE DEF text
<1>7. searched \in Nat /\ searched <= Len(text)
  BY <1>1, <1>2, <1>3, <1>6
<1>8. output.searched = 0 => searched = 0
  BY <1>3
<1>9. ASSUME NEW pattern \in Seq(Char) \ {<<>>},
             \A i \in 1 .. Len(output.text) :
               Occurs(pattern, output.text, i) => output.searched < i + Len(pattern) - 1,
             NEW i \in 1 .. Len(text), Occurs(pattern, text, i)
      PROVE  searched < i + Len(pattern) - 1
  <2>1. Len(pattern) \in Nat \ {0}
    BY <1>9, LenProperties, EmptySeq
  <2>0. i \in Nat \ {0} /\ i <= Len(all) - dropped
    BY <1>6
  <2>2. PICK e \in Nat : e = i + Len(pattern) - 1
    <3>1. i + Len(pattern) - 1 \in Nat
      BY ONLY <2>0, <2>1
    <3> QED BY <3>1
  <2>3. e <= Len(text) /\ SubSeq(text, i, e) = pattern
    BY <1>9, <2>2 DEF Occurs
  <2>4. SUFFICES ASSUME e <= searched
                 PROVE  FALSE
    BY <1>7, <2>2
  <2>5. searched = output.searched - dropped /\ output.searched > dropped
    BY <1>1, <1>3, <1>6, <2>1, <2>2, <2>4
  <2>6. i + dropped \in 1 .. Len(output.text) /\ e + dropped <= Len(output.text)
    <3>1. e + dropped <= output.searched /\ i <= e
      BY ONLY <1>1, <1>3, <2>0, <2>1, <2>2, <2>4, <2>5
    <3>2. e + dropped <= Len(output.text)
      BY ONLY <1>1, <1>3, <3>1, output.searched <= Len(output.text), e \in Nat
    <3> QED BY ONLY <1>1, <1>3, <2>0, <3>1, <3>2, e \in Nat
  <2>7. \A j \in i .. e : output.text[j + dropped] = text[j]
    <3>1. ASSUME NEW j \in i .. e
          PROVE  output.text[j + dropped] = text[j]
      <4>1. j \in 1 .. Len(all) - dropped /\ j + dropped \in 1 .. Len(output.text)
        <5>1. j \in Nat /\ i <= j /\ j <= e
          BY <2>0, <3>1
        <5>2. e <= Len(all) - dropped
          BY <1>6, <2>3
        <5> QED BY ONLY <1>1, <1>2, <1>3, <2>0, <2>6, <5>1, <5>2, e \in Nat
      <4>2. dropped + j = j + dropped
        BY <1>3
      <4> QED BY <1>2, <1>6, <4>1, <4>2
    <3> QED BY <3>1
  <2>8. i \in Nat \ {0}
    BY <2>0
  <2>9. SubSeq(output.text, i + dropped, e + dropped) = SubSeq(text, i, e)
    <3>1. i \in Nat /\ e \in Nat /\ dropped \in Nat
      BY <1>3, <2>8
    <3>2. Shifted(output.text, text, i, e, dropped)
      BY ONLY <2>7 DEF Shifted
    <3> QED BY ONLY <2>8, <3>1, <3>2, SubSeqSame
  <2>10. e + dropped = i + dropped + Len(pattern) - 1
    BY <1>3, <2>1, <2>2, <2>8
  <2>11. Occurs(pattern, output.text, i + dropped)
    BY <2>3, <2>6, <2>9, <2>10 DEF Occurs
  <2>12. output.searched < i + dropped + Len(pattern) - 1
    BY <1>9, <2>6, <2>11
  <2> QED BY <1>1, <1>3, <2>2, <2>4, <2>5, <2>10, <2>12
<1> HIDE DEF searched
<1>10. /\ Appended(c).text = text /\ Appended(c).searched = searched
       /\ Appended(c).received = output.received + 1
  BY <1>4
<1>11. Appended(c) \in OutputState
  BY <1>1, <1>4, <1>6, <1>7 DEF OutputState
<1>12. Len(text) <= Len(output.text) + 1
  BY <1>1, <1>2, <1>3, <1>6
<1> QED BY <1>7, <1>8, <1>9, <1>10, <1>11, <1>12

LEMMA SameMatched ==
  ASSUME UNCHANGED steps
  PROVE  MatchedLength = MatchedUpTo(runner.step) /\ MatchedLength' = MatchedUpTo(runner'.step)
BY DEF MatchedLength, MatchedUpTo, MatchedIn

LEMMA NoOutputFacts ==
  /\ NoOutput \in OutputState /\ NoOutput.text = <<>>
  /\ NoOutput.searched = 0 /\ NoOutput.searched <= Len(NoOutput.text)
<1>1. <<>> \in Seq(Char) /\ Len(<<>>) = 0
  OBVIOUS
<1> QED BY <1>1 DEF NoOutput, OutputState

LEMMA RunnerFields ==
  ASSUME RunnerInv
  PROVE  /\ runner.at \in Stages /\ runner.step \in Nat /\ runner.queued \in BOOLEAN
         /\ runner.aborted \in {"no", "cancelled", "closed"} /\ runner.attempt \in Nat
         /\ output.text \in Seq(Char) /\ Len(output.text) \in Nat
         /\ output.searched \in Nat /\ output.received \in Nat
BY LenProperties DEF RunnerInv, RunnerTypes, RunnerState, OutputState

LEMMA RunnerUnmoved ==
  ASSUME RunnerInv, UNCHANGED <<steps, runner, output, open>>
  PROVE  RunnerInv'
BY DEF RunnerInv, RunnerTypes, StepInPlace, StepIs, SearchResumes, StillToSee, EachMatchIsNew,
       SequenceActive, MatchedLength, MatchedIn, StopsAtOnce, Aborted, Occurs

\* The sequence is over: nothing is looked at any more.
LEMMA SequenceEnds ==
  ASSUME RunnerInv, NEW state \in SequenceOver, Finishes(state), UNCHANGED <<steps, open>>
  PROVE  RunnerInv'
<1>1. /\ runner' \in RunnerState /\ runner'.at = state /\ runner'.aborted = runner.aborted
  <2>1. runner \in RunnerState
    BY DEF RunnerInv, RunnerTypes
  <2>2. state \in Stages /\ 1 \in Nat /\ 0 \in Nat
    BY DEF Stages
  <2> QED BY <2>1, <2>2 DEF Finishes, RunnerState
<1>2. /\ state \notin {"waiting", "attached", "asking"} /\ state \notin Deriving
  BY DEF SequenceOver, Deriving
<1>3. output' = NoOutput
  BY DEF Finishes
<1>4. RunnerTypes'
  BY <1>1, <1>3, NoOutputFacts DEF RunnerInv, RunnerTypes
<1>5. StepInPlace'
  BY <1>1, <1>2 DEF StepInPlace
<1>6. SearchResumes'
  BY <1>1, <1>2, <1>3, NoOutputFacts DEF SearchResumes
<1>7. EachMatchIsNew' /\ StopsAtOnce'
  BY <1>1 DEF EachMatchIsNew, SequenceActive, StopsAtOnce
<1> QED BY <1>4, <1>5, <1>6, <1>7 DEF RunnerInv

\* The sequence moves to another await or to its next step, and nothing is matched.
LEMMA SequenceGoesOn ==
  ASSUME RunnerInv, UNCHANGED <<steps, output, open>>, steps # NoSteps,
         runner.at \notin SequenceOver \union {"waiting"}, runner' \in RunnerState,
         runner'.aborted = runner.aborted,
         runner'.at \in {"next", "asking"} \union Deriving,
         Aborted => runner'.at \in Deriving,
         \/ runner'.step = runner.step
         \/ /\ runner'.step = runner.step + 1 /\ runner'.at = "next"
            /\ runner.step <= Len(steps) /\ ~StepIs("wait"),
         runner'.at # "next" => runner.step <= Len(steps) /\ StepIs("secret")
  PROVE  RunnerInv'
<1>1. /\ runner'.at \notin SequenceOver \union {"waiting", "attached"}
  BY DEF SequenceOver, Deriving
<1>2. runner.step \in 1 .. Len(steps) + 1 /\ Len(steps) \in Nat
  <2>1. RunnerTypes
    BY DEF RunnerInv
  <2> QED BY <2>1, StepsOfSequence DEF RunnerInv, StepInPlace
<1>3. runner'.step \in 1 .. Len(steps) + 1
  BY <1>2
<1>4. RunnerTypes'
  BY DEF RunnerInv, RunnerTypes
<1>5. StepInPlace'
  <2>1. runner'.at # "next" => runner'.step = runner.step
    OBVIOUS
  <2>2. runner'.at # "next" => runner'.step <= Len(steps) /\ steps[runner'.step].kind = "secret"
    BY <2>1 DEF StepIs
  <2>3. "next" \notin Deriving /\ "next" # "asking"
    BY DEF Deriving
  <2> QED BY <1>1, <1>3, <2>2, <2>3 DEF StepInPlace, StepIs
<1>6. SearchResumes'
  BY <1>1 DEF RunnerInv, SearchResumes
<1>7. EachMatchIsNew'
  <2>1. MatchedUpTo(runner'.step) = MatchedUpTo(runner.step)
    <3>1. CASE runner'.step = runner.step
      BY <3>1
    <3>2. CASE runner'.step = runner.step + 1 /\ runner.step <= Len(steps) /\ ~StepIs("wait")
      <4>1. runner.step \in 1 .. Len(steps) /\ runner.step \in 1 .. Len(steps) + 1
        BY <1>2, <3>2
      <4>2. MatchedIn(runner.step) = 0
        BY <3>2 DEF MatchedIn, StepIs
      <4>3. MatchedUpTo(runner.step + 1) = MatchedUpTo(runner.step) + MatchedIn(runner.step)
        BY <4>1, MatchedAddsUp DEF RunnerInv
      <4>4. MatchedUpTo(runner.step) \in Int
        BY <4>1, MatchedAddsUp DEF RunnerInv
      <4> QED BY <3>2, <4>2, <4>3, <4>4
    <3> QED BY <3>1, <3>2
  <2>2. SequenceActive
    BY DEF SequenceActive
  <2>3. MatchedLength + Len(output.text) <= output.received
    BY <2>2 DEF RunnerInv, EachMatchIsNew
  <2>4. MatchedLength' = MatchedLength
    BY <2>1, SameMatched
  <2> QED BY <2>3, <2>4 DEF EachMatchIsNew
<1>8. StopsAtOnce'
  BY <1>1 DEF RunnerInv, StopsAtOnce, Aborted
<1> QED BY <1>4, <1>5, <1>6, <1>7, <1>8 DEF RunnerInv

\* A check looks from where the last search ended, and has seen all of the window.
LEMMA CheckSeesAll ==
  ASSUME RunnerInv, runner.at \in {"next", "waiting"}, steps # NoSteps,
         runner.step \in 1 .. Len(steps), StepIs("wait"),
         MatchesFrom(steps[runner.step], SearchFrom(steps[runner.step])) = {}
  PROVE  \A i \in 1 .. Len(output.text) : ~Occurs(steps[runner.step].pattern, output.text, i)
<1> DEFINE step == steps[runner.step]
           L == Len(step.pattern)
<1>1. step.pattern \in Seq(Char) \ {<<>>} /\ step.regex \in BOOLEAN
  <2>1. step \in LoginStep /\ step.kind = "wait"
    BY StepsOfSequence DEF RunnerInv, StepIs
  <2> HIDE DEF step
  <2> QED BY <2>1 DEF LoginStep
<1>2. L \in Nat \ {0}
  <2> HIDE DEF step
  <2> QED BY <1>1, LenProperties, EmptySeq
<1>3. /\ output.searched \in Nat /\ Len(output.text) \in Nat
  BY RunnerFields
<1>4. SUFFICES ASSUME NEW i \in 1 .. Len(output.text), Occurs(step.pattern, output.text, i)
               PROVE  FALSE
  OBVIOUS
<1>5. output.searched < i + L - 1 \/ output.searched = 0
  <2>1. CASE runner.at = "next"
    BY <2>1 DEF RunnerInv, SearchResumes
  <2>2. CASE runner.at = "waiting"
    BY <1>4, <2>2 DEF RunnerInv, SearchResumes, StillToSee
  <2> QED BY <2>1, <2>2
<1> HIDE DEF L
<1>6. SearchFrom(step) \in Int /\ SearchFrom(step) <= i
  <2>1. SearchFrom(step) = IF step.regex \/ output.searched - L + 1 < 0 THEN 1
                           ELSE output.searched - L + 1 + 1
    BY DEF SearchFrom, L
  <2>2. i \in Nat /\ 1 <= i
    BY <1>3
  <2> HIDE DEF step
  <2> QED BY ONLY <1>2, <1>3, <1>5, <2>1, <2>2
<1>7. i \in SearchFrom(step) .. Len(output.text)
  BY <1>3, <1>6
<1> QED BY <1>4, <1>7 DEF MatchesFrom

LEMMA ChecksKeep ==
  ASSUME RunnerInv, Checks, UNCHANGED <<steps, open>>, runner.at \in {"next", "waiting"},
         steps # NoSteps, runner.step \in 1 .. Len(steps), StepIs("wait"), ~Aborted
  PROVE  RunnerInv'
<1> DEFINE step == steps[runner.step]
           found == MatchesFrom(step, SearchFrom(step))
           first == CHOOSE i \in found : \A j \in found : i <= j
<1>0. /\ runner \in RunnerState /\ output \in OutputState
      /\ output.searched <= Len(output.text)
      /\ output.text \in Seq(Char) /\ Len(output.text) \in Nat
      /\ output.searched \in Nat /\ output.received \in Nat /\ runner.step \in Nat
  BY RunnerFields DEF RunnerInv, RunnerTypes
<1>1. step.pattern \in Seq(Char) /\ Len(step.pattern) \in Nat /\ step.kind = "wait"
  <2>1. step \in LoginStep /\ step.kind = "wait"
    BY StepsOfSequence DEF RunnerInv, StepIs
  <2> HIDE DEF step
  <2>2. step.pattern \in Seq(Char)
    BY <2>1 DEF LoginStep
  <2> QED BY <2>1, <2>2, LenProperties
<1>2. runner.at \notin SequenceOver \union {"attached"} /\ Len(steps) \in Nat
  BY StepsOfSequence DEF SequenceOver, RunnerInv
<1>3. MatchedLength + Len(output.text) <= output.received
  BY <1>2 DEF RunnerInv, EachMatchIsNew, SequenceActive
<1>4. CASE found # {}
  <2>1. /\ output' = Consumed(step, first)
        /\ runner' = [runner EXCEPT !.at = "next", !.step = @ + 1, !.queued = FALSE]
    BY <1>4 DEF Checks
  <2>2. first \in found
    <3>1. found \in SUBSET Int
      <4>1. SearchFrom(step) \in Int
        <5> HIDE DEF step
        <5> QED BY <1>0, <1>1 DEF SearchFrom
      <4> HIDE DEF step
      <4> QED BY <1>0, <4>1 DEF MatchesFrom
    <3>2. found \subseteq Nat
      <4>1. SearchFrom(step) \in Nat
        <5> HIDE DEF step
        <5> QED BY <1>0, <1>1 DEF SearchFrom
      <4> HIDE DEF step
      <4> QED BY <1>0, <4>1 DEF MatchesFrom
    <3> HIDE DEF found
    <3>3. \E i \in found : \A j \in found : i <= j
      BY <1>4, <3>2, SmallestNat
    <3> QED BY <3>3
  <2> HIDE DEF first
  <2>3. first \in Nat \ {0} /\ first + Len(step.pattern) - 1 <= Len(output.text)
    <3>1. SearchFrom(step) \in Nat \ {0}
      <4> HIDE DEF step
      <4> QED BY <1>0, <1>1 DEF SearchFrom
    <3>2. first \in SearchFrom(step) .. Len(output.text) /\ Occurs(step.pattern, output.text, first)
      BY <2>2 DEF MatchesFrom
    <3> HIDE DEF step
    <3> QED BY <1>0, <1>1, <3>1, <3>2 DEF Occurs
  <2> DEFINE rest == SubSeq(output.text, first + Len(step.pattern), Len(output.text))
  <2>4. rest \in Seq(Char) /\ Len(rest) \in Nat /\ Len(rest) <= Len(output.text) - Len(step.pattern)
    <3>1. PICK m \in Nat \ {0} : m = first + Len(step.pattern)
      BY <1>1, <2>3
    <3>2. \A i \in m .. Len(output.text) : output.text[i] \in Char
      <4>1. ASSUME NEW i \in m .. Len(output.text)
            PROVE  output.text[i] \in Char
        <5>1. i \in 1 .. Len(output.text)
          BY <1>0, <4>1
        <5> QED BY <1>0, <5>1, ElementOfSeq
      <4> QED BY <4>1
    <3>3. /\ SubSeq(output.text, m, Len(output.text)) \in Seq(Char)
          /\ Len(SubSeq(output.text, m, Len(output.text)))
               = IF m <= Len(output.text) THEN Len(output.text) - m + 1 ELSE 0
      BY <1>0, <3>2, SubSeqProperties
    <3>4. rest = SubSeq(output.text, m, Len(output.text))
      BY <3>1
    <3> HIDE DEF rest, step
    <3>5. PICK n \in Nat : n = Len(rest)
      BY <3>3, <3>4, LenProperties
    <3>6. n = IF m <= Len(output.text) THEN Len(output.text) - m + 1 ELSE 0
      BY <3>3, <3>4, <3>5
    <3>7. n <= Len(output.text) - Len(step.pattern)
      <4>1. PICK N \in Nat, p \in Nat : N = Len(output.text) /\ p = Len(step.pattern)
        BY <1>0, <1>1
      <4>2. first \in Nat \ {0} /\ first + p - 1 <= N /\ m = first + p
        BY <2>3, <3>1, <4>1
      <4>3. n = IF m <= N THEN N - m + 1 ELSE 0
        BY <3>6, <4>1
      <4>4. n <= N - p
        BY ONLY <4>2, <4>3, n \in Nat, m \in Nat, N \in Nat, p \in Nat
      <4> QED BY <4>1, <4>4
    <3> QED BY <3>3, <3>4, <3>5, <3>7
  <2> HIDE DEF rest
  <2>5. output' = [output EXCEPT !.text = rest, !.searched = 0]
    BY <2>1 DEF Consumed, rest
  <2>6. /\ output' \in OutputState /\ output'.text = rest /\ output'.searched = 0
        /\ output'.received = output.received
    BY <1>0, <2>4, <2>5 DEF OutputState
  <2>7. /\ runner' \in RunnerState /\ runner'.at = "next" /\ runner'.step = runner.step + 1
        /\ runner'.aborted = runner.aborted
    <3>1. "next" \in Stages /\ FALSE \in BOOLEAN /\ runner.step + 1 \in Nat
      BY <1>0 DEF Stages
    <3> QED BY <1>0, <2>1, <3>1 DEF RunnerState
  <2>8. RunnerTypes'
    BY <2>4, <2>6, <2>7 DEF RunnerInv, RunnerTypes
  <2>9. "next" \notin SequenceOver /\ "next" \notin Deriving
    BY DEF SequenceOver, Deriving
  <2>10. StepInPlace'
    BY <1>2, <2>7, <2>9 DEF StepInPlace
  <2>11. SearchResumes' /\ StopsAtOnce'
    <3>1. open' = open /\ (~open => Aborted \/ runner.at \in SequenceOver)
      BY DEF RunnerInv, StopsAtOnce
    <3> QED BY <1>2, <2>6, <2>7, <3>1 DEF SearchResumes, StopsAtOnce, Aborted
  <2>12. EachMatchIsNew'
    <3>1. MatchedUpTo(runner.step + 1) = MatchedUpTo(runner.step) + MatchedIn(runner.step)
      BY MatchedAddsUp DEF RunnerInv
    <3>2. MatchedUpTo(runner.step) \in Int
      <4>1. runner.step \in 1 .. Len(steps) + 1
        BY <1>2
      <4> QED BY <4>1, MatchedAddsUp DEF RunnerInv
    <3>3. MatchedIn(runner.step) = Len(step.pattern)
      BY <1>1 DEF MatchedIn
    <3>4. MatchedLength' = MatchedLength + Len(step.pattern) /\ MatchedLength \in Int
      BY <2>7, <3>1, <3>2, <3>3, SameMatched
    <3>5. MatchedLength' + Len(rest) <= output.received
      <4> HIDE DEF step
      <4> QED BY <1>0, <1>1, <1>3, <2>4, <3>4
    <3> QED BY <2>6, <3>5 DEF EachMatchIsNew
  <2> QED BY <2>8, <2>10, <2>11, <2>12 DEF RunnerInv
<1>5. CASE found = {}
  <2>1. /\ output' = Searched(step)
        /\ runner' = [runner EXCEPT !.at = "waiting", !.queued = FALSE]
    BY <1>5 DEF Checks
  <2>2. /\ output' \in OutputState /\ output'.text = output.text
        /\ output'.received = output.received /\ output'.searched <= Len(output.text)
    <3>1. CASE step.regex
      BY <1>0, <2>1, <3>1 DEF Searched
    <3>2. CASE ~step.regex
      <4>1. output' = [output EXCEPT !.searched = Len(output.text)]
        BY <2>1, <3>2 DEF Searched
      <4> QED BY <1>0, <4>1 DEF OutputState
    <3> QED BY <3>1, <3>2
  <2>3. /\ runner' \in RunnerState /\ runner'.at = "waiting" /\ runner'.step = runner.step
        /\ runner'.aborted = runner.aborted
    <3>1. "waiting" \in Stages /\ FALSE \in BOOLEAN
      BY DEF Stages
    <3> QED BY <1>0, <2>1, <3>1 DEF RunnerState
  <2>4. RunnerTypes'
    BY <2>2, <2>3 DEF RunnerInv, RunnerTypes
  <2>5. "waiting" \notin Deriving /\ runner.step <= Len(steps)
        /\ runner.step \in 1 .. Len(steps) + 1
    BY <1>0, <1>2 DEF Deriving
  <2>6. StepInPlace'
    BY <1>2, <2>3, <2>5 DEF StepInPlace, StepIs
  <2>7. \A i \in 1 .. Len(output.text) : ~Occurs(step.pattern, output.text, i)
    BY <1>5, CheckSeesAll
  <2>8. SearchResumes'
    BY <2>2, <2>3, <2>7 DEF SearchResumes, StillToSee, Occurs
  <2>9. StopsAtOnce'
    <3>1. open' = open /\ (~open => Aborted \/ runner.at \in SequenceOver)
      BY DEF RunnerInv, StopsAtOnce
    <3> QED BY <1>2, <2>3, <3>1 DEF StopsAtOnce, Aborted
  <2>10. EachMatchIsNew'
    <3>1. MatchedLength' = MatchedLength
      BY <2>3, SameMatched
    <3> QED BY <1>3, <2>2, <3>1 DEF EachMatchIsNew
  <2> QED BY <2>4, <2>6, <2>8, <2>9, <2>10 DEF RunnerInv
<1> QED BY <1>4, <1>5

LEMMA ReceivesKeeps ==
  ASSUME RunnerInv, NEW c \in Char, Receives(c)
  PROVE  RunnerInv'
<1>1. /\ output' = Appended(c) /\ runner.at # "next"
      /\ runner' = [runner EXCEPT !.queued = @ \/ runner.at = "waiting"]
      /\ UNCHANGED <<steps, open>>
  BY DEF Receives
<1>2. /\ runner \in RunnerState /\ output \in OutputState
      /\ output.searched <= Len(output.text)
  BY DEF RunnerInv, RunnerTypes
<1>3. /\ runner' \in RunnerState /\ runner'.at = runner.at /\ runner'.step = runner.step
      /\ runner'.aborted = runner.aborted /\ (runner.at = "waiting" => runner'.queued)
  <2>1. PICK q \in BOOLEAN : q = (runner.queued \/ runner.at = "waiting")
    BY <1>2 DEF RunnerState
  <2>2. runner' = [runner EXCEPT !.queued = q]
    BY <1>1, <2>1
  <2>3. /\ runner' \in RunnerState /\ runner'.at = runner.at /\ runner'.step = runner.step
        /\ runner'.aborted = runner.aborted /\ runner'.queued = q
    BY <1>2, <2>2 DEF RunnerState
  <2> QED BY <2>1, <2>3
<1>4. /\ output' \in OutputState /\ Len(output'.text) <= Len(output.text) + 1
      /\ output'.searched <= Len(output'.text) /\ output'.received = output.received + 1
      /\ output.searched = 0 => output'.searched = 0
  BY <1>1, <1>2, OneMoreCharacter
<1>5. RunnerTypes'
  BY <1>1, <1>3, <1>4 DEF RunnerInv, RunnerTypes
<1>6. StepInPlace' /\ StopsAtOnce'
  BY <1>1, <1>3 DEF RunnerInv, StepInPlace, StepIs, StopsAtOnce, Aborted
<1>7. SearchResumes'
  <2>1. CASE runner.at # "waiting"
    BY <1>3, <1>4, <2>1 DEF RunnerInv, SearchResumes
  <2>2. CASE runner.at = "waiting"
    <3> DEFINE pattern == steps[runner.step].pattern
    <3>1. pattern \in Seq(Char) \ {<<>>}
      <4>1. steps # NoSteps /\ runner.step \in 1 .. Len(steps) /\ StepIs("wait")
        <5>1. "waiting" \notin SequenceOver \union {"attached"}
          BY DEF SequenceOver
        <5>2. steps # NoSteps /\ runner.step \in 1 .. Len(steps) + 1
              /\ runner.step <= Len(steps) /\ StepIs("wait")
          BY <2>2, <5>1 DEF RunnerInv, StepInPlace
        <5>3. Len(steps) \in Nat
          BY <5>2, StepsOfSequence DEF RunnerInv
        <5> QED BY <5>2, <5>3
      <4>2. steps[runner.step] \in LoginStep /\ steps[runner.step].kind = "wait"
        BY <4>1, StepsOfSequence DEF RunnerInv, StepIs
      <4> QED BY <4>2 DEF LoginStep
    <3> HIDE DEF pattern
    <3>2. \A i \in 1 .. Len(output.text) :
            Occurs(pattern, output.text, i) => output.searched < i + Len(pattern) - 1
      BY <2>2 DEF RunnerInv, SearchResumes, StillToSee, pattern
    <3>3. \A i \in 1 .. Len(output'.text) :
            Occurs(pattern, output'.text, i) => output'.searched < i + Len(pattern) - 1
      BY <1>1, <1>2, <3>1, <3>2, OneMoreCharacter
    <3>4. pattern = (steps[runner.step].pattern)'
      BY <1>1, <1>3 DEF pattern
    <3> QED BY <1>3, <2>2, <3>3, <3>4 DEF SearchResumes, StillToSee, Occurs
  <2> QED BY <2>1, <2>2
<1>8. EachMatchIsNew'
  <2>1. SUFFICES ASSUME SequenceActive, steps # NoSteps
                 PROVE  MatchedLength' + Len(output'.text) <= output'.received
    BY <1>1, <1>3 DEF EachMatchIsNew, SequenceActive
  <2>2. MatchedLength' = MatchedLength
    BY <1>1, <1>3, SameMatched
  <2>3. MatchedLength + Len(output.text) <= output.received
    BY <2>1 DEF RunnerInv, EachMatchIsNew
  <2>4. MatchedLength \in Int
    <3>1. runner.step \in 1 .. Len(steps) + 1
      BY <2>1 DEF RunnerInv, StepInPlace, SequenceActive
    <3> QED BY <1>1, <2>1, <3>1, SameMatched, MatchedAddsUp DEF RunnerInv
  <2>5. Len(output'.text) \in Nat /\ Len(output.text) \in Nat /\ output.received \in Nat
    BY <1>2, <1>4, LenProperties DEF OutputState
  <2> QED BY <1>4, <2>2, <2>3, <2>4, <2>5
<1> QED BY <1>5, <1>6, <1>7, <1>8 DEF RunnerInv

LEMMA AbortsKeep ==
  ASSUME RunnerInv, Turn, NEW reason \in {"cancelled", "closed"}, Aborts(reason),
         UNCHANGED steps, open' \in BOOLEAN
  PROVE  RunnerInv'
<1> DEFINE why == IF Aborted THEN runner.aborted ELSE reason
<1>0. /\ runner \in RunnerState /\ output \in OutputState
      /\ output.searched <= Len(output.text)
  BY DEF RunnerInv, RunnerTypes
<1>1. why \in {"cancelled", "closed"}
  BY <1>0 DEF Aborted, RunnerState
<1>2. why \in SequenceOver /\ why \in Stages /\ why \notin Deriving
  BY <1>1 DEF SequenceOver, Stages, Deriving
<1>3. /\ runner' = IF ~SequenceActive THEN runner
                   ELSE IF runner.at \in Deriving THEN [runner EXCEPT !.aborted = why]
                   ELSE [runner EXCEPT !.aborted = why, !.at = why, !.step = 1, !.attempt = 0]
      /\ output' = IF runner.at \in Deriving THEN output ELSE NoOutput
  BY DEF Aborts
<1> HIDE DEF why
<1>4. CASE SequenceActive /\ runner.at \in Deriving
  <2>1. /\ runner' \in RunnerState /\ runner'.at = runner.at /\ runner'.step = runner.step
        /\ runner'.aborted = why /\ runner'.queued = runner.queued /\ output' = output
    BY <1>0, <1>1, <1>3, <1>4 DEF RunnerState
  <2>2. RunnerTypes'
    BY <2>1 DEF RunnerInv, RunnerTypes
  <2>3. StepInPlace' /\ SearchResumes'
    BY <2>1 DEF RunnerInv, StepInPlace, StepIs, SearchResumes, StillToSee, Occurs
  <2>4. EachMatchIsNew'
    BY <2>1, SameMatched DEF RunnerInv, EachMatchIsNew, SequenceActive
  <2>5. StopsAtOnce'
    BY <1>1, <1>4, <2>1 DEF StopsAtOnce, Aborted
  <2> QED BY <2>2, <2>3, <2>4, <2>5 DEF RunnerInv
<1>5. CASE ~SequenceActive \/ runner.at \notin Deriving
  <2>1. /\ runner' \in RunnerState /\ runner'.at \in SequenceOver /\ output' = NoOutput
    <3>1. SequenceOver \intersect Deriving = {}
      BY DEF SequenceOver, Deriving
    <3>2. CASE ~SequenceActive
      <4>1. runner.at \in SequenceOver /\ runner.at \notin Deriving
        BY <3>1, <3>2 DEF SequenceActive
      <4> QED BY <1>0, <1>3, <3>2, <4>1
    <3>3. CASE SequenceActive
      <4>1. runner' = [runner EXCEPT !.aborted = why, !.at = why, !.step = 1, !.attempt = 0]
        BY <1>3, <1>5, <3>3
      <4>2. 1 \in Nat /\ 0 \in Nat
        OBVIOUS
      <4> QED BY <1>0, <1>1, <1>2, <1>3, <1>5, <3>3, <4>1, <4>2 DEF RunnerState
    <3> QED BY <3>2, <3>3
  <2>2. runner'.at \notin Deriving \union {"waiting", "attached", "asking"}
    BY <2>1 DEF SequenceOver, Deriving
  <2>3. RunnerTypes'
    BY <2>1, NoOutputFacts DEF RunnerInv, RunnerTypes
  <2>4. StepInPlace'
    BY <2>1, <2>2 DEF StepInPlace
  <2>5. SearchResumes'
    BY <2>1, <2>2, NoOutputFacts DEF SearchResumes
  <2>6. EachMatchIsNew' /\ StopsAtOnce'
    BY <2>1 DEF EachMatchIsNew, SequenceActive, StopsAtOnce
  <2> QED BY <2>3, <2>4, <2>5, <2>6 DEF RunnerInv
<1> QED BY <1>4, <1>5

LEMMA StoppedEnds ==
  ASSUME RunnerInv, RunnerStopped, UNCHANGED <<steps, open>>
  PROVE  RunnerInv'
<1>1. (IF runner.aborted = "cancelled" THEN "cancelled" ELSE "closed") \in SequenceOver
  BY DEF SequenceOver
<1> QED BY <1>1, SequenceEnds DEF RunnerStopped

LEMMA AlwaysAStep ==
  ASSUME RunnerInv, runner.at \notin SequenceOver \union {"attached"}
  PROVE  steps # NoSteps /\ runner.step \in 1 .. Len(steps) + 1 /\ Len(steps) \in Nat
BY StepsOfSequence DEF RunnerInv, StepInPlace

LEMMA NextStepGoesOn ==
  ASSUME RunnerInv, NextStep, UNCHANGED <<steps, open>>, ~Aborted,
         runner.at \in {"next", "deriving"}, runner.step <= Len(steps), ~StepIs("wait")
  PROVE  RunnerInv'
<1>1. runner' = [runner EXCEPT !.at = "next", !.step = @ + 1, !.attempt = 0] /\ output' = output
  BY DEF NextStep
<1>2. runner \in RunnerState
  BY DEF RunnerInv, RunnerTypes
<1>3. "next" \in Stages /\ runner.step + 1 \in Nat /\ 0 \in Nat
  BY <1>2 DEF Stages, RunnerState
<1>4. /\ runner' \in RunnerState /\ runner'.at = "next" /\ runner'.step = runner.step + 1
      /\ runner'.aborted = runner.aborted
  BY <1>1, <1>2, <1>3 DEF RunnerState
<1>5. runner.at \notin SequenceOver \union {"waiting", "attached"}
  BY DEF SequenceOver
<1>6. steps # NoSteps
  BY <1>5, AlwaysAStep
<1> QED BY <1>1, <1>4, <1>5, <1>6, SequenceGoesOn

\* Another await of the same step, or its first one.
LEMMA SameStepGoesOn ==
  ASSUME RunnerInv, UNCHANGED <<steps, open, output>>, ~Aborted,
         runner.at \notin SequenceOver \union {"waiting"}, steps # NoSteps,
         NEW where \in {"next", "asking"} \union Deriving, NEW n \in Nat,
         runner' = [runner EXCEPT !.at = where, !.attempt = n],
         where # "next" => runner.step <= Len(steps) /\ StepIs("secret")
  PROVE  RunnerInv'
<1>1. runner \in RunnerState
  BY DEF RunnerInv, RunnerTypes
<1>2. where \in Stages
  BY DEF Stages
<1>3. /\ runner' \in RunnerState /\ runner'.at = where /\ runner'.step = runner.step
      /\ runner'.aborted = runner.aborted
  BY <1>1, <1>2 DEF RunnerState
<1> QED BY <1>3, SequenceGoesOn

LEMMA RunnerIsFacts ==
  ASSUME RunnerInv, NEW where, RunnerIs(where)
  PROVE  /\ runner' = [runner EXCEPT !.at = where, !.attempt = runner.attempt]
         /\ output' = output /\ runner.attempt \in Nat
BY DEF RunnerIs, RunnerInv, RunnerTypes, RunnerState

LEMMA FirstStepsKeep ==
  ASSUME RunnerInv,
         StartLogin \/ StepStops \/ StepWaits \/ StepSends \/ StepTypesSecret
  PROVE  RunnerInv'
<1>0. /\ UNCHANGED <<steps, open>>
      /\ "done" \in SequenceOver /\ "failed" \in SequenceOver
      /\ {"attached", "next"} \intersect (SequenceOver \union Deriving \union {"waiting"}) = {}
  BY DEF StartLogin, StepStops, StepWaits, StepSends, StepTypesSecret, SequenceOver, Deriving
<1>1. CASE StartLogin
  <2>1. runner.at = "attached" /\ ~Aborted
    BY <1>0, <1>1 DEF StartLogin, RunnerInv, StopsAtOnce
  <2>2. CASE steps = NoSteps
    BY <1>0, <1>1, <2>2, SequenceEnds DEF StartLogin
  <2>3. CASE steps # NoSteps
    <3>1. RunnerIs("next")
      BY <1>1, <2>3 DEF StartLogin
    <3> QED BY <1>0, <2>1, <2>3, <3>1, RunnerIsFacts, SameStepGoesOn
  <2> QED BY <2>2, <2>3
<1>2. CASE StepStops
  BY <1>0, <1>2, StoppedEnds, SequenceEnds DEF StepStops
<1>3. CASE StepWaits \/ StepSends \/ StepTypesSecret
  <2>1. /\ runner.at = "next" /\ ~Aborted /\ runner.step <= Len(steps)
    BY <1>3 DEF StepWaits, StepSends, StepTypesSecret, NextIs
  <2>2. /\ steps # NoSteps /\ runner.step \in 1 .. Len(steps) + 1 /\ Len(steps) \in Nat
    BY <1>0, <2>1, AlwaysAStep
  <2>3. runner.step \in 1 .. Len(steps)
    BY <2>1, <2>2
  <2>4. CASE StepWaits
    <3>1. StepIs("wait") /\ (Checks \/ Finishes("failed"))
      BY <2>4 DEF StepWaits, NextIs
    <3> QED BY <1>0, <2>1, <2>2, <2>3, <3>1, ChecksKeep, SequenceEnds
  <2>5. CASE StepSends
    <3>1. ~StepIs("wait") /\ NextStep
      BY <2>5 DEF StepSends, NextIs, StepIs
    <3> QED BY <1>0, <2>1, <3>1, NextStepGoesOn
  <2>6. CASE StepTypesSecret
    <3>1. StepIs("secret") /\ ~StepIs("wait")
          /\ (NextStep \/ RunnerIs("asking") \/ Finishes("failed"))
      BY <2>6 DEF StepTypesSecret, NextIs, StepIs
    <3>2. CASE RunnerIs("asking")
      BY <1>0, <2>1, <2>2, <3>1, <3>2, RunnerIsFacts, SameStepGoesOn
    <3> QED BY <1>0, <2>1, <3>1, <3>2, NextStepGoesOn, SequenceEnds
  <2> QED BY <1>3, <2>4, <2>5, <2>6
<1> QED BY <1>1, <1>2, <1>3

LEMMA QueuedCheckKeeps == ASSUME RunnerInv, QueuedCheck PROVE RunnerInv'
<1>0. UNCHANGED <<steps, open>> /\ "waiting" \notin SequenceOver \union Deriving \union {"attached"}
  BY DEF QueuedCheck, SequenceOver, Deriving
<1>1. CASE runner.at = "waiting"
  <2>1. Checks
    BY <1>1 DEF QueuedCheck
  <2>2. ~Aborted /\ StepIs("wait") /\ runner.step <= Len(steps)
    BY <1>0, <1>1 DEF RunnerInv, StopsAtOnce, StepInPlace
  <2>3. steps # NoSteps /\ runner.step \in 1 .. Len(steps) + 1 /\ Len(steps) \in Nat
    BY <1>0, <1>1, AlwaysAStep
  <2>4. runner.step \in 1 .. Len(steps)
    BY <2>2, <2>3
  <2> QED BY <1>0, <1>1, <2>1, <2>2, <2>3, <2>4, ChecksKeep
<1>2. CASE runner.at # "waiting"
  <2>1. runner' = [runner EXCEPT !.queued = FALSE] /\ output' = output
    BY <1>2 DEF QueuedCheck
  <2>2. runner \in RunnerState
    BY DEF RunnerInv, RunnerTypes
  <2>3. /\ runner' \in RunnerState /\ runner'.at = runner.at /\ runner'.step = runner.step
        /\ runner'.aborted = runner.aborted
    BY <2>1, <2>2 DEF RunnerState
  <2>4. RunnerTypes'
    BY <1>0, <2>1, <2>3 DEF RunnerInv, RunnerTypes
  <2>5. StepInPlace' /\ SearchResumes' /\ StopsAtOnce'
    BY <1>0, <1>2, <2>1, <2>3
       DEF RunnerInv, StepInPlace, StepIs, SearchResumes, StopsAtOnce, Aborted
  <2>6. EachMatchIsNew'
    BY <1>0, <2>1, <2>3, SameMatched DEF RunnerInv, EachMatchIsNew, SequenceActive
  <2> QED BY <2>4, <2>5, <2>6 DEF RunnerInv
<1> QED BY <1>1, <1>2

LEMMA SecretsKeep ==
  ASSUME RunnerInv, MasterPasswordGiven \/ SecretDecrypted \/ SecretRefused
  PROVE  RunnerInv'
<1>0. /\ UNCHANGED <<steps, open>> /\ "failed" \in SequenceOver
      /\ "asking" \notin SequenceOver \union Deriving
      /\ runner.at \in Deriving \union {"asking"}
      /\ runner.at \notin SequenceOver \union {"waiting", "attached"}
  BY DEF MasterPasswordGiven, SecretDecrypted, SecretRefused, SequenceOver, Deriving
<1>1. /\ runner.step <= Len(steps) /\ StepIs("secret") /\ ~StepIs("wait")
  BY <1>0 DEF RunnerInv, StepInPlace, StepIs
<1>2. steps # NoSteps
  BY <1>0, AlwaysAStep
<1>3. CASE MasterPasswordGiven
  <2>1. ~Aborted
    BY <1>0, <1>3 DEF MasterPasswordGiven, RunnerInv, StopsAtOnce
  <2>2. CASE Finishes("failed")
    BY <1>0, <2>2, SequenceEnds
  <2>3. CASE ~Finishes("failed")
    <3>1. PICK password \in Deriving :
            runner' = [runner EXCEPT !.at = password, !.attempt = @ + 1] /\ UNCHANGED output
      BY <1>3, <2>3 DEF MasterPasswordGiven, Deriving
    <3>2. runner \in RunnerState
      BY DEF RunnerInv, RunnerTypes
    <3>3. runner.attempt + 1 \in Nat
      BY <3>2 DEF RunnerState
    <3>4. PICK n \in Nat : n = runner.attempt + 1
      BY <3>3
    <3>5. runner' = [runner EXCEPT !.at = password, !.attempt = n]
      BY <3>1, <3>4
    <3> QED BY <1>0, <1>1, <1>2, <2>1, <3>1, <3>5, SameStepGoesOn
  <2> QED BY <2>2, <2>3
<1>4. CASE SecretDecrypted
  <2>1. RunnerStopped \/ (~Aborted /\ NextStep)
    BY <1>4 DEF SecretDecrypted
  <2>2. runner.at = "deriving"
    BY <1>4 DEF SecretDecrypted
  <2> QED BY <1>0, <1>1, <2>1, <2>2, StoppedEnds, NextStepGoesOn
<1>5. CASE SecretRefused
  <2>1. RunnerStopped \/ Finishes("failed") \/ (~Aborted /\ RunnerIs("asking"))
    BY <1>5 DEF SecretRefused
  <2>2. CASE ~Aborted /\ RunnerIs("asking")
    BY <1>0, <1>1, <1>2, <2>2, RunnerIsFacts, SameStepGoesOn
  <2> QED BY <1>0, <2>1, <2>2, StoppedEnds, SequenceEnds
<1> QED BY <1>3, <1>4, <1>5

LEMMA RunnerKeeps == ASSUME RunnerInv, [TypingNext]_typingVars PROVE RunnerInv'
<1>1. CASE StartLogin \/ StepStops \/ StepWaits \/ StepSends \/ StepTypesSecret
  BY <1>1, FirstStepsKeep
<1>2. ASSUME NEW c \in Char, Receives(c)
      PROVE  RunnerInv'
  BY <1>2, ReceivesKeeps
<1>3. CASE QueuedCheck \/ MasterPasswordGiven \/ SecretDecrypted \/ SecretRefused
  BY <1>3, QueuedCheckKeeps, SecretsKeep
<1>4. CASE WaitTimesOut
  <2>1. "failed" \in SequenceOver /\ Finishes("failed") /\ UNCHANGED <<steps, open>>
    BY <1>4 DEF SequenceOver, WaitTimesOut
  <2> QED BY <2>1, SequenceEnds
<1>5. CASE CancelLogin
  <2>1. Turn /\ Aborts("cancelled") /\ UNCHANGED <<steps, open>>
    BY <1>5 DEF CancelLogin
  <2>2. open' \in BOOLEAN
    BY <2>1 DEF RunnerInv, RunnerTypes
  <2> QED BY <2>1, <2>2, AbortsKeep
<1>6. CASE SocketCloses
  <2>1. Turn /\ Aborts("closed") /\ UNCHANGED steps /\ open' = FALSE
    BY <1>6 DEF SocketCloses
  <2> QED BY <2>1, AbortsKeep
<1>7. CASE \/ UserTypes \/ PasteStarts \/ PasteWrites \/ PasteEnds \/ Tick \/ IdleCheck
           \/ UNCHANGED typingVars
  <2>1. UNCHANGED <<steps, runner, output, open>>
    BY <1>7 DEF UserTypes, PasteStarts, PasteWrites, PasteEnds, Tick, IdleCheck, typingVars
  <2> QED BY <2>1, RunnerUnmoved
<1> QED BY <1>1, <1>2, <1>3, <1>4, <1>5, <1>6, <1>7 DEF TypingNext

LEMMA TimersFacts ==
  ASSUME IdleInv, afterFirst \in BOOLEAN
  PROVE  /\ WaitBegun(idle) \in IdleState /\ WaitBegun(idle).at = "running"
         /\ WaitBegun(idle).age = 0
         /\ Input(idle) \in IdleState /\ Input(idle).age = 0
         /\ Input(idle).at = IF idle.at = "armed" THEN "running" ELSE idle.at
<1>1. 0 \in 0 .. Interval /\ Interval \in 0 .. Interval
  BY TypingAssumption
<1>2. idle \in IdleState
  BY DEF IdleInv
<1>3. /\ WaitBegun(idle) \in IdleState /\ WaitBegun(idle).at = "running"
      /\ WaitBegun(idle).age = 0
  BY <1>1, <1>2 DEF WaitBegun, IdleState
<1>4. CASE idle.at = "armed"
  BY <1>3, <1>4 DEF Input
<1>5. CASE idle.at # "armed"
  <2>1. Input(idle) = [idle EXCEPT !.age = 0]
    BY <1>5 DEF Input
  <2> QED BY <1>1, <1>2, <1>3, <1>5, <2>1 DEF IdleState
<1> QED BY <1>3, <1>4, <1>5

\* The start of the timer: it runs, or waits for the first input.
LEMMA BegunFacts ==
  ASSUME IdleInv, afterFirst \in BOOLEAN, idle.at = "absent"
  PROVE  /\ Begun \in IdleState
         /\ Begun.at = "running" => Begun.age = 0 /\ ~afterFirst
<1>1. idle \in IdleState
  BY DEF IdleInv
<1>2. CASE ~open
  <2>1. Begun = idle
    BY <1>2 DEF Begun
  <2> QED BY <1>1, <2>1
<1>3. CASE open /\ afterFirst
  <2>1. Begun = [idle EXCEPT !.at = "armed"]
    BY <1>3 DEF Begun
  <2>2. Begun \in IdleState /\ Begun.at = "armed"
    BY <1>1, <2>1 DEF IdleState
  <2> QED BY <2>2
<1>4. CASE open /\ ~afterFirst
  <2>1. Begun = WaitBegun(idle)
    BY <1>4 DEF Begun
  <2> QED BY <1>4, <2>1, TimersFacts
<1> QED BY <1>2, <1>3, <1>4

\* Something is typed, and the timer hears of it or begins.
LEMMA TypingTold ==
  ASSUME IdleInv, afterFirst \in BOOLEAN, UNCHANGED afterFirst, NEW who, Types(who),
         who # "idle", who = "send" => ~Aborted, idle' = Input(idle) \/ idle' = Told
  PROVE  IdleInv'
<1>1. quiet' = 0 /\ 0 \in 0 .. Interval
  BY TypingAssumption DEF Types
<1>2. /\ typed' \in [any : BOOLEAN, early : BOOLEAN, late : BOOLEAN]
      /\ typed'.any /\ ~typed'.early /\ ~typed'.late
  <2>1. /\ typed' = [any |-> TRUE, early |-> typed.early \/ (who = "idle" /\ ~MayTypeIdly),
                     late |-> typed.late \/ (who = "send" /\ Aborted)]
    BY DEF Types
  <2>2. ~(typed.early \/ (who = "idle" /\ ~MayTypeIdly))
    BY DEF IdleInv
  <2>3. ~(typed.late \/ (who = "send" /\ Aborted))
    BY DEF IdleInv
  <2>4. typed' = [any |-> TRUE, early |-> FALSE, late |-> FALSE]
    BY <2>1, <2>2, <2>3
  <2>5. TRUE \in BOOLEAN /\ FALSE \in BOOLEAN
    OBVIOUS
  <2> QED BY <2>4, <2>5
<1>3. idle' \in IdleState /\ (idle'.at = "running" => idle'.age = 0)
  <2>1. CASE idle' = Input(idle)
    BY <2>1, TimersFacts
  <2>2. CASE idle' = Told
    <3>1. CASE idle.at = "absent"
      <4>1. idle' = Begun
        BY <2>2, <3>1 DEF Told
      <4> QED BY <3>1, <4>1, BegunFacts
    <3>2. CASE idle.at # "absent"
      <4>1. idle' = Input(idle)
        BY <2>2, <3>2 DEF Told
      <4> QED BY <4>1, TimersFacts
    <3> QED BY <3>1, <3>2
  <2> QED BY <2>1, <2>2
<1> QED BY <1>1, <1>2, <1>3 DEF IdleInv

LEMMA NothingTyped ==
  ASSUME IdleInv, afterFirst \in BOOLEAN, UNCHANGED afterFirst, TypesNothing,
         idle' = idle \/ idle' = NotTold
  PROVE  IdleInv'
<1>1. CASE idle' = idle
  BY <1>1 DEF IdleInv, TypesNothing
<1>2. CASE idle.at = "absent" /\ idle' = Begun
  <2>1. idle' \in IdleState /\ (idle'.at = "running" => idle'.age = 0 /\ ~afterFirst)
    BY <1>2, BegunFacts
  <2>2. quiet \in 0 .. Interval /\ (0 <= quiet)
    BY TypingAssumption DEF IdleInv
  <2> QED BY <2>1, <2>2 DEF IdleInv, TypesNothing
<1> QED BY <1>1, <1>2 DEF NotTold

LEMMA TickKeeps == ASSUME IdleInv, Tick PROVE IdleInv'
<1>1. Interval \in Nat \ {0} /\ idle \in IdleState /\ quiet \in 0 .. Interval
  BY TypingAssumption DEF IdleInv
<1>2. /\ quiet' = Capped(quiet) /\ UNCHANGED <<typed, afterFirst>>
      /\ idle' = IF idle.at # "running" THEN idle
                 ELSE [idle EXCEPT !.age = Capped(@), !.timer = IF @ > 0 THEN @ - 1 ELSE 0]
  BY DEF Tick
<1>3. ASSUME NEW n \in 0 .. Interval
      PROVE  Capped(n) \in 0 .. Interval /\ \A m \in 0 .. n : Capped(m) <= Capped(n)
  BY <1>1, <1>3 DEF Capped
<1>4. CASE idle.at # "running"
  BY <1>1, <1>2, <1>3, <1>4 DEF IdleInv
<1>5. CASE idle.at = "running"
  <2>1. idle.age \in 0 .. Interval /\ idle.timer \in 0 .. Interval /\ idle.age <= quiet
    BY <1>1, <1>5 DEF IdleState, IdleInv
  <2>2. idle.age \in 0 .. quiet
    BY <1>1, <2>1
  <2>3. PICK t \in 0 .. Interval : t = IF idle.timer > 0 THEN idle.timer - 1 ELSE 0
    BY <1>1, <2>1
  <2>4. PICK a \in 0 .. Interval : a = Capped(idle.age)
    BY <1>3, <2>1
  <2>5. idle' = [idle EXCEPT !.age = a, !.timer = t]
    BY <1>2, <1>5, <2>3, <2>4
  <2>6. idle' \in IdleState /\ idle'.age = a /\ idle'.at = idle.at
    BY <1>1, <2>5 DEF IdleState
  <2>7. a <= quiet'
    BY <1>1, <1>2, <1>3, <2>2, <2>4
  <2>8. quiet' \in 0 .. Interval
    BY <1>1, <1>2, <1>3
  <2> QED BY <1>2, <2>6, <2>7, <2>8 DEF IdleInv
<1> QED BY <1>4, <1>5

LEMMA IdleCheckKeeps == ASSUME IdleInv, afterFirst \in BOOLEAN, IdleCheck PROVE IdleInv'
<1>1. /\ Interval \in Nat \ {0} /\ idle \in IdleState /\ quiet \in 0 .. Interval
      /\ typed \in [any : BOOLEAN, early : BOOLEAN, late : BOOLEAN]
      /\ idle.age \in 0 .. Interval /\ idle.age <= quiet /\ (afterFirst => typed.any)
      /\ idle.at = "running" /\ UNCHANGED afterFirst
  BY TypingAssumption DEF IdleInv, IdleCheck, IdleState
<1>2. IdleFor \in 0 .. Interval /\ IdleFor <= idle.age
  BY <1>1 DEF IdleFor
<1>3. TRUE \in BOOLEAN /\ FALSE \in BOOLEAN
  OBVIOUS
<1>4. CASE IdleHeld
  <2>1. idle' = [idle EXCEPT !.held = TRUE, !.timer = 1] /\ TypesNothing
    BY <1>4 DEF IdleHeld
  <2>2. 1 \in 0 .. Interval
    BY <1>1
  <2>3. idle' \in IdleState /\ idle'.at = idle.at /\ idle'.age = idle.age
    BY <1>1, <1>3, <2>1, <2>2 DEF IdleState
  <2> QED BY <1>1, <2>1, <2>3 DEF IdleInv, TypesNothing
<1>5. CASE IdleWaits
  <2>1. PICK n \in 0 .. Interval : n = IdleFor
    BY <1>2
  <2>2. PICK t \in 0 .. Interval : t = Interval - n
    BY <1>1, <2>1
  <2>3. idle' = [idle EXCEPT !.held = FALSE, !.age = n, !.timer = t] /\ TypesNothing
    BY <1>5, <2>1, <2>2 DEF IdleWaits
  <2>4. idle' \in IdleState /\ idle'.at = idle.at /\ idle'.age = n
    BY <1>1, <1>3, <2>3 DEF IdleState
  <2>5. n <= quiet
    BY <1>1, <1>2, <2>1
  <2> QED BY <1>1, <2>3, <2>4, <2>5 DEF IdleInv, TypesNothing
<1>6. CASE IdleTypes
  <2>1. /\ ~Busy /\ IdleFor >= Interval /\ Types("idle")
        /\ idle' = [idle EXCEPT !.held = FALSE, !.age = 0, !.timer = Interval]
    BY <1>6 DEF IdleTypes
  <2>2. quiet = Interval
    BY <1>1, <1>2, <2>1
  <2>3. MayTypeIdly
    BY <1>1, <2>1, <2>2 DEF MayTypeIdly
  <2>4. typed' = [any |-> TRUE, early |-> FALSE, late |-> FALSE]
    <3>1. "idle" # "send" /\ ~typed.early /\ ~typed.late
      BY DEF IdleInv
    <3>2. ~(typed.early \/ ("idle" = "idle" /\ ~MayTypeIdly))
          /\ ~(typed.late \/ ("idle" = "send" /\ Aborted))
      BY <2>3, <3>1
    <3> QED BY <2>1, <3>2 DEF Types
  <2>5. 0 \in 0 .. Interval /\ Interval \in 0 .. Interval
    BY <1>1
  <2>6. idle' \in IdleState /\ idle'.age = 0 /\ quiet' = 0
    BY <1>1, <1>3, <2>1, <2>5 DEF IdleState, Types
  <2> QED BY <1>1, <1>3, <2>4, <2>5, <2>6 DEF IdleInv
<1> QED BY <1>4, <1>5, <1>6 DEF IdleCheck

LEMMA IdleKeeps ==
  ASSUME IdleInv, afterFirst \in BOOLEAN, [TypingNext]_typingVars
  PROVE  IdleInv'
<1>1. CASE StartLogin
  <2>1. idle' = Begun \/ idle' = idle
    BY <1>1 DEF StartLogin
  <2>2. idle.at = "absent" /\ TypesNothing /\ UNCHANGED afterFirst
    BY <1>1 DEF StartLogin
  <2>3. idle' = NotTold \/ idle' = idle
    BY <2>1, <2>2 DEF NotTold
  <2> QED BY <2>2, <2>3, NothingTyped
<1>2. CASE StepStops \/ StepWaits
  BY <1>2, NothingTyped DEF StepStops, StepWaits
<1>3. CASE StepSends
  <2>1. Types("send") /\ idle' = Told /\ ~Aborted /\ UNCHANGED afterFirst
    BY <1>3 DEF StepSends, NextIs
  <2> QED BY <2>1, TypingTold
<1>4. CASE StepTypesSecret
  <2>1. /\ (Types("secret") /\ idle' = Told) \/ (TypesNothing /\ idle' = NotTold)
        /\ UNCHANGED afterFirst
    BY <1>4 DEF StepTypesSecret
  <2>2. "secret" # "idle" /\ "secret" # "send"
    OBVIOUS
  <2> QED BY <2>1, <2>2, TypingTold, NothingTyped
<1>5. CASE SecretDecrypted
  <2>1. /\ (Types("secret") /\ idle' = Input(idle)) \/ (TypesNothing /\ idle' = idle)
        /\ UNCHANGED afterFirst
    BY <1>5 DEF SecretDecrypted
  <2>2. "secret" # "idle" /\ "secret" # "send"
    OBVIOUS
  <2> QED BY <2>1, <2>2, TypingTold, NothingTyped
<1>6. CASE UserTypes \/ PasteStarts \/ PasteWrites
  <2>1. PICK who \in {"user", "paste"} : Types(who) /\ idle' = Input(idle) /\ UNCHANGED afterFirst
    BY <1>6 DEF UserTypes, PasteStarts, PasteWrites
  <2> QED BY <2>1, TypingTold
<1>7. CASE SocketCloses
  <2>1. /\ idle' = [at |-> "closed", timer |-> 0, age |-> 0, held |-> FALSE]
        /\ UNCHANGED <<quiet, typed>>
    BY <1>7 DEF SocketCloses
  <2>2. 0 \in 0 .. Interval /\ FALSE \in BOOLEAN
    BY TypingAssumption
  <2>3. idle' \in IdleState /\ idle'.at = "closed"
    BY <2>1, <2>2 DEF IdleState
  <2> QED BY <2>1, <2>3 DEF IdleInv
<1>8. CASE Tick \/ IdleCheck
  BY <1>8, TickKeeps, IdleCheckKeeps
<1>9. CASE \/ \E c \in Char : Receives(c)
           \/ QueuedCheck \/ WaitTimesOut \/ MasterPasswordGiven \/ SecretRefused
           \/ CancelLogin \/ PasteEnds \/ UNCHANGED typingVars
  <2>1. UNCHANGED <<idle, quiet, typed, afterFirst>>
    BY <1>9 DEF Receives, QueuedCheck, WaitTimesOut, MasterPasswordGiven, SecretRefused,
                CancelLogin, PasteEnds, typingVars
  <2> QED BY <2>1 DEF IdleInv
<1> QED BY <1>1, <1>2, <1>3, <1>4, <1>5, <1>6, <1>7, <1>8, <1>9 DEF TypingNext

LEMMA TypingStarts == TypingInit => TypingInv
<1> SUFFICES ASSUME TypingInit
             PROVE  TypingInv
  OBVIOUS
<1>1. /\ runner = [at |-> "attached", step |-> 1, aborted |-> "no", queued |-> FALSE,
                   attempt |-> 0]
      /\ output = NoOutput /\ open = TRUE /\ steps \in LoginSequences \union {NoSteps}
  BY DEF TypingInit
<1>2. /\ "attached" \in Stages /\ 1 \in Nat /\ 0 \in Nat /\ FALSE \in BOOLEAN /\ TRUE \in BOOLEAN
      /\ "attached" \notin SequenceOver \union Deriving \union {"waiting", "asking"}
  BY DEF Stages, SequenceOver, Deriving
<1>3. RunnerTypes
  BY <1>1, <1>2, NoOutputFacts DEF RunnerTypes, RunnerState
<1>4. StepInPlace
  <2>1. steps # NoSteps => 1 \in 1 .. Len(steps) + 1
    BY <1>3, StepsOfSequence
  <2> QED BY <1>1, <1>2, <2>1 DEF StepInPlace
<1>5. SearchResumes /\ StopsAtOnce
  BY <1>1, <1>2, NoOutputFacts DEF SearchResumes, StopsAtOnce, Aborted
<1>6. EachMatchIsNew
  <2>1. SUFFICES ASSUME steps # NoSteps
                 PROVE  MatchedLength + Len(output.text) <= output.received
    BY DEF EachMatchIsNew
  <2>2. MatchedLength = 0
    <3>1. MatchedUpTo(1) = 0
      BY <1>3, <2>1, MatchedAddsUp
    <3> QED BY <1>1, <3>1 DEF MatchedLength, MatchedUpTo
  <2> QED BY <1>1, <2>2 DEF NoOutput
<1>7. IdleInv
  <2>1. /\ idle = [at |-> "absent", timer |-> 0, age |-> 0, held |-> FALSE]
        /\ quiet = Interval /\ typed = [any |-> FALSE, early |-> FALSE, late |-> FALSE]
    BY DEF TypingInit
  <2>2. 0 \in 0 .. Interval /\ Interval \in 0 .. Interval
    BY TypingAssumption
  <2> QED BY <1>2, <2>1, <2>2 DEF IdleInv, IdleState
<1> QED BY <1>3, <1>4, <1>5, <1>6, <1>7 DEF TypingInv, RunnerInv, TypingInit

LEMMA AfterFirstStays ==
  ASSUME afterFirst \in BOOLEAN, [TypingNext]_typingVars
  PROVE  afterFirst' \in BOOLEAN
<1>1. UNCHANGED afterFirst
  BY DEF TypingNext, StartLogin, StepStops, StepWaits, StepSends, StepTypesSecret, Receives,
         QueuedCheck, WaitTimesOut, MasterPasswordGiven, SecretDecrypted, SecretRefused,
         CancelLogin, UserTypes, PasteStarts, PasteWrites, PasteEnds, SocketCloses, Tick,
         IdleCheck, typingVars
<1> QED BY <1>1

\* A wait misses nothing that is in the window although a literal is looked for only
\* where it may be new, no text is matched twice, anti-idle text waits for its turn,
\* and a sequence that was stopped sends no more (runner.ts:90-240,
\* output-matcher.ts:143-172, anti-idle.ts:63-106).
THEOREM TypingStaysSound == TypingSpec => []TypingIsSound
<1>1. TypingInv => TypingIsSound
  <2> SUFFICES ASSUME TypingInv
               PROVE  TypingIsSound
    OBVIOUS
  <2>1. RunnerInv /\ IdleInv
    BY DEF TypingInv
  <2>2. NothingIsMissed
    <3>1. runner.at = "waiting" /\ ~runner.queued
            => \A i \in 1 .. Len(output.text) :
                 ~Occurs(steps[runner.step].pattern, output.text, i)
      BY <2>1 DEF RunnerInv, SearchResumes, StillToSee
    <3> QED BY <2>1, <3>1, NowhereFound DEF NothingIsMissed, RunnerInv
  <2>3. EachMatchIsNew /\ IdleTextWaits
    BY <2>1 DEF RunnerInv, IdleInv, IdleTextWaits
  <2>4. StoppedMeansStopped
    BY <2>1 DEF RunnerInv, IdleInv, StopsAtOnce, StoppedMeansStopped, SequenceActive
  <2> QED BY <2>2, <2>3, <2>4 DEF TypingIsSound
<1>2. TypingInv /\ [TypingNext]_typingVars => TypingInv'
  BY RunnerKeeps, IdleKeeps, AfterFirstStays DEF TypingInv
<1> QED BY <1>1, <1>2, TypingStarts, PTL DEF TypingSpec

=============================================================================
