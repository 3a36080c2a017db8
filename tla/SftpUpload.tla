------------------------------ MODULE SftpUpload ------------------------------
(***************************************************************************)
(* Uploads and editor saves through a temporary file (atomicStreamUpload,  *)
(* atomicTextSave and commitTempFile in server/src/routes/sftp.ts) to one  *)
(* destination.  Each of their SFTP requests may be refused, and the       *)
(* connection may be lost with a request that was or was not executed.     *)
(***************************************************************************)
EXTENDS Integers, FiniteSets

CONSTANT Upload

ASSUME UploadAssumption == Upload \intersect {"none", "old", "truncated"} = {}

VARIABLES
  destination,  \* what the destination holds: "none", "old", "truncated" or an upload's file
  temp,         \* temp[u]: the temporary file of u: "none", "partial" or "whole"
  upload,       \* upload[u]: where u is, its flag, and what its rename replaced
  server,       \* what the server supports, and whether the connection is up
  existed       \* whether there was a destination to begin with (for the properties)

uploadVars == <<destination, temp, upload, server, existed>>

UploadInit ==
  /\ destination \in {"none", "old"}
  /\ temp = [u \in Upload |-> "none"]
  /\ upload = [u \in Upload |-> [step |-> "idle", overwrite |-> FALSE, replaced |-> "none"]]
  /\ server \in [posixRename : BOOLEAN, renameReplaces : BOOLEAN, up : {TRUE}]
  /\ existed = (destination # "none")

At(u, step) == upload[u].step = step
Goes(u, step) == upload' = [upload EXCEPT ![u].step = step]
InProgress(u) == upload[u].step \notin {"idle", "done", "failed", "refused"}

Exists == destination # "none"

-----------------------------------------------------------------------------
(* Requests: answered, refused, or unanswered because the connection is lost. *)

RequestAnswered == UNCHANGED server
ConnectionGone == server' = [server EXCEPT !.up = FALSE]
NotExecuted == (server.up /\ RequestAnswered) \/ ConnectionGone

\* The server renames u's file onto the destination.
MovedToDestination(u, next) ==
  /\ destination' = IF temp[u] = "whole" THEN u ELSE "truncated"
  /\ temp' = [temp EXCEPT ![u] = "none"]
  /\ upload' = [upload EXCEPT ![u].step = next, ![u].replaced = destination]

\* A rename request of u that goes on at `failed` unless it is confirmed.
RenameRequest(u, permitted, failed) ==
  \/ server.up /\ permitted /\ RequestAnswered /\ MovedToDestination(u, "done")
  \/ server.up /\ permitted /\ ConnectionGone /\ MovedToDestination(u, failed)
  \/ NotExecuted /\ Goes(u, failed) /\ UNCHANGED <<destination, temp>>

-----------------------------------------------------------------------------
(* The steps of an upload *)

\* The route's checks: an editor save needs a file, an upload that may not
\* overwrite needs none.  'wx' creates the temporary file.
BeginUpload(u) ==
  /\ At(u, "idle") /\ server.up
  /\ \E overwrite \in BOOLEAN :
       IF Exists /\ ~overwrite
       THEN Goes(u, "refused") /\ UNCHANGED temp
       ELSE /\ upload' = [upload EXCEPT ![u].step = "writing", ![u].overwrite = overwrite]
            /\ temp' = [temp EXCEPT ![u] = "partial"]
  /\ UNCHANGED <<destination, server, existed>>

\* The pipeline ends; a browser that leaves, or the stream, fails it.
Written(u) ==
  /\ At(u, "writing") /\ server.up
  /\ temp' = [temp EXCEPT ![u] = "whole"]
  /\ Goes(u, IF upload[u].overwrite THEN "posix rename" ELSE "look")
  /\ UNCHANGED <<destination, server, existed>>

WriteFails(u) ==
  /\ At(u, "writing")
  /\ NotExecuted /\ Goes(u, "clean up")
  /\ UNCHANGED <<destination, temp, existed>>

\* commitTempFile() without overwrite: lstat, then rename.
Look(u) ==
  /\ At(u, "look")
  /\ \/ server.up /\ RequestAnswered /\ Goes(u, IF Exists THEN "clean up" ELSE "rename new")
     \/ NotExecuted /\ Goes(u, "clean up")
  /\ UNCHANGED <<destination, temp, existed>>

RenameNew(u) ==
  /\ At(u, "rename new")
  /\ RenameRequest(u, server.renameReplaces \/ ~Exists, "clean up")
  /\ UNCHANGED existed

\* With overwrite: the posix-rename extension, where the server has it.
PosixRename(u) ==
  /\ At(u, "posix rename")
  /\ IF server.posixRename THEN RenameRequest(u, TRUE, "clean up")
     ELSE Goes(u, "rename") /\ UNCHANGED <<destination, temp, server>>
  /\ UNCHANGED existed

\* Base SFTP rename first, then the unlink and rename fallback.
Rename(u) ==
  /\ At(u, "rename")
  /\ RenameRequest(u, server.renameReplaces \/ ~Exists, "unlink")
  /\ UNCHANGED existed

UnlinkDestination(u) ==
  /\ At(u, "unlink")
  /\ \/ /\ server.up /\ Exists /\ destination' = "none"
        /\ \/ RequestAnswered /\ Goes(u, "rename again")
           \/ ConnectionGone /\ Goes(u, "clean up")
     \/ NotExecuted /\ Goes(u, "clean up") /\ UNCHANGED destination
  /\ UNCHANGED <<temp, existed>>

RenameAgain(u) ==
  /\ At(u, "rename again")
  /\ RenameRequest(u, server.renameReplaces \/ ~Exists, "clean up")
  /\ UNCHANGED existed

\* Variant: only the pipeline is inside the try block.
RemovedAfterStream(u) == server.up /\ temp[u] = "partial"

\* unlinkIfPresent(): best effort; it removes what it created while connected.
Removed(u) == server.up

CleanUp(u) ==
  /\ At(u, "clean up")
  /\ Goes(u, "failed")
  /\ temp' = [temp EXCEPT ![u] = IF Removed(u) THEN "none" ELSE @]
  /\ UNCHANGED <<destination, server, existed>>

UploadNext ==
  \E u \in Upload :
    \/ BeginUpload(u) \/ Written(u) \/ WriteFails(u) \/ Look(u) \/ RenameNew(u)
    \/ PosixRename(u) \/ Rename(u) \/ UnlinkDestination(u) \/ RenameAgain(u) \/ CleanUp(u)

UploadSpec == UploadInit /\ [][UploadNext]_uploadVars

-----------------------------------------------------------------------------
UploadTypeOK ==
  /\ destination \in {"none", "old", "truncated"} \union Upload
  /\ temp \in [Upload -> {"none", "partial", "whole"}]
  /\ \A u \in Upload : upload[u].replaced \in {"none", "old"} \union Upload

\* The destination never holds part of a file, an upload that ended leaves no
\* temporary file while the connection lives, and one that was not to
\* overwrite has replaced nothing on a server whose rename does not, though
\* another may have created the destination meanwhile (atomicStreamUpload and
\* commitTempFile, routes/sftp.ts:455-505).
UploadsAreWhole ==
  /\ destination # "truncated"
  /\ \A u \in Upload :
       /\ server.up /\ ~InProgress(u) => temp[u] = "none"
       /\ At(u, "done") /\ ~upload[u].overwrite /\ ~server.renameReplaces
            => upload[u].replaced = "none"

\* "If the browser disconnects or the SFTP stream fails, only that temporary
\* file is removed" (routes/sftp.ts:451): once no upload is running, and though
\* the connection stays up, a destination that was there still is, old or new.
OnlyTempIsRemoved ==
  existed /\ server.up /\ (\A u \in Upload : ~InProgress(u)) => Exists
=============================================================================
