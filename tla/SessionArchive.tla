---------------------------- MODULE SessionArchive ----------------------------
(***************************************************************************)
(* What the session history promises of a record, whatever the threads,    *)
(* queues and files behind it do and whenever the application dies:        *)
(* a record is written while its session is active, at its end only;       *)
(* a rotation forgets its oldest events; once ended it never changes       *)
(* until it is deleted, and an active one is never deleted                 *)
(* (docs/guide/session-history.md, "Storage, quotas and eviction").        *)
(***************************************************************************)
EXTENDS Integers, FiniteSets

CONSTANT Session

VARIABLES
  status,      \* status[s]: "none", "active", "ended" or "deleted"
  transcript   \* transcript[s]: the sequence numbers of the retained events

archiveVars == <<status, transcript>>

ArchiveInit ==
  /\ status = [s \in Session |-> "none"]
  /\ transcript = [s \in Session |-> {}]

ArchiveBegin(s) ==
  /\ status[s] = "none"
  /\ status' = [status EXCEPT ![s] = "active"]
  /\ UNCHANGED transcript

\* New events follow every retained one.
ArchiveRecord(s) ==
  /\ status[s] = "active"
  /\ transcript[s] \subseteq transcript'[s]
  /\ \A old \in transcript[s], new \in transcript'[s] \ transcript[s] : old < new
  /\ transcript' = [transcript EXCEPT ![s] = transcript'[s]]
  /\ UNCHANGED status

\* Rotation forgets the oldest events.
ArchiveTrim(s) ==
  /\ status[s] = "active"
  /\ transcript'[s] \subseteq transcript[s]
  /\ \A gone \in transcript[s] \ transcript'[s], kept \in transcript'[s] : gone < kept
  /\ transcript' = [transcript EXCEPT ![s] = transcript'[s]]
  /\ UNCHANGED status

\* Sessions end; a shutdown ends all of them.
ArchiveEnd ==
  /\ \E ended \in SUBSET {s \in Session : status[s] = "active"} :
       status' = [s \in Session |-> IF s \in ended THEN "ended" ELSE status[s]]
  /\ UNCHANGED transcript

ArchiveDelete(s) ==
  /\ status[s] = "ended"
  /\ status' = [status EXCEPT ![s] = "deleted"]
  /\ transcript' = [transcript EXCEPT ![s] = {}]

ArchiveNext ==
  \/ ArchiveEnd
  \/ \E s \in Session : \/ ArchiveBegin(s) \/ ArchiveRecord(s)
                        \/ ArchiveTrim(s) \/ ArchiveDelete(s)

ArchiveSpec == ArchiveInit /\ [][ArchiveNext]_archiveVars
=============================================================================
