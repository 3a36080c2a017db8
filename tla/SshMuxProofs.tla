----------------------------- MODULE SshMuxProofs -----------------------------
(***************************************************************************)
(* Proofs about the lease registry and, built on it, about SshMux, for     *)
(* every set of sessions, transports, routes and gestures and every bound  *)
(* on lease ids.  Every step of SshMux is a step of the lease registry, so *)
(* what is proved of ConnectionLeases first holds of it too.               *)
(***************************************************************************)
EXTENDS SshMux, ConnectionLeases, SequenceLemmas

-----------------------------------------------------------------------------
(* The lease registry *)

\* Handles carry ids their record really handed out, and no id twice.
IdsAreIssued ==
  /\ \A h \in Holder : handle[h] # NoHandle => handle[h].id < nextLeaseId[handle[h].conn]
  /\ \A h, k \in Holder :
       /\ handle[h] # NoHandle /\ handle[k] # NoHandle
       /\ handle[h].conn = handle[k].conn /\ handle[h].id = handle[k].id
       => h = k

\* What each record counts is what is held, as long as it is not closing.
RecordsCount ==
  \A c \in Conn :
    /\ closing[c] => leases[c] = {}
    /\ \A i \in leases[c] : \E h \in HoldersOf(c) : handle[h].id = i
    /\ ~closing[c] => \A h \in HoldersOf(c) : handle[h].id \in leases[c]

\* A record that is not closing is leased, mapped and was never closed.
RecordPhases ==
  \A c \in Conn :
    /\ transport[c] = "unborn" <=> nextLeaseId[c] = 1
    /\ transport[c] = "unborn" => ~closing[c] /\ HoldersOf(c) = {}
    /\ transport[c] # "unborn" => (closing[c] \/ leases[c] # {})
    /\ transport[c] # "unborn" => (closing[c] \/ c \in records)
    /\ transport[c] = "open" => ~closing[c]
    /\ ~closing[c] => closeCalls[c] = 0
    /\ closeCalls[c] > 0 /\ c \notin shutDown => HoldersOf(c) = {}
    /\ c \in records => transport[c] # "unborn"

Closings ==
  \A c \in Conn :
    /\ c \in records => c \notin shutDown
    /\ c \notin shutDown => closeCalls[c] <= 1
    /\ closeCalls[c] <= 2
    /\ c \in shutDown => closing[c]

LeaseInv == LeaseTypeOK /\ IdsAreIssued /\ RecordsCount /\ RecordPhases /\ Closings

USE LeaseAssumption

LEMMA InitInv == LeaseInit => LeaseInv
BY DEF LeaseInit, LeaseInv, LeaseTypeOK, LeaseIds, IdsAreIssued, RecordsCount,
       RecordPhases, Closings, HoldersOf, Unreleased, Handle

(***************************************************************************)
(* Who holds a lease after one was handed out, and after one was released. *)
(***************************************************************************)
LEMMA HoldersAfterIssue ==
  ASSUME LeaseTypeOK, NEW h \in Holder, NEW c \in Conn, ~Unreleased(h), Issue(h, c)
  PROVE  /\ \A d \in Conn : HoldersOf(d)' = IF d = c THEN HoldersOf(d) \union {h}
                                                     ELSE HoldersOf(d)
         /\ handle'[h].id = nextLeaseId[c]
         /\ \A k \in Holder : k # h => handle'[k] = handle[k]
<1>1. /\ handle'[h] = [conn |-> c, id |-> nextLeaseId[c], released |-> FALSE]
      /\ \A k \in Holder : k # h => handle'[k] = handle[k]
  BY DEF LeaseTypeOK, Issue, IssueId
<1>2. handle'[h] # NoHandle
  <2>1. handle'[h] \in Handle
    BY <1>1 DEF LeaseTypeOK, LeaseIds, Handle
  <2> QED BY <2>1
<1>3. ASSUME NEW d \in Conn, NEW k \in Holder
      PROVE  k \in HoldersOf(d)' <=> k \in IF d = c THEN HoldersOf(d) \union {h} ELSE HoldersOf(d)
  <2>1. CASE k = h
    BY <1>1, <1>2, <2>1 DEF HoldersOf, Unreleased
  <2>2. CASE k # h
    BY <1>1, <2>2 DEF HoldersOf, Unreleased
  <2> QED BY <2>1, <2>2
<1>4. \A d \in Conn : HoldersOf(d) \subseteq Holder /\ HoldersOf(d)' \subseteq Holder
  BY DEF HoldersOf
<1> QED BY <1>1, <1>3, <1>4

LEMMA HoldersAfterRelease ==
  ASSUME LeaseTypeOK, NEW h \in Holder, Unreleased(h), ReleaseOnce(h, handle[h].conn)
  PROVE  /\ \A d \in Conn : HoldersOf(d)' = HoldersOf(d) \ {h}
         /\ \A k \in Holder : handle'[k].id = handle[k].id /\ handle'[k].conn = handle[k].conn
BY DEF LeaseTypeOK, LeaseIds, ReleaseOnce, HoldersOf, Unreleased, Handle

LEMMA RegisterKeepsInv ==
  ASSUME LeaseInv, NEW h \in Holder, NEW c \in Conn, Register(h, c)
  PROVE  LeaseInv'
<1> USE DEF LeaseInv, LeaseTypeOK, Register, Issue, IssueId
<1>1. LeaseTypeOK'
  BY DEF LeaseIds, Handle, RecordPhases
<1>2. IdsAreIssued'
  BY DEF IdsAreIssued, Handle, LeaseIds
<1>3. RecordsCount'
  <2>1. /\ \A d \in Conn : HoldersOf(d)' = IF d = c THEN HoldersOf(d) \union {h}
                                                    ELSE HoldersOf(d)
        /\ handle'[h].id = nextLeaseId[c]
        /\ \A k \in Holder : k # h => handle'[k] = handle[k]
    BY HoldersAfterIssue DEF Register
  <2>2. h \notin HoldersOf(c) /\ HoldersOf(c) \subseteq Holder
    BY DEF HoldersOf, Register
  <2>3. SUFFICES ASSUME NEW d \in Conn
                 PROVE  /\ closing'[d] => leases'[d] = {}
                        /\ \A i \in leases'[d] : \E k \in HoldersOf(d)' : handle'[k].id = i
                        /\ ~closing'[d] => \A k \in HoldersOf(d)' : handle'[k].id \in leases'[d]
    BY DEF RecordsCount
  <2>4. CASE d = c
    BY <2>1, <2>2, <2>4 DEF RecordsCount, RecordPhases
  <2>5. CASE d # c
    <3>1. HoldersOf(d)' = HoldersOf(d) /\ h \notin HoldersOf(d) /\ HoldersOf(d) \subseteq Holder
      BY <2>1, <2>5 DEF HoldersOf, Register
    <3>2. leases'[d] = leases[d] /\ closing'[d] = closing[d]
      BY <2>5
    <3> QED BY <2>1, <3>1, <3>2 DEF RecordsCount
  <2> QED BY <2>4, <2>5
<1>4. RecordPhases'
  BY DEF RecordPhases, RecordsCount, IdsAreIssued, HoldersOf, Unreleased, Handle, LeaseIds
<1>5. Closings'
  BY DEF Closings, RecordPhases
<1> QED BY <1>1, <1>2, <1>3, <1>4, <1>5

LEMMA AcquireKeepsInv ==
  ASSUME LeaseInv, NEW h \in Holder, NEW c \in Conn, Acquire(h, c)
  PROVE  LeaseInv'
<1> USE DEF LeaseInv, LeaseTypeOK, Acquire, Issue, IssueId
<1>1. LeaseTypeOK'
  BY DEF LeaseIds, Handle
<1>2. IdsAreIssued'
  BY DEF IdsAreIssued, Handle, LeaseIds
<1>3. RecordsCount'
  <2>1. /\ \A d \in Conn : HoldersOf(d)' = IF d = c THEN HoldersOf(d) \union {h}
                                                    ELSE HoldersOf(d)
        /\ handle'[h].id = nextLeaseId[c]
        /\ \A k \in Holder : k # h => handle'[k] = handle[k]
    BY HoldersAfterIssue DEF Acquire
  <2>2. h \notin HoldersOf(c) /\ HoldersOf(c) \subseteq Holder
    BY DEF HoldersOf, Acquire
  <2>3. SUFFICES ASSUME NEW d \in Conn
                 PROVE  /\ closing'[d] => leases'[d] = {}
                        /\ \A i \in leases'[d] : \E k \in HoldersOf(d)' : handle'[k].id = i
                        /\ ~closing'[d] => \A k \in HoldersOf(d)' : handle'[k].id \in leases'[d]
    BY DEF RecordsCount
  <2>4. CASE d = c
    BY <2>1, <2>2, <2>4 DEF RecordsCount, RecordPhases
  <2>5. CASE d # c
    <3>1. HoldersOf(d)' = HoldersOf(d) /\ h \notin HoldersOf(d) /\ HoldersOf(d) \subseteq Holder
      BY <2>1, <2>5 DEF HoldersOf, Acquire
    <3>2. leases'[d] = leases[d] /\ closing'[d] = closing[d]
      BY <2>5
    <3> QED BY <2>1, <3>1, <3>2 DEF RecordsCount
  <2> QED BY <2>4, <2>5
<1>4. RecordPhases'
  BY DEF RecordPhases, RecordsCount, IdsAreIssued, HoldersOf, Unreleased, Handle, LeaseIds
<1>5. Closings'
  BY DEF Closings, RecordPhases
<1> QED BY <1>1, <1>2, <1>3, <1>4, <1>5

LEMMA ReleaseKeepsInv ==
  ASSUME LeaseInv, NEW h \in Holder, Release(h)
  PROVE  LeaseInv'
<1> USE DEF LeaseInv, LeaseTypeOK, Release, ReleaseOnce, LastRelease, Ended, leaseVars, registryVars
<1>1. LeaseTypeOK'
  <2>1. CASE UNCHANGED leaseVars
    BY <2>1
  <2>2. CASE Unreleased(h) /\ ReleaseOnce(h, handle[h].conn)
    <3>1. handle[h] \in Handle
      BY <2>2 DEF Unreleased
    <3>2. handle[h].conn \in Conn /\ [handle[h] EXCEPT !.released = TRUE] \in Handle
      BY <3>1 DEF Handle
    <3>3. handle' \in [Holder -> Handle \union {NoHandle}]
      BY <2>2, <3>2
    <3>4. closing' \in [Conn -> BOOLEAN] /\ closeCalls' \in [Conn -> Nat]
      <4>1. CASE LastRelease(h, handle[h].conn)
        <5>1. /\ closing' = [closing EXCEPT ![handle[h].conn] = TRUE]
              /\ closeCalls' = [closeCalls EXCEPT ![handle[h].conn] = @ + 1]
          BY <2>2, <4>1
        <5>2. closing \in [Conn -> BOOLEAN] /\ closeCalls \in [Conn -> Nat]
          OBVIOUS
        <5>3. closeCalls' \in [Conn -> Nat]
          BY <3>2, <5>1, <5>2
        <5>4. closing' \in [Conn -> BOOLEAN]
          BY <3>2, <5>1, <5>2
        <5> QED BY <5>3, <5>4
      <4>2. CASE ~LastRelease(h, handle[h].conn)
        BY <2>2, <4>2
      <4> QED BY <4>1, <4>2
    <3>6. leases' \in [Conn -> SUBSET LeaseIds]
      BY <2>2, <3>2
    <3>5. transport' \in [Conn -> {"unborn", "open", "ending", "lost", "closed"}]
      BY <2>2, <3>2
    <3> QED BY <2>2, <3>2, <3>3, <3>4, <3>5, <3>6
  <2> QED BY <2>1, <2>2 DEF Unreleased
<1>2. IdsAreIssued'
  BY DEF IdsAreIssued, Handle, LeaseIds
<1>3. RecordsCount'
  <2>1. CASE UNCHANGED leaseVars
    BY <2>1 DEF RecordsCount, HoldersOf, Unreleased, leaseVars, registryVars
  <2>2. CASE Unreleased(h) /\ ReleaseOnce(h, handle[h].conn)
    <3>0. PICK c \in Conn : c = handle[h].conn
      BY <2>2 DEF Unreleased, Handle
    <3>1. /\ \A d \in Conn : HoldersOf(d)' = HoldersOf(d) \ {h}
          /\ \A k \in Holder : handle'[k].id = handle[k].id /\ handle'[k].conn = handle[k].conn
      BY <2>2, HoldersAfterRelease
    <3>2. c = handle[h].conn /\ h \in HoldersOf(c)
      BY <2>2, <3>0 DEF HoldersOf
    <3>3. \A k \in HoldersOf(c) : k # h => handle[k].id # handle[h].id
      BY <3>2 DEF IdsAreIssued, HoldersOf, Unreleased
    <3>4. SUFFICES ASSUME NEW d \in Conn
                   PROVE  /\ closing'[d] => leases'[d] = {}
                          /\ \A i \in leases'[d] : \E k \in HoldersOf(d)' : handle'[k].id = i
                          /\ ~closing'[d] => \A k \in HoldersOf(d)' : handle'[k].id \in leases'[d]
      BY DEF RecordsCount
    <3>5. CASE d = c
      <4>1. leases'[d] = leases[d] \ {handle[h].id}
        BY <2>2, <3>2, <3>5 DEF ReleaseOnce
      <4>2. closing'[d] => leases'[d] = {}
        BY <2>2, <3>2, <3>5, <4>1 DEF ReleaseOnce, LastRelease, RecordsCount
      <4>3. HoldersOf(d)' = HoldersOf(d) \ {h} /\ HoldersOf(d) \subseteq Holder
        BY <3>1 DEF HoldersOf
      <4>4. ~closing'[d] => ~closing[d]
        BY <2>2, <3>2, <3>5 DEF ReleaseOnce, LastRelease
      <4> QED BY <3>1, <3>2, <3>3, <3>5, <4>1, <4>2, <4>3, <4>4 DEF RecordsCount
    <3>6. CASE d # c
      <4>1. HoldersOf(d)' = HoldersOf(d) /\ HoldersOf(d) \subseteq Holder
        BY <3>1, <3>2, <3>6 DEF HoldersOf
      <4>2. leases'[d] = leases[d] /\ closing'[d] = closing[d]
        BY <2>2, <3>2, <3>6 DEF ReleaseOnce
      <4> QED BY <3>1, <4>1, <4>2 DEF RecordsCount
    <3> QED BY <3>5, <3>6
  <2> QED BY <2>1, <2>2 DEF Release, Unreleased
<1>4. RecordPhases'
  <2>1. CASE UNCHANGED leaseVars
    BY <2>1 DEF RecordPhases, HoldersOf, Unreleased, leaseVars, registryVars
  <2>2. CASE Unreleased(h) /\ ReleaseOnce(h, handle[h].conn)
    <3>0. PICK c \in Conn : c = handle[h].conn
      BY <2>2 DEF Unreleased, Handle
    <3>1. \A d \in Conn : HoldersOf(d)' = HoldersOf(d) \ {h}
      BY <2>2, HoldersAfterRelease
    <3>2. c = handle[h].conn /\ h \in HoldersOf(c)
      BY <2>2, <3>0 DEF HoldersOf
    <3>3. ASSUME closing'[c], ~closing[c]
          PROVE  HoldersOf(c)' = {}
      <4>1. LastRelease(h, c)
        BY <2>2, <3>2, <3>3 DEF ReleaseOnce
      <4>2. \A k \in HoldersOf(c) : handle[k].id = handle[h].id
        BY <3>2, <3>3, <4>1 DEF LastRelease, RecordsCount
      <4>3. \A k \in HoldersOf(c) : k = h
        <5>1. SUFFICES ASSUME NEW k \in HoldersOf(c) PROVE k = h
          OBVIOUS
        <5>2. /\ h \in Holder /\ k \in Holder
              /\ handle[h] # NoHandle /\ handle[k] # NoHandle
              /\ handle[h].conn = handle[k].conn /\ handle[h].id = handle[k].id
          BY <3>2, <4>2 DEF HoldersOf, Unreleased
        <5> QED BY <5>2 DEF IdsAreIssued
      <4>4. HoldersOf(c)' = HoldersOf(c) \ {h}
        BY <3>1, <3>2
      <4> QED BY <4>3, <4>4
    <3> QED BY <2>2, <3>1, <3>2, <3>3 DEF ReleaseOnce, LastRelease, RecordPhases, RecordsCount
  <2> QED BY <2>1, <2>2 DEF Release, Unreleased
<1>5. Closings'
  BY DEF Closings, RecordPhases
<1> QED BY <1>1, <1>2, <1>3, <1>4, <1>5

LEMMA LoseKeepsInv ==
  ASSUME LeaseInv, NEW c \in Conn, Lose(c)
  PROVE  LeaseInv'
<1> USE DEF LeaseInv, LeaseTypeOK, Lose, registryVars
<1>1. LeaseTypeOK'
  BY DEF LeaseIds, Handle
<1>2. IdsAreIssued'
  BY DEF IdsAreIssued, Handle, LeaseIds
<1>3. RecordsCount'
  BY DEF RecordsCount, IdsAreIssued, HoldersOf, Unreleased, Handle, LeaseIds
<1>4. RecordPhases'
  BY DEF RecordPhases, RecordsCount, IdsAreIssued, HoldersOf, Unreleased, Handle, LeaseIds
<1>5. Closings'
  BY DEF Closings, RecordPhases
<1> QED BY <1>1, <1>2, <1>3, <1>4, <1>5

LEMMA SocketClosedKeepsInv ==
  ASSUME LeaseInv, NEW c \in Conn, SocketClosed(c)
  PROVE  LeaseInv'
<1> USE DEF LeaseInv, LeaseTypeOK, SocketClosed, MarkClosed
<1>1. LeaseTypeOK'
  BY DEF LeaseIds, Handle
<1>2. IdsAreIssued'
  BY DEF IdsAreIssued, Handle, LeaseIds
<1>3. RecordsCount'
  BY SMTT(30) DEF RecordsCount, IdsAreIssued, HoldersOf, Unreleased, Handle, LeaseIds
<1>4. RecordPhases'
  BY DEF RecordPhases, RecordsCount, IdsAreIssued, HoldersOf, Unreleased, Handle, LeaseIds
<1>5. Closings'
  BY DEF Closings, RecordPhases
<1> QED BY <1>1, <1>2, <1>3, <1>4, <1>5

LEMMA CloseAllKeepsInv ==
  ASSUME LeaseInv, CloseAll
  PROVE  LeaseInv'
<1> USE DEF LeaseInv, LeaseTypeOK, CloseAll, Ended
<1>1. LeaseTypeOK'
  BY DEF LeaseIds, Handle
<1>2. IdsAreIssued'
  BY DEF IdsAreIssued, Handle, LeaseIds
<1>3. RecordsCount'
  BY DEF RecordsCount, IdsAreIssued, HoldersOf, Unreleased, Handle, LeaseIds
<1>0. \A d \in Conn : HoldersOf(d)' = HoldersOf(d)
  BY DEF HoldersOf, Unreleased
<1>4. RecordPhases'
  BY <1>0 DEF RecordPhases, RecordsCount, LeaseIds
<1>5. Closings'
  <2>1. SUFFICES ASSUME NEW c \in Conn
                 PROVE  /\ c \in records' => c \notin shutDown'
                        /\ c \notin shutDown' => closeCalls'[c] <= 1
                        /\ closeCalls'[c] <= 2
                        /\ c \in shutDown' => closing'[c]
    BY DEF Closings
  <2>2. closeCalls'[c] = IF c \in records THEN closeCalls[c] + 1 ELSE closeCalls[c]
    OBVIOUS
  <2>3. closing[c] \/ c \in records => closing'[c]
    OBVIOUS
  <2>4. c \in records => c \notin shutDown /\ closeCalls[c] <= 1
    BY DEF Closings
  <2> QED BY <2>2, <2>3, <2>4 DEF Closings
<1> QED BY <1>1, <1>2, <1>3, <1>4, <1>5

\* The inductive step, one case per action.
LEMMA StepKeepsInv ==
  ASSUME LeaseInv, [LeaseNext]_leaseVars
  PROVE  LeaseInv'
<1>1. ASSUME NEW h \in Holder, NEW c \in Conn, Register(h, c)
      PROVE  LeaseInv'
  BY <1>1, RegisterKeepsInv
<1>2. ASSUME NEW h \in Holder, NEW c \in Conn, Acquire(h, c)
      PROVE  LeaseInv'
  BY <1>2, AcquireKeepsInv
<1>3. ASSUME NEW h \in Holder, Release(h)
      PROVE  LeaseInv'
  BY <1>3, ReleaseKeepsInv
<1>4. ASSUME NEW c \in Conn, Lose(c)
      PROVE  LeaseInv'
  BY <1>4, LoseKeepsInv
<1>5. ASSUME NEW c \in Conn, SocketClosed(c)
      PROVE  LeaseInv'
  BY <1>5, SocketClosedKeepsInv
<1>6. CASE CloseAll
  BY <1>6, CloseAllKeepsInv
<1>7. CASE UNCHANGED leaseVars
  BY <1>7 DEF leaseVars, registryVars, LeaseInv, LeaseTypeOK, IdsAreIssued, RecordsCount,
              RecordPhases, Closings, HoldersOf, Unreleased
<1> QED BY <1>1, <1>2, <1>3, <1>4, <1>5, <1>6, <1>7 DEF LeaseNext

\* The inductive invariant of connection-leases.ts holds for ever.
THEOREM LeaseInvariance == LeaseSpec => []LeaseInv
<1>1. LeaseInit => LeaseInv
  BY InitInv
<1>2. LeaseInv /\ [LeaseNext]_leaseVars => LeaseInv'
  BY StepKeepsInv
<1> QED BY <1>1, <1>2, PTL DEF LeaseSpec

\* Type correctness of the registry's state.
THEOREM LeaseTypes == LeaseSpec => []LeaseTypeOK
<1>1. LeaseInv => LeaseTypeOK
  BY DEF LeaseInv
<1> QED BY <1>1, LeaseInvariance, PTL

\* No consumer loses its transport to another consumer's release
\* (connection-leases.ts:82-88).
THEOREM ReleaseIsPrivate == LeaseSpec => []ClosedAfterLastRelease
<1>1. LeaseInv => ClosedAfterLastRelease
  BY DEF LeaseInv, RecordPhases, ClosedAfterLastRelease
<1> QED BY <1>1, LeaseInvariance, PTL

\* The record of a listed connection counts exactly the leases that are held
\* (connection-leases.ts:64-90).
THEOREM LeaseAccounting == LeaseSpec => []LeasesAreHeld
<1>1. LeaseInv => LeasesAreHeld
  <2>1. SUFFICES ASSUME LeaseInv, NEW c \in Listed
                 PROVE  /\ leases[c] = {handle[h].id : h \in HoldersOf(c)}
                        /\ \A h, k \in HoldersOf(c) : handle[h].id = handle[k].id => h = k
    BY DEF LeasesAreHeld
  <2>2. c \in Conn /\ ~closing[c]
    BY <2>1 DEF Listed, LeaseInv, LeaseTypeOK
  <2>3. leases[c] = {handle[h].id : h \in HoldersOf(c)}
    BY <2>1, <2>2 DEF LeaseInv, RecordsCount
  <2>4. ASSUME NEW h \in HoldersOf(c), NEW k \in HoldersOf(c), handle[h].id = handle[k].id
        PROVE  h = k
    <3>1. /\ h \in Holder /\ k \in Holder
          /\ handle[h] # NoHandle /\ handle[k] # NoHandle
          /\ handle[h].conn = handle[k].conn
      BY DEF HoldersOf, Unreleased
    <3> QED BY <2>1, <2>4, <3>1 DEF LeaseInv, IdsAreIssued
  <2> QED BY <2>3, <2>4
<1> QED BY <1>1, LeaseInvariance, PTL

\* Late and repeated releases never close a transport again
\* (connection-leases.ts:82-109).
THEOREM OneClose == LeaseSpec => []CloseCalledOnce
<1>1. LeaseInv => CloseCalledOnce
  BY DEF LeaseInv, LeaseTypeOK, Closings, CloseCalledOnce
<1> QED BY <1>1, LeaseInvariance, PTL

\* An open transport always has a consumer (connection-leases.ts:82-88).
THEOREM NoTransportLeaks == LeaseSpec => []NoOrphanedTransport
<1>1. LeaseInv => NoOrphanedTransport
  BY DEF LeaseInv, LeaseTypeOK, RecordPhases, RecordsCount, NoOrphanedTransport
<1> QED BY <1>1, LeaseInvariance, PTL

\* The leases are accounted for, and a transport is ended once and not kept up
\* for nobody, in every reachable state (connection-leases.ts:73-109).
THEOREM LeaseSafety == LeaseSpec => []LeasesAreSafe
<1>1. LeasesAreHeld /\ CloseCalledOnce /\ NoOrphanedTransport => LeasesAreSafe
  BY DEF LeasesAreSafe
<1> QED BY <1>1, LeaseAccounting, OneClose, NoTransportLeaks, PTL

\* A closing connection is never handed out again
\* (connection-leases.ts:73-98).
THEOREM ClosingStaysFinal == LeaseSpec => ClosingIsFinal
<1>1. ASSUME LeaseInv, [LeaseNext]_leaseVars, NEW c \in Conn, closing[c]
      PROVE  /\ closing'[c]
             /\ leases'[c] \subseteq leases[c]
             /\ nextLeaseId'[c] = nextLeaseId[c]
  <2> USE <1>1 DEF LeaseInv, LeaseTypeOK
  <2>1. ASSUME NEW h \in Holder, NEW d \in Conn, Register(h, d) \/ Acquire(h, d)
        PROVE  d # c
    BY <2>1 DEF Register, Acquire, RecordPhases
  <2>2. ASSUME NEW h \in Holder, NEW d \in Conn, Register(h, d) \/ Acquire(h, d)
        PROVE  closing' = closing /\ leases'[c] = leases[c] /\ nextLeaseId'[c] = nextLeaseId[c]
    BY <2>1, <2>2 DEF Register, Acquire, Issue, IssueId
  <2>3. ASSUME NEW h \in Holder, Release(h)
        PROVE  closing'[c] /\ leases'[c] \subseteq leases[c] /\ nextLeaseId' = nextLeaseId
    BY <2>3 DEF Release, ReleaseOnce, leaseVars, registryVars
  <2>4. ASSUME NEW d \in Conn, Lose(d) \/ SocketClosed(d)
        PROVE  closing'[c] /\ leases'[c] \subseteq leases[c] /\ nextLeaseId' = nextLeaseId
    BY <2>4 DEF Lose, SocketClosed, MarkClosed, registryVars
  <2>5. CASE CloseAll
    BY <2>5 DEF CloseAll
  <2>6. CASE UNCHANGED leaseVars
    BY <2>6 DEF leaseVars, registryVars
  <2> QED BY <2>2, <2>3, <2>4, <2>5, <2>6 DEF LeaseNext
<1>2. LeaseInv /\ [LeaseNext]_leaseVars =>
        [\A c \in Conn : closing[c] => /\ closing'[c]
                                       /\ leases'[c] \subseteq leases[c]
                                       /\ nextLeaseId'[c] = nextLeaseId[c]]_leaseVars
  BY <1>1
<1> QED BY <1>2, LeaseInvariance, PTL DEF LeaseSpec, ClosingIsFinal

(***************************************************************************)
(* Refinement: every step of the registry is a step of TransportLifetime,  *)
(* or leaves the transports' phases and users as they are.                 *)
(***************************************************************************)
PhaseOf(c) == IF nextLeaseId[c] = 1 THEN "unborn" ELSE IF c \in Listed THEN "up" ELSE "down"

UsersOf(c) == IF c \in Listed THEN HoldersOf(c) ELSE {}

LEMMA AbstractPointwise ==
  /\ AbstractPhase = [c \in Conn |-> PhaseOf(c)]
  /\ AbstractUsers = [c \in Conn |-> UsersOf(c)]
BY DEF AbstractPhase, AbstractUsers, PhaseOf, UsersOf

LEMMA AbstractPointwisePrimed ==
  /\ AbstractPhase' = [c \in Conn |-> PhaseOf(c)']
  /\ AbstractUsers' = [c \in Conn |-> UsersOf(c)']
BY DEF AbstractPhase, AbstractUsers, PhaseOf, UsersOf

LEMMA RegisterOpens ==
  ASSUME LeaseInv, NEW h \in Holder, NEW c \in Conn, Register(h, c)
  PROVE  Lifetime!Open(h, c)
<1> USE DEF LeaseInv, LeaseTypeOK
<1>1. /\ \A d \in Conn : HoldersOf(d)' = IF d = c THEN HoldersOf(d) \union {h} ELSE HoldersOf(d)
      /\ ~Unreleased(h)
  BY HoldersAfterIssue DEF Register
<1>2. /\ PhaseOf(c) = "unborn" /\ HoldersOf(c) = {} /\ ~closing[c] /\ nextLeaseId[c] = 1
      /\ \A d \in Conn : h \notin UsersOf(d)
  BY <1>1 DEF Register, RecordPhases, PhaseOf, UsersOf, HoldersOf
<1>3. nextLeaseId' = [nextLeaseId EXCEPT ![c] = 2]
  BY <1>2 DEF Register, Issue, IssueId
<1>4. \A d \in Conn : d \in Listed' <=> d = c \/ d \in Listed
  BY <1>2 DEF Register, Listed
<1>5. \A d \in Conn : /\ PhaseOf(d)' = IF d = c THEN "up" ELSE PhaseOf(d)
                      /\ UsersOf(d)' = IF d = c THEN {h} ELSE UsersOf(d)
  <2>1. nextLeaseId'[c] # 1 /\ c \in Listed' /\ HoldersOf(c)' = {h}
    BY <1>1, <1>2, <1>3, <1>4
  <2>2. ASSUME NEW d \in Conn, d # c
        PROVE  /\ nextLeaseId'[d] = nextLeaseId[d] /\ HoldersOf(d)' = HoldersOf(d)
               /\ d \in Listed' <=> d \in Listed
    BY <1>1, <1>3, <1>4, <2>2
  <2> QED BY <2>1, <2>2 DEF PhaseOf, UsersOf
<1> QED BY <1>2, <1>5, AbstractPointwise, AbstractPointwisePrimed
        DEF Lifetime!Open, Lifetime!InUse

LEMMA AcquireJoins ==
  ASSUME LeaseInv, NEW h \in Holder, NEW c \in Conn, Acquire(h, c)
  PROVE  Lifetime!Join(h, c)
<1> USE DEF LeaseInv, LeaseTypeOK
<1>1. /\ \A d \in Conn : HoldersOf(d)' = IF d = c THEN HoldersOf(d) \union {h} ELSE HoldersOf(d)
      /\ ~Unreleased(h)
  BY HoldersAfterIssue DEF Acquire
<1>2. /\ c \in Listed /\ nextLeaseId[c] # 1
      /\ \A d \in Conn : h \notin UsersOf(d)
  BY <1>1 DEF Acquire, RecordPhases, Listed, UsersOf, HoldersOf
<1>3. nextLeaseId'[c] # 1 /\ \A d \in Conn : d # c => nextLeaseId'[d] = nextLeaseId[d]
  BY DEF Acquire, Issue, IssueId
<1>4. Listed' = Listed
  BY DEF Acquire, Listed
<1>5. \A d \in Conn : /\ PhaseOf(d)' = PhaseOf(d)
                      /\ UsersOf(d)' = IF d = c THEN UsersOf(d) \union {h} ELSE UsersOf(d)
  BY <1>1, <1>2, <1>3, <1>4 DEF PhaseOf, UsersOf
<1>6. PhaseOf(c) = "up"
  BY <1>2 DEF PhaseOf
<1> QED BY <1>2, <1>5, <1>6, AbstractPointwise, AbstractPointwisePrimed
        DEF Lifetime!Join, Lifetime!InUse

LEMMA ReleaseLeaves ==
  ASSUME LeaseInv, LeaseInv', NEW h \in Holder, Release(h)
  PROVE  (\E c \in Conn : Lifetime!Leave(h, c)) \/ UNCHANGED Lifetime!vars
<1> USE DEF LeaseInv, LeaseTypeOK
<1>1. CASE UNCHANGED leaseVars
  <2>1. \A d \in Conn : PhaseOf(d)' = PhaseOf(d) /\ UsersOf(d)' = UsersOf(d)
    BY <1>1 DEF leaseVars, registryVars, PhaseOf, UsersOf, Listed, HoldersOf, Unreleased
  <2> QED BY <2>1, AbstractPointwise, AbstractPointwisePrimed DEF Lifetime!vars
<1>2. CASE Unreleased(h) /\ ReleaseOnce(h, handle[h].conn)
  <2>0. PICK c \in Conn : c = handle[h].conn
    BY <1>2 DEF Unreleased, Handle
  <2>1. /\ \A d \in Conn : HoldersOf(d)' = HoldersOf(d) \ {h}
        /\ h \in HoldersOf(c) /\ \A d \in Conn : d # c => h \notin HoldersOf(d)
    BY <1>2, <2>0, HoldersAfterRelease DEF HoldersOf
  <2>2. nextLeaseId' = nextLeaseId /\ \A d \in Conn : d # c => HoldersOf(d)' = HoldersOf(d)
    <3>1. nextLeaseId' = nextLeaseId
      BY <1>2 DEF ReleaseOnce
    <3>2. ASSUME NEW d \in Conn, d # c
          PROVE  HoldersOf(d)' = HoldersOf(d)
      <4>1. HoldersOf(d)' = HoldersOf(d) \ {h} /\ h \notin HoldersOf(d)
        BY <2>1, <3>2
      <4>2. HoldersOf(d) \ {h} = HoldersOf(d)
        BY <4>1
      <4> QED BY <4>1, <4>2
    <3> QED BY <3>1, <3>2
  <2>3. CASE c \notin Listed
    <3>1. Listed' = Listed
      BY <1>2, <2>0, <2>3 DEF ReleaseOnce, LastRelease, Listed, RecordPhases, RecordsCount
    <3>2. \A d \in Conn : PhaseOf(d)' = PhaseOf(d) /\ UsersOf(d)' = UsersOf(d)
      BY <2>2, <2>3, <3>1 DEF PhaseOf, UsersOf
    <3> QED BY <3>2, AbstractPointwise, AbstractPointwisePrimed DEF Lifetime!vars
  <2>4. CASE c \in Listed /\ HoldersOf(c) = {h}
    <3>1. leases'[c] = {} /\ leases[c] = {handle[h].id} /\ ~closing[c]
      BY <1>2, <2>0, <2>4 DEF ReleaseOnce, RecordsCount, Listed
    <3>2. \A d \in Conn : d \in Listed' <=> d \in Listed /\ d # c
      BY <1>2, <2>0, <3>1 DEF ReleaseOnce, LastRelease, Listed
    <3>3. nextLeaseId[c] # 1
      BY <2>4 DEF RecordPhases, Listed
    <3>4. \A d \in Conn : /\ PhaseOf(d)' = IF d = c THEN "down" ELSE PhaseOf(d)
                          /\ UsersOf(d)' = IF d = c THEN {} ELSE UsersOf(d)
      <4>1. ASSUME NEW d \in Conn, d # c
            PROVE  PhaseOf(d)' = PhaseOf(d) /\ UsersOf(d)' = UsersOf(d)
        BY <2>2, <3>2, <4>1 DEF PhaseOf, UsersOf
      <4>2. PhaseOf(c)' = "down" /\ UsersOf(c)' = {}
        BY <2>2, <3>2, <3>3 DEF PhaseOf, UsersOf
      <4> QED BY <4>1, <4>2
    <3>5. UsersOf(c) = {h}
      BY <2>4 DEF UsersOf
    <3>6. Lifetime!Leave(h, c)
      BY <3>4, <3>5, AbstractPointwise, AbstractPointwisePrimed DEF Lifetime!Leave
    <3> QED BY <3>6
  <2>5. CASE c \in Listed /\ HoldersOf(c) # {h}
    <3>1. PICK k \in HoldersOf(c) : k # h
      BY <2>1, <2>5
    <3>2. handle[k].id \in leases[c] /\ handle[k].id # handle[h].id
      BY <2>0, <2>1, <2>5, <3>1 DEF RecordsCount, Listed, IdsAreIssued, HoldersOf, Unreleased
    <3>3. Listed' = Listed
      BY <1>2, <2>0, <3>2 DEF ReleaseOnce, LastRelease, Listed
    <3>4. \A d \in Conn : /\ PhaseOf(d)' = PhaseOf(d)
                          /\ UsersOf(d)' = IF d = c THEN UsersOf(d) \ {h} ELSE UsersOf(d)
      <4>1. ASSUME NEW d \in Conn, d # c
            PROVE  PhaseOf(d)' = PhaseOf(d) /\ UsersOf(d)' = UsersOf(d)
        BY <2>2, <3>3, <4>1 DEF PhaseOf, UsersOf
      <4>2. PhaseOf(c)' = PhaseOf(c) /\ UsersOf(c)' = UsersOf(c) \ {h}
        BY <2>1, <2>2, <2>5, <3>3 DEF PhaseOf, UsersOf
      <4> QED BY <4>1, <4>2
    <3>5. h \in UsersOf(c) /\ UsersOf(c) # {h}
      BY <2>1, <2>5 DEF UsersOf
    <3>6. Lifetime!Leave(h, c)
      BY <3>4, <3>5, AbstractPointwise, AbstractPointwisePrimed DEF Lifetime!Leave
    <3> QED BY <3>6
  <2> QED BY <2>3, <2>4, <2>5
<1> QED BY <1>1, <1>2 DEF Release, Unreleased

\* A set of transports goes down: a close event, or the shutdown.
LEMMA RecordsGoDown ==
  ASSUME LeaseInv, NEW S \in SUBSET records,
         nextLeaseId' = nextLeaseId, handle' = handle, Listed' = Listed \ S
  PROVE  Lifetime!GoDown(S) /\ S \in SUBSET {c \in Conn : AbstractPhase[c] # "unborn"}
<1> USE DEF LeaseInv, LeaseTypeOK
<1>1. \A c \in Conn : HoldersOf(c)' = HoldersOf(c)
  BY DEF HoldersOf, Unreleased
<1>2. S \subseteq Conn /\ \A c \in S : nextLeaseId[c] # 1
  BY DEF RecordPhases
<1>3. \A c \in Conn : /\ PhaseOf(c)' = IF c \in S THEN "down" ELSE PhaseOf(c)
                      /\ UsersOf(c)' = IF c \in S THEN {} ELSE UsersOf(c)
  BY <1>1, <1>2 DEF PhaseOf, UsersOf
<1>4. \A c \in S : PhaseOf(c) # "unborn"
  BY <1>2 DEF PhaseOf
<1>5. \A c \in Conn : AbstractPhase[c] = PhaseOf(c) /\ AbstractUsers[c] = UsersOf(c)
  BY AbstractPointwise
<1> QED BY <1>2, <1>3, <1>4, <1>5, AbstractPointwisePrimed DEF Lifetime!GoDown

\* Steps that change neither who holds what nor what is listed stutter.
LEMMA QuietStep ==
  ASSUME UNCHANGED <<records, nextLeaseId, closing, handle>>
  PROVE  UNCHANGED Lifetime!vars
<1>1. \A d \in Conn : PhaseOf(d)' = PhaseOf(d) /\ UsersOf(d)' = UsersOf(d)
  BY DEF PhaseOf, UsersOf, Listed, HoldersOf, Unreleased
<1> QED BY <1>1, AbstractPointwise, AbstractPointwisePrimed DEF Lifetime!vars

\* The lease registry implements the transport lifetime its class comment
\* promises (connection-leases.ts:32-38).
THEOREM LeasesImplementLifetime == LeaseSpec => LifetimeSpec
<1>1. LeaseInit => Lifetime!Init
  BY DEF LeaseInit, Lifetime!Init, AbstractPhase, AbstractUsers, Listed
<1>2. ASSUME LeaseInv, LeaseInv', [LeaseNext]_leaseVars
      PROVE  [Lifetime!Next]_(Lifetime!vars)
  <2>1. ASSUME NEW h \in Holder, NEW c \in Conn, Register(h, c)
        PROVE  Lifetime!Next
    BY <1>2, <2>1, RegisterOpens DEF Lifetime!Next
  <2>2. ASSUME NEW h \in Holder, NEW c \in Conn, Acquire(h, c)
        PROVE  Lifetime!Next
    BY <1>2, <2>2, AcquireJoins DEF Lifetime!Next
  <2>3. ASSUME NEW h \in Holder, Release(h)
        PROVE  [Lifetime!Next]_(Lifetime!vars)
    BY <1>2, <2>3, ReleaseLeaves DEF Lifetime!Next
  <2>4. ASSUME NEW c \in Conn, Lose(c)
        PROVE  UNCHANGED Lifetime!vars
    BY <2>4, QuietStep DEF Lose, registryVars
  <2>5. ASSUME NEW c \in Conn, SocketClosed(c), c \in records
        PROVE  Lifetime!Next
    <3>1. /\ {c} \in SUBSET records /\ nextLeaseId' = nextLeaseId /\ handle' = handle
          /\ Listed' = Listed \ {c}
      BY <1>2, <2>5 DEF SocketClosed, MarkClosed, Listed, LeaseInv, LeaseTypeOK
    <3> QED BY <1>2, <3>1, RecordsGoDown DEF Lifetime!Next
  <2>6. ASSUME NEW c \in Conn, SocketClosed(c), c \notin records
        PROVE  UNCHANGED Lifetime!vars
    BY <2>6, QuietStep DEF SocketClosed, MarkClosed
  <2>7. CASE CloseAll
    <3>1. /\ records \in SUBSET records /\ nextLeaseId' = nextLeaseId /\ handle' = handle
          /\ Listed' = Listed \ records
      BY <2>7 DEF CloseAll, Listed
    <3> QED BY <1>2, <3>1, RecordsGoDown DEF Lifetime!Next
  <2>8. CASE UNCHANGED leaseVars
    BY <2>8, QuietStep DEF leaseVars, registryVars
  <2> QED BY <1>2, <2>1, <2>2, <2>3, <2>4, <2>5, <2>6, <2>7, <2>8 DEF LeaseNext
<1> QED BY <1>1, <1>2, LeaseInvariance, PTL DEF LeaseSpec, LifetimeSpec, Lifetime!Spec

-----------------------------------------------------------------------------
(* SshMux *)

Birth == [conn : Conn, replaces : SUBSET Key]

DialRecord ==
  [phase : {"none", "flying", "ready", "failed", "route failed"},
   key : Key, token : Token \union {NoToken}, since : SUBSET Token]

MuxTypes ==
  /\ req \in [Holder -> Request]
  /\ dial \in [Conn -> DialRecord]
  /\ pending \in [Key -> Seq(Conn)]
  /\ superseded \subseteq Conn /\ plainKeys \subseteq Route
  /\ lastRoute \in DOMAIN Routes
  /\ born \in Seq(Birth)
  /\ gestures \subseteq Token

\* A request tries one of its plans, all of them over the host's routes.
Planned(r) ==
  /\ r.at \in DOMAIN r.plans
  /\ \A i \in DOMAIN r.plans : r.plans[i].route \in Range(Routes)

\* A session that asks or is connected has a dial that began under its gesture,
\* and that is of the plan it tries until it is connected.
RequestFollowsDial ==
  \A h \in Holder : Phase(h) \notin {"idle", "failed"} =>
    /\ Planned(req[h])
    /\ req[h].on \in Conn
    /\ dial[req[h].on].phase # "none"
    /\ Phase(h) \in {"connected", "shell"} => dial[req[h].on].phase = "ready"
    /\ Phase(h) \in {"dialing", "waiting"} => dial[req[h].on].key = req[h].plans[req[h].at]
    /\ req[h].token # NoToken => dial[req[h].on].token = req[h].token

DialsKnowTheirGesture ==
  \A c \in Conn : dial[c].token # NoToken => dial[c].token \in dial[c].since

\* Between a dial that arrived and those that waited for it comes no event: its
\* transport is listed, and the newest.
WaitersGetTheNewest ==
  \A h \in Holder : Phase(h) = "waiting" /\ dial[req[h].on].phase = "ready" =>
    req[h].on \in Listed /\ born # <<>> /\ born[Len(born)].conn = req[h].on

\* A plan's dials that can be joined, without the bound of OneDialPerGesture.
TokensDiffer ==
  \A k \in Key : \A i, j \in DOMAIN pending[k] :
    i # j => dial[pending[k][i]].token # dial[pending[k][j]].token

PendingFlies ==
  \A k \in Key : \A i \in DOMAIN pending[k] :
    dial[pending[k][i]].phase = "flying" /\ dial[pending[k][i]].key = k

\* What is registered, what is ready and what was born are the same transports.
BirthsAreReady ==
  /\ \A c \in Conn : dial[c].phase = "ready" <=> transport[c] # "unborn"
  /\ \A c \in Conn : dial[c].phase = "ready" => \E i \in DOMAIN born : born[i].conn = c
  /\ \A i \in DOMAIN born : dial[born[i].conn].phase = "ready"
  /\ \A i, j \in DOMAIN born : born[i].conn = born[j].conn => i = j

\* A live transport that a forced reconnect replaced since is marked so.
ReplacedAreMarked ==
  \A c \in Listed : \A i, j \in DOMAIN born :
    born[j].conn = c /\ j < i /\ dial[c].key \in born[i].replaces => c \in superseded

MuxInv ==
  /\ MuxTypes /\ RequestFollowsDial /\ DialsKnowTheirGesture /\ WaitersGetTheNewest
  /\ TokensDiffer /\ PendingFlies /\ BirthsAreReady /\ ReplacedAreMarked
  /\ NoLeaseWithoutSession

-----------------------------------------------------------------------------
(* The order in which a request tries the routes of its host. *)

LEMMA RouteOrderIsOfRoutes ==
  ASSUME lastRoute \in DOMAIN Routes
  PROVE  /\ RouteOrder \in Seq(Route) /\ Len(RouteOrder) = Len(Routes)
         /\ \A i \in 1 .. Len(Routes) : RouteOrder[i] \in Range(Routes)
<1> DEFINE before == SubSeq(Routes, 1, lastRoute - 1)
           after == SubSeq(Routes, lastRoute + 1, Len(Routes))
<1>1. /\ Routes \in Seq(Range(Routes)) /\ Range(Routes) \subseteq Route /\ Len(Routes) \in Nat
      /\ DOMAIN Routes = 1 .. Len(Routes)
  BY MuxAssumption, SeqOfRange, RangeOfSeq, LenProperties
<1>2. \A i \in 1 .. Len(Routes) : Routes[i] \in Range(Routes)
  BY <1>1, ElementOfSeq
<1>3. before \in Seq(Range(Routes)) /\ Len(before) = lastRoute - 1
  BY <1>1, <1>2, SubSeqProperties
<1>4. after \in Seq(Range(Routes)) /\ Len(after) = Len(Routes) - lastRoute
  BY <1>1, <1>2, SubSeqProperties
<1>5. before \o after \in Seq(Range(Routes)) /\ Len(before \o after) = Len(Routes) - 1
  BY <1>1, <1>3, <1>4, ConcatProperties, SMTT(30)
<1>6. <<Routes[lastRoute]>> \in Seq(Range(Routes)) /\ Len(<<Routes[lastRoute]>>) = 1
  BY <1>1, <1>2
<1>7. RouteOrder \in Seq(Range(Routes)) /\ Len(RouteOrder) = Len(Routes)
  BY <1>1, <1>5, <1>6, ConcatProperties DEF RouteOrder, RemoveAt
<1>8. \A i \in 1 .. Len(Routes) : RouteOrder[i] \in Range(Routes)
  BY <1>7, ElementOfSeq
<1>9. RouteOrder \in Seq(Route)
  BY <1>1, <1>7, SeqMonotonic
<1> QED BY <1>7, <1>8, <1>9

-----------------------------------------------------------------------------
(* What the steps of the lease registry do to what the sessions look at. *)

LEMMA AcquireEffect ==
  ASSUME LeaseInv, NEW h \in Holder, NEW c \in Conn, Acquire(h, c)
  PROVE  /\ LeaseInv' /\ c \in Listed
         /\ Listed' = Listed /\ transport' = transport
         /\ \A k \in Holder : Unreleased(k)' <=> (k = h \/ Unreleased(k))
<1>1. LeaseInv'
  BY AcquireKeepsInv
<1>2. Listed' = Listed /\ c \in Listed /\ transport' = transport
  BY DEF Acquire, Issue, IssueId, Listed
<1>3. /\ handle'[h] = [conn |-> c, id |-> nextLeaseId[c], released |-> FALSE]
      /\ \A k \in Holder : k # h => handle'[k] = handle[k]
  BY DEF LeaseInv, LeaseTypeOK, Acquire, Issue, IssueId
<1>4. handle'[h] # NoHandle
  <2>1. handle'[h] \in Handle
    BY <1>3 DEF LeaseInv, LeaseTypeOK, LeaseIds, Handle
  <2> QED BY <2>1, LeaseAssumption
<1> QED BY <1>1, <1>2, <1>3, <1>4 DEF Unreleased

LEMMA RegisterEffect ==
  ASSUME LeaseInv, NEW h \in Holder, NEW c \in Conn, Register(h, c)
  PROVE  /\ LeaseInv' /\ Listed' = Listed \union {c}
         /\ transport[c] = "unborn" /\ transport' = [transport EXCEPT ![c] = "open"]
         /\ \A k \in Holder : Unreleased(k)' <=> (k = h \/ Unreleased(k))
<1>1. LeaseInv'
  BY RegisterKeepsInv
<1>2. Listed' = Listed \union {c}
  BY DEF LeaseInv, RecordPhases, Register, Listed
<1>3. /\ handle'[h] = [conn |-> c, id |-> nextLeaseId[c], released |-> FALSE]
      /\ \A k \in Holder : k # h => handle'[k] = handle[k]
  BY DEF LeaseInv, LeaseTypeOK, Register, Issue, IssueId
<1>4. handle'[h] # NoHandle
  <2>1. handle'[h] \in Handle
    BY <1>3 DEF LeaseInv, LeaseTypeOK, LeaseIds, Handle
  <2> QED BY <2>1, LeaseAssumption
<1> QED BY <1>1, <1>2, <1>3, <1>4 DEF Unreleased, Register

LEMMA ReleaseEffect ==
  ASSUME LeaseInv, NEW h \in Holder, Release(h)
  PROVE  /\ LeaseInv' /\ Listed' \subseteq Listed
         /\ \A c \in Conn : transport'[c] # "unborn" <=> transport[c] # "unborn"
         /\ \A k \in Holder : Unreleased(k)' <=> (k # h /\ Unreleased(k))
<1>1. LeaseInv'
  BY ReleaseKeepsInv
<1>2. CASE handle[h].released
  BY <1>1, <1>2 DEF Release, leaseVars, registryVars, Listed, Unreleased
<1>3. CASE ~handle[h].released
  <2>1. handle[h] \in Handle /\ handle[h] # NoHandle /\ handle[h].conn \in Conn
    BY DEF LeaseInv, LeaseTypeOK, Release, Handle
  <2>2. ReleaseOnce(h, handle[h].conn)
    BY <1>3 DEF Release
  <2>3. Listed' \subseteq Listed
    BY <2>1, <2>2 DEF LeaseInv, LeaseTypeOK, ReleaseOnce, Listed
  <2>4. \A c \in Conn : transport'[c] # "unborn" <=> transport[c] # "unborn"
    BY <2>1, <2>2 DEF LeaseInv, LeaseTypeOK, ReleaseOnce, Ended
  <2>5. \A k \in Holder : Unreleased(k)' <=> (k # h /\ Unreleased(k))
    BY <2>1, <2>2 DEF LeaseInv, LeaseTypeOK, ReleaseOnce, Unreleased, Handle
  <2> QED BY <1>1, <2>3, <2>4, <2>5
<1> QED BY <1>2, <1>3

LEMMA TransportEffect ==
  ASSUME LeaseInv, (\E c \in Conn : Lose(c) \/ SocketClosed(c)) \/ CloseAll
  PROVE  /\ LeaseInv' /\ Listed' \subseteq Listed
         /\ \A c \in Conn : transport'[c] # "unborn" <=> transport[c] # "unborn"
         /\ \A k \in Holder : Unreleased(k)' <=> Unreleased(k)
<1> USE DEF LeaseInv, LeaseTypeOK, Listed, Unreleased
<1>1. ASSUME NEW c \in Conn, Lose(c)
      PROVE  /\ Listed' \subseteq Listed
             /\ \A d \in Conn : transport'[d] # "unborn" <=> transport[d] # "unborn"
             /\ \A k \in Holder : Unreleased(k)' <=> Unreleased(k)
  BY <1>1 DEF Lose, registryVars
<1>2. ASSUME NEW c \in Conn, SocketClosed(c)
      PROVE  /\ Listed' \subseteq Listed
             /\ \A d \in Conn : transport'[d] # "unborn" <=> transport[d] # "unborn"
             /\ \A k \in Holder : Unreleased(k)' <=> Unreleased(k)
  BY <1>2 DEF SocketClosed, MarkClosed
<1>3. CASE CloseAll
  <2>1. \A d \in Conn : transport'[d] # "unborn" <=> transport[d] # "unborn"
    BY <1>3 DEF CloseAll, Ended
  <2> QED BY <1>3, <2>1, CloseAllKeepsInv DEF CloseAll
<1> QED BY <1>1, <1>2, <1>3, LoseKeepsInv, SocketClosedKeepsInv, CloseAllKeepsInv

-----------------------------------------------------------------------------
(* What a step of a session does to the invariant. *)

\* Between a settled dial and its continuations no transport is unlisted.
LeasesAreCalm ==
  /\ Listed' \subseteq Listed
  /\ Quiet \/ Listed' = Listed
  /\ \A c \in Conn : transport'[c] # "unborn" <=> transport[c] # "unborn"

\* The request r is what RequestFollowsDial says of one.
FollowsDial(r) ==
  /\ r \in Request
  /\ r.phase \notin {"idle", "failed"} =>
       /\ Planned(r)
       /\ r.on \in Conn
       /\ dial[r.on].phase # "none"
       /\ r.phase \in {"connected", "shell"} => dial[r.on].phase = "ready"
       /\ r.phase \in {"dialing", "waiting"} => dial[r.on].key = r.plans[r.at]
       /\ r.token # NoToken => dial[r.on].token = r.token

LEMMA RequestStep ==
  ASSUME MuxInv, LeasesAreCalm, NEW h \in Holder, NEW r,
         FollowsDial(r), r.phase = "waiting" => dial[r.on].phase = "flying",
         SetRequest(h, r),
         \A k \in Holder : Unreleased(k)' <=> IF k = h THEN r.phase \in {"connected", "shell"}
                                                       ELSE Unreleased(k),
         UNCHANGED <<dial, pending, born>>,
         superseded \subseteq superseded', superseded' \subseteq Conn,
         plainKeys' \subseteq Route, lastRoute' \in DOMAIN Routes, gestures' \subseteq Token
  PROVE  MuxInv'
<1> USE DEF MuxInv
<1>1. /\ req' \in [Holder -> Request] /\ req'[h] = r
      /\ \A k \in Holder : k # h => req'[k] = req[k]
  BY DEF MuxTypes, SetRequest, FollowsDial
<1>2. MuxTypes'
  BY <1>1 DEF MuxTypes
<1>3. RequestFollowsDial'
  BY <1>1 DEF RequestFollowsDial, FollowsDial, Phase, Planned
<1>4. DialsKnowTheirGesture' /\ TokensDiffer' /\ PendingFlies'
  BY DEF DialsKnowTheirGesture, TokensDiffer, PendingFlies
<1>5. WaitersGetTheNewest'
  BY <1>1 DEF WaitersGetTheNewest, LeasesAreCalm, Quiet, Settled, Phase
<1>6. BirthsAreReady'
  BY DEF BirthsAreReady, LeasesAreCalm
<1>7. ReplacedAreMarked'
  BY DEF ReplacedAreMarked, LeasesAreCalm
<1>8. NoLeaseWithoutSession'
  BY <1>1 DEF NoLeaseWithoutSession, Phase
<1> QED BY <1>2, <1>3, <1>4, <1>5, <1>6, <1>7, <1>8

\* What the sequences of MuxTypes hold.
LEMMA MuxElements ==
  ASSUME MuxTypes
  PROVE  /\ \A k \in Key : /\ Len(pending[k]) \in Nat
                           /\ DOMAIN pending[k] = 1 .. Len(pending[k])
                           /\ \A i \in DOMAIN pending[k] : pending[k][i] \in Conn
         /\ Len(born) \in Nat /\ DOMAIN born = 1 .. Len(born)
         /\ \A i \in DOMAIN born : born[i] \in Birth /\ born[i].conn \in Conn
<1>1. born \in Seq(Birth) /\ \A k \in Key : pending[k] \in Seq(Conn)
  BY DEF MuxTypes
<1>2. /\ Len(born) \in Nat /\ DOMAIN born = 1 .. Len(born)
      /\ \A i \in DOMAIN born : born[i] \in Birth
  BY <1>1, LenProperties, ElementOfSeq
<1>3. ASSUME NEW k \in Key
      PROVE  /\ Len(pending[k]) \in Nat /\ DOMAIN pending[k] = 1 .. Len(pending[k])
             /\ \A i \in DOMAIN pending[k] : pending[k][i] \in Conn
  BY <1>1, LenProperties, ElementOfSeq
<1> QED BY <1>2, <1>3 DEF Birth

\* Nobody who is to hear of a dial loses it to a new one.
LEMMA UnusedIsFree ==
  ASSUME LeaseInv, MuxInv, NEW h \in Holder, NEW c \in Unused(h)
  PROVE  /\ c \in Conn /\ c \notin Listed
         /\ dial[c].phase \in {"none", "route failed"}
         /\ \A k \in Holder \ {h} : Phase(k) \notin {"idle", "failed"} => req[k].on # c
         /\ \A i \in DOMAIN born : born[i].conn # c
         /\ \A k \in Key : \A i \in DOMAIN pending[k] : pending[k][i] # c
<1> USE DEF MuxInv
<1>1. c \in Conn /\ dial[c].phase \in {"none", "route failed"}
  BY DEF Unused
<1>2. c \notin Listed
  BY <1>1 DEF BirthsAreReady, LeaseInv, RecordPhases, Listed
<1>3. \A k \in Holder \ {h} : Phase(k) \notin {"idle", "failed"} => req[k].on # c
  BY DEF Unused, RequestFollowsDial
<1>4. \A i \in DOMAIN born : born[i].conn # c
  BY <1>1 DEF BirthsAreReady
<1>5. \A k \in Key : \A i \in DOMAIN pending[k] : pending[k][i] # c
  BY <1>1 DEF PendingFlies
<1> QED BY <1>1, <1>2, <1>3, <1>4, <1>5

LEMMA StartDialStep ==
  ASSUME LeaseInv, MuxInv, LeasesAreCalm, NEW h \in Holder, NEW r \in Request,
         Planned(r), StartDial(h, r),
         ~r.dedicated => \A i \in DOMAIN pending[r.plans[r.at]] :
                           dial[pending[r.plans[r.at]][i]].token # r.token,
         \A k \in Holder : Unreleased(k)' <=> (k # h /\ Unreleased(k)),
         plainKeys' \subseteq Route, gestures' \subseteq Token
  PROVE  MuxInv'
<1> DEFINE key == r.plans[r.at]
<1>1. PICK c \in Unused(h) :
        /\ dial' = [dial EXCEPT ![c] = [phase |-> "flying", key |-> key, token |-> r.token,
                                        since |-> gestures \union ({r.token} \ {NoToken})]]
        /\ pending' = IF r.dedicated THEN pending
                      ELSE [pending EXCEPT ![key] = Append(@, c)]
        /\ SetRequest(h, [r EXCEPT !.phase = "dialing", !.on = c])
  BY DEF StartDial
<1>2. superseded' = superseded /\ lastRoute' = lastRoute /\ born' = born
  BY DEF StartDial
<1>3. /\ c \in Conn /\ c \notin Listed
      /\ dial[c].phase \in {"none", "route failed"}
      /\ \A k \in Holder \ {h} : Phase(k) \notin {"idle", "failed"} => req[k].on # c
      /\ \A i \in DOMAIN born : born[i].conn # c
      /\ \A k \in Key : \A i \in DOMAIN pending[k] : pending[k][i] # c
  BY UnusedIsFree
<1>4. key \in Key /\ r.at \in DOMAIN r.plans
  <2>1. r.plans \in Seq(Key) /\ r.at \in DOMAIN r.plans
    BY DEF Request, Planned
  <2> QED BY <2>1, LenProperties, ElementOfSeq
<1> HIDE DEF key
<1>5. dial' \in [Conn -> DialRecord]
  <2> USE DEF key
  <2>1. [phase |-> "flying", key |-> key, token |-> r.token,
         since |-> gestures \union ({r.token} \ {NoToken})] \in DialRecord
    BY <1>4 DEF MuxInv, MuxTypes, DialRecord, Request
  <2> QED BY <1>1, <2>1 DEF MuxInv, MuxTypes
<1>6. /\ dial'[c].phase = "flying" /\ dial'[c].key = key /\ dial'[c].token = r.token
      /\ dial'[c].since = gestures \union ({r.token} \ {NoToken})
      /\ \A d \in Conn : d # c => dial'[d] = dial[d]
  BY <1>1, <1>3 DEF MuxInv, MuxTypes
<1>7. /\ req' \in [Holder -> Request]
      /\ req'[h] = [r EXCEPT !.phase = "dialing", !.on = c]
      /\ req'[h].phase = "dialing" /\ req'[h].on = c
      /\ req'[h].token = r.token /\ req'[h].plans = r.plans /\ req'[h].at = r.at
      /\ \A k \in Holder : k # h => req'[k] = req[k]
  BY <1>1, <1>3 DEF MuxInv, MuxTypes, SetRequest, Request
<1>8. /\ pending' \in [Key -> Seq(Conn)]
      /\ \A k \in Key : k # key \/ r.dedicated => pending'[k] = pending[k]
      /\ ~r.dedicated => /\ DOMAIN pending[key] = 1 .. Len(pending[key])
                         /\ Len(pending[key]) \in Nat
                         /\ DOMAIN pending'[key] = 1 .. Len(pending[key]) + 1
                         /\ \A i \in DOMAIN pending[key] : pending'[key][i] = pending[key][i]
                         /\ pending'[key][Len(pending[key]) + 1] = c
  <2>1. pending \in [Key -> Seq(Conn)]
    BY DEF MuxInv, MuxTypes
  <2>2. CASE r.dedicated
    BY <1>1, <2>1, <2>2
  <2>3. CASE ~r.dedicated
    <3>1. pending' = [pending EXCEPT ![key] = Append(@, c)]
      BY <1>1, <2>3
    <3>2. pending[key] \in Seq(Conn)
      BY <1>4, <2>1
    <3>3. /\ Append(pending[key], c) \in Seq(Conn)
          /\ Len(Append(pending[key], c)) = Len(pending[key]) + 1
          /\ \A i \in 1 .. Len(pending[key]) : Append(pending[key], c)[i] = pending[key][i]
          /\ Append(pending[key], c)[Len(pending[key]) + 1] = c
      <4>1. c \in Conn
        BY <1>3
      <4> QED BY <3>2, <4>1, AppendProperties
    <3>4. /\ DOMAIN pending[key] = 1 .. Len(pending[key]) /\ Len(pending[key]) \in Nat
          /\ DOMAIN Append(pending[key], c) = 1 .. Len(pending[key]) + 1
      BY <3>2, <3>3, LenProperties
    <3>5. /\ pending' \in [Key -> Seq(Conn)] /\ pending'[key] = Append(pending[key], c)
          /\ \A k \in Key : k # key => pending'[k] = pending[k]
      BY <1>4, <2>1, <3>1, <3>3
    <3> QED BY <2>3, <3>3, <3>4, <3>5
  <2> QED BY <2>2, <2>3
<1>9. MuxTypes'
  BY <1>2, <1>5, <1>7, <1>8 DEF MuxInv, MuxTypes
<1>10. RequestFollowsDial'
  <2>1. SUFFICES ASSUME NEW k \in Holder, Phase(k)' \notin {"idle", "failed"}
                 PROVE  FollowsDial(req[k])'
    BY DEF RequestFollowsDial, FollowsDial, Phase, Planned
  <2>2. CASE k = h
    BY <1>3, <1>6, <1>7, <2>2 DEF FollowsDial, Planned, key
  <2>3. CASE k # h
    <3>1. /\ req'[k] = req[k] /\ req[k] \in Request /\ Phase(k) \notin {"idle", "failed"}
          /\ req[k].on \in Conn /\ req[k].on # c
      BY <1>3, <1>7, <2>1, <2>3 DEF MuxInv, MuxTypes, RequestFollowsDial, Phase
    <3>2. dial'[req[k].on] = dial[req[k].on]
      BY <1>6, <3>1
    <3> QED BY <3>1, <3>2 DEF MuxInv, RequestFollowsDial, FollowsDial, Phase, Planned
  <2> QED BY <2>2, <2>3
<1>11. DialsKnowTheirGesture'
  BY <1>6 DEF MuxInv, DialsKnowTheirGesture
<1>12. WaitersGetTheNewest'
  <2>1. SUFFICES ASSUME NEW k \in Holder, req'[k].phase = "waiting",
                        dial'[req'[k].on].phase = "ready"
                 PROVE  /\ req'[k].on \in Listed' /\ born' # <<>>
                        /\ born'[Len(born')].conn = req'[k].on
    BY DEF WaitersGetTheNewest, Phase
  <2>2. /\ k # h /\ req'[k] = req[k] /\ Phase(k) = "waiting"
        /\ req[k].on \in Conn /\ req[k].on # c
    BY <1>3, <1>7, <2>1 DEF MuxInv, MuxTypes, RequestFollowsDial, Phase
  <2>3. dial[req[k].on].phase = "ready"
    BY <1>6, <2>1, <2>2
  <2> QED BY <1>2, <2>2, <2>3
          DEF MuxInv, WaitersGetTheNewest, LeasesAreCalm, Quiet, Settled, Phase
<1>13. TokensDiffer'
  <2>1. SUFFICES ASSUME NEW k \in Key, NEW i \in DOMAIN pending'[k], NEW j \in DOMAIN pending'[k],
                        i # j
                 PROVE  dial'[pending'[k][i]].token # dial'[pending'[k][j]].token
    BY DEF TokensDiffer
  <2>2. \A l \in DOMAIN pending[k] : pending[k][l] \in Conn \ {c}
    BY <1>3, MuxElements DEF MuxInv
  <2>3. CASE k # key \/ r.dedicated
    BY <1>6, <1>8, <2>1, <2>2, <2>3 DEF MuxInv, TokensDiffer
  <2>4. CASE k = key /\ ~r.dedicated
    <3>1. \A l \in DOMAIN pending[key] : dial[pending[key][l]].token # r.token
      BY <2>4 DEF key
    <3>2. \A l \in DOMAIN pending[key] :
            dial'[pending'[key][l]].token = dial[pending[key][l]].token
      BY <1>6, <1>8, <2>2, <2>4
    <3>3. dial'[pending'[key][Len(pending[key]) + 1]].token = r.token
      BY <1>6, <1>8, <2>4
    <3>4. CASE i \in DOMAIN pending[key] /\ j \in DOMAIN pending[key]
      BY <1>4, <2>1, <2>4, <3>2, <3>4 DEF MuxInv, TokensDiffer
    <3>5. CASE i \notin DOMAIN pending[key]
      <4>1. i = Len(pending[key]) + 1 /\ j \in DOMAIN pending[key]
        BY <1>8, <2>1, <2>4, <3>5
      <4> QED BY <2>4, <3>1, <3>2, <3>3, <4>1
    <3>6. CASE j \notin DOMAIN pending[key]
      <4>1. j = Len(pending[key]) + 1 /\ i \in DOMAIN pending[key]
        BY <1>8, <2>1, <2>4, <3>6
      <4> QED BY <2>4, <3>1, <3>2, <3>3, <4>1
    <3> QED BY <3>4, <3>5, <3>6
  <2> QED BY <2>3, <2>4
<1>14. PendingFlies'
  <2>1. SUFFICES ASSUME NEW k \in Key, NEW i \in DOMAIN pending'[k]
                 PROVE  dial'[pending'[k][i]].phase = "flying" /\ dial'[pending'[k][i]].key = k
    BY DEF PendingFlies
  <2>2. \A l \in DOMAIN pending[k] : pending[k][l] \in Conn \ {c}
    BY <1>3, MuxElements DEF MuxInv
  <2>3. CASE i \in DOMAIN pending[k] /\ pending'[k][i] = pending[k][i]
    BY <1>6, <2>2, <2>3 DEF MuxInv, PendingFlies
  <2>4. CASE ~r.dedicated /\ k = key /\ i = Len(pending[key]) + 1
    BY <1>6, <1>8, <2>4
  <2> QED BY <1>8, <2>1, <2>3, <2>4
<1>15. BirthsAreReady'
  <2>1. \A i \in DOMAIN born : born[i].conn \in Conn \ {c}
    BY <1>3, MuxElements DEF MuxInv
  <2>2. \A d \in Conn : dial'[d].phase = "ready" <=> dial[d].phase = "ready"
    BY <1>3, <1>6
  <2>3. \A d \in Conn : dial'[d].phase = "ready" <=> transport'[d] # "unborn"
    BY <2>2 DEF MuxInv, BirthsAreReady, LeasesAreCalm
  <2>4. \A d \in Conn : dial'[d].phase = "ready" => \E i \in DOMAIN born : born[i].conn = d
    BY <2>2 DEF MuxInv, BirthsAreReady
  <2>5. \A i \in DOMAIN born : dial'[born[i].conn].phase = "ready"
    BY <2>1, <2>2 DEF MuxInv, BirthsAreReady
  <2> QED BY <1>2, <2>3, <2>4, <2>5 DEF MuxInv, BirthsAreReady
<1>16. ReplacedAreMarked'
  <2>1. SUFFICES ASSUME NEW d \in Listed', NEW i \in DOMAIN born, NEW j \in DOMAIN born,
                        born[j].conn = d, j < i, dial'[d].key \in born[i].replaces
                 PROVE  d \in superseded
    BY <1>2 DEF ReplacedAreMarked
  <2>2. d \in Listed /\ d \in Conn /\ dial'[d] = dial[d]
    BY <1>3, <1>6 DEF LeasesAreCalm, LeaseInv, LeaseTypeOK, Listed
  <2> QED BY <2>1, <2>2 DEF MuxInv, ReplacedAreMarked
<1>17. NoLeaseWithoutSession'
  BY <1>7 DEF MuxInv, NoLeaseWithoutSession, Phase
<1> QED BY <1>9, <1>10, <1>11, <1>12, <1>13, <1>14, <1>15, <1>16, <1>17 DEF MuxInv

-----------------------------------------------------------------------------
(* Requests: what a session asks for, and the three ways it is served. *)

LEMMA NewRequestIsPlanned ==
  ASSUME MuxTypes, NEW token \in Token \union {NoToken}, NEW dedicated \in BOOLEAN,
         NEW plain \in BOOLEAN, NEW plainPlans \in SUBSET Route
  PROVE  LET r == NewRequest(token, dedicated, plain, plainPlans) IN
         /\ r \in Request /\ Planned(r) /\ r.token = token /\ r.dedicated = dedicated
         /\ r.phase = "idle"
<1> DEFINE r == NewRequest(token, dedicated, plain, plainPlans)
           plans == [i \in 1 .. Len(Routes) |->
                       [route |-> RouteOrder[i],
                        plain |-> plain \/ RouteOrder[i] \in plainPlans]]
<1>1. /\ Len(Routes) \in Nat \ {0}
      /\ \A i \in 1 .. Len(Routes) : RouteOrder[i] \in Route /\ RouteOrder[i] \in Range(Routes)
  <2>1. lastRoute \in DOMAIN Routes /\ Routes \in Seq(Route) /\ Len(Routes) \in Nat \ {0}
    BY MuxAssumption, LenProperties DEF MuxTypes
  <2>2. /\ RouteOrder \in Seq(Route) /\ Len(RouteOrder) = Len(Routes)
        /\ \A i \in 1 .. Len(Routes) : RouteOrder[i] \in Range(Routes)
    BY <2>1, RouteOrderIsOfRoutes
  <2> QED BY <2>1, <2>2, ElementOfSeq
<1>2. plans \in Seq(Key) /\ DOMAIN plans = 1 .. Len(Routes)
  BY <1>1 DEF Key
<1>3. NoRequest \in Request /\ NoRequest.phase = "idle"
  BY DEF NoRequest, Request
<1>4. r = [NoRequest EXCEPT !.token = token, !.dedicated = dedicated, !.at = 1, !.plans = plans]
  BY DEF NewRequest
<1> HIDE DEF plans, r
<1>5. /\ r \in Request /\ r.token = token /\ r.dedicated = dedicated /\ r.at = 1
      /\ r.plans = plans /\ r.phase = "idle"
  BY <1>2, <1>3, <1>4 DEF Request, NoRequest
<1>6. Planned(r)
  BY <1>1, <1>2, <1>5 DEF Planned, plans
<1> QED BY <1>5, <1>6 DEF r

LEMMA ReplacedIsListed ==
  ASSUME LeaseInv, NEW r, NEW c, ReplacedElsewhere(r, c) # {}
  PROVE  ReplacedElsewhere(r, c) \subseteq Conn
BY DEF ReplacedElsewhere, Replaced, Listed, LeaseInv, LeaseTypeOK

LEMMA RouteIndexIsOfRoutes ==
  ASSUME NEW r, Planned(r)
  PROVE  RouteIndex(r) \in DOMAIN Routes
BY DEF Planned, RouteIndex, Range

\* A session that shares a transport has its lease and its plan.
LEMMA ShareStep ==
  ASSUME LeaseInv, MuxInv, NEW h \in Holder, NEW c \in Conn, NEW r \in Request, Planned(r),
         NEW marked \in SUBSET Conn,
         Acquire(h, c), SetRequest(h, Connected(r, c, TRUE)),
         r.token # NoToken => dial[c].token = r.token,
         superseded' = superseded \union marked, lastRoute' \in DOMAIN Routes,
         UNCHANGED <<dial, pending, plainKeys, born>>, gestures' \subseteq Token
  PROVE  MuxInv'
<1> DEFINE s == Connected(r, c, TRUE)
<1>1. /\ c \in Listed /\ Listed' = Listed /\ transport' = transport
      /\ \A k \in Holder : Unreleased(k)' <=> (k = h \/ Unreleased(k))
  BY AcquireEffect
<1>2. dial[c].phase = "ready"
  BY <1>1 DEF MuxInv, BirthsAreReady, Listed, LeaseInv, RecordPhases
<1>3. /\ s \in Request /\ s.phase = "connected" /\ s.on = c /\ s.token = r.token
      /\ s.plans = r.plans /\ s.at = r.at
  BY DEF Connected, Request
<1>4. FollowsDial(s)
  BY <1>2, <1>3 DEF FollowsDial, Planned
<1>5. LeasesAreCalm
  BY <1>1 DEF LeasesAreCalm
<1> HIDE DEF s
<1>6. SetRequest(h, s)
  BY DEF s
<1>7. \A k \in Holder : Unreleased(k)' <=> IF k = h THEN s.phase \in {"connected", "shell"}
                                                     ELSE Unreleased(k)
  BY <1>1, <1>3
<1> QED BY <1>3, <1>4, <1>5, <1>6, <1>7, RequestStep DEF MuxInv, MuxTypes

LEMMA ShareKeepsMux ==
  ASSUME LeaseInv, MuxInv, NEW h \in Holder, NEW c \in Conn, NEW r \in Request, Planned(r),
         Share(h, r, c), r.token # NoToken => dial[c].token = r.token, gestures' \subseteq Token
  PROVE  MuxInv'
<1>1. ReplacedElsewhere(r, c) \in SUBSET Conn
  BY ReplacedIsListed
<1>2. lastRoute' \in DOMAIN Routes
  BY RouteIndexIsOfRoutes DEF Share
<1> QED BY <1>1, <1>2, ShareStep DEF Share

LEMMA JoinKeepsMux ==
  ASSUME LeaseInv, MuxInv, NEW h \in Holder, NEW c, NEW r \in Request, Planned(r),
         Phase(h) \notin {"connected", "shell"}, c \in Joinable(r, r.plans[r.at]),
         Join(h, r, c), gestures' \subseteq Token
  PROVE  MuxInv'
<1> DEFINE s == [r EXCEPT !.phase = "waiting", !.on = c]
           key == r.plans[r.at]
<1>1. key \in Key
  BY LenProperties, ElementOfSeq DEF Request, Planned
<1>2. PICK i \in DOMAIN pending[key] : pending[key][i] = c
  BY DEF Joinable, Range
<1>3. c \in Conn /\ dial[c].phase = "flying" /\ dial[c].key = key
  BY <1>1, <1>2, MuxElements DEF MuxInv, PendingFlies
<1>4. r.token # NoToken => dial[c].token = r.token
  BY DEF Joinable
<1>5. /\ s \in Request /\ s.phase = "waiting" /\ s.on = c /\ s.token = r.token
      /\ s.plans = r.plans /\ s.at = r.at
  BY <1>3 DEF Request
<1>6. FollowsDial(s)
  BY <1>3, <1>4, <1>5 DEF FollowsDial, Planned
<1>7. leaseVars' = leaseVars
  BY DEF Join
<1>8. LeasesAreCalm /\ \A k \in Holder : Unreleased(k)' <=> Unreleased(k)
  BY <1>7 DEF LeasesAreCalm, leaseVars, registryVars, Listed, Unreleased
<1>9. SetRequest(h, s)
  BY DEF Join
<1> HIDE DEF s
<1>10. \A k \in Holder : Unreleased(k)' <=> IF k = h THEN s.phase \in {"connected", "shell"}
                                                      ELSE Unreleased(k)
  BY <1>5, <1>8 DEF MuxInv, NoLeaseWithoutSession
<1> QED BY <1>3, <1>5, <1>6, <1>8, <1>9, <1>10, RequestStep DEF MuxInv, MuxTypes, Join

\* Nothing joinable means that no dial of the plan has the request's gesture.
LEMMA NothingToJoin ==
  ASSUME MuxInv, NEW r \in Request, Planned(r), Joinable(r, r.plans[r.at]) = {}
  PROVE  \A i \in DOMAIN pending[r.plans[r.at]] : dial[pending[r.plans[r.at]][i]].token # r.token
<1> DEFINE key == r.plans[r.at]
<1>1. key \in Key
  BY LenProperties, ElementOfSeq DEF Request, Planned
<1>2. Len(pending[key]) \in Nat /\ DOMAIN pending[key] = 1 .. Len(pending[key])
  BY <1>1, MuxElements DEF MuxInv
<1>3. CASE r.token # NoToken
  BY <1>3 DEF Joinable, Range
<1>4. CASE r.token = NoToken
  <2>1. \A i \in DOMAIN pending[key] : pending[key][i] # Last(pending[key])
    BY <1>4 DEF Joinable, Range
  <2>2. DOMAIN pending[key] = {}
    BY <1>2, <2>1 DEF Last
  <2> QED BY <2>2
<1> QED BY <1>3, <1>4

LEMMA TryRouteKeepsMux ==
  ASSUME LeaseInv, MuxInv, NEW h \in Holder, NEW r \in Request, Planned(r),
         Phase(h) \notin {"connected", "shell"}, TryRoute(h, r), gestures' \subseteq Token
  PROVE  MuxInv'
<1> DEFINE key == r.plans[r.at]
<1>1. PICK healthy \in SUBSET Listed :
        LET shared == IF r.dedicated THEN {} ELSE Candidates(key, r.token, healthy)
            joined == IF r.dedicated THEN {} ELSE Joinable(r, key)
        IN  \/ \E c \in LeastBusy(shared) : Share(h, r, c)
            \/ /\ shared = {}
               /\ \E c \in joined : Join(h, r, c)
            \/ /\ shared = {} /\ joined = {}
               /\ StartDial(h, r)
               /\ UNCHANGED <<leaseVars, plainKeys>>
  BY DEF TryRoute
<1>2. ASSUME NEW c \in LeastBusy(Candidates(key, r.token, healthy)), Share(h, r, c)
      PROVE  MuxInv'
  <2>1. c \in Listed /\ c \in Conn /\ (r.token # NoToken => dial[c].token = r.token)
    BY <1>2 DEF LeastBusy, Candidates, Eligible, Listed, LeaseInv, LeaseTypeOK
  <2> QED BY <1>2, <2>1, ShareKeepsMux
<1>3. ASSUME NEW c \in Joinable(r, key), Join(h, r, c)
      PROVE  MuxInv'
  BY <1>3, JoinKeepsMux
<1>4. ASSUME r.dedicated \/ Joinable(r, key) = {}, StartDial(h, r),
             UNCHANGED <<leaseVars, plainKeys>>
      PROVE  MuxInv'
  <2>1. ~r.dedicated => \A i \in DOMAIN pending[key] : dial[pending[key][i]].token # r.token
    BY <1>4, NothingToJoin
  <2>2. LeasesAreCalm /\ \A k \in Holder : Unreleased(k)' <=> Unreleased(k)
    BY <1>4 DEF LeasesAreCalm, leaseVars, registryVars, Listed, Unreleased
  <2>3. ~Unreleased(h)
    BY DEF MuxInv, NoLeaseWithoutSession
  <2> QED BY <1>4, <2>1, <2>2, <2>3, StartDialStep DEF MuxInv, MuxTypes
<1> QED BY <1>1, <1>2, <1>3, <1>4 DEF LeastBusy

-----------------------------------------------------------------------------
(* The steps. *)

LEMMA ConnectKeepsMux ==
  ASSUME LeaseInv, MuxInv, NEW h \in Holder, NEW t \in Token \union {NoToken}, Connect(h, t)
  PROVE  MuxInv'
<1> DEFINE r == NewRequest(t, FALSE, FALSE, plainKeys)
<1>1. r \in Request /\ Planned(r) /\ r.token = t
  BY NewRequestIsPlanned DEF MuxInv, MuxTypes
<1>2. Phase(h) \notin {"connected", "shell"}
  BY DEF Connect
<1>3. gestures' \subseteq Token
  BY DEF Connect, MuxInv, MuxTypes
<1>4. \/ TryRoute(h, r)
      \/ t = NoToken /\ \E healthy \in SUBSET Listed : ShareAnyRoute(h, r, healthy)
  BY DEF Connect
<1> HIDE DEF r
<1>5. CASE TryRoute(h, r)
  BY <1>1, <1>2, <1>3, <1>5, TryRouteKeepsMux
<1>6. ASSUME t = NoToken, NEW healthy \in SUBSET Listed, ShareAnyRoute(h, r, healthy)
      PROVE  MuxInv'
  <2>0. PICK i \in DOMAIN r.plans :
          /\ \E c \in LeastBusy(Candidates(r.plans[i], NoToken, healthy)) :
               /\ Acquire(h, c)
               /\ SetRequest(h, Connected([r EXCEPT !.at = i], c, TRUE))
          /\ UNCHANGED <<dial, pending, superseded, plainKeys, lastRoute, born>>
    BY <1>6 DEF ShareAnyRoute
  <2>1. PICK c \in LeastBusy(Candidates(r.plans[i], NoToken, healthy)) :
          /\ Acquire(h, c)
          /\ SetRequest(h, Connected([r EXCEPT !.at = i], c, TRUE))
          /\ UNCHANGED <<dial, pending, superseded, plainKeys, lastRoute, born>>
    BY <2>0
  <2>2. c \in Conn
    BY <2>1 DEF LeastBusy, Candidates, Eligible, Listed, LeaseInv, LeaseTypeOK
  <2>3. i \in Nat
    BY <1>1, <2>0, LenProperties DEF Request
  <2> DEFINE s == [r EXCEPT !.at = i]
  <2>4. s \in Request /\ Planned(s) /\ s.token = NoToken
    BY <1>1, <1>6, <2>0, <2>3 DEF Request, Planned
  <2>6. SetRequest(h, Connected(s, c, TRUE))
    BY <2>1
  <2> HIDE DEF s
  <2>5. /\ superseded' = superseded \union {} /\ {} \in SUBSET Conn
        /\ UNCHANGED <<dial, pending, plainKeys, born>> /\ lastRoute' \in DOMAIN Routes
    BY <2>1 DEF MuxInv, MuxTypes
  <2> QED BY <1>3, <2>1, <2>2, <2>4, <2>5, <2>6, ShareStep
<1> QED BY <1>4, <1>5, <1>6

LEMMA ResumeWaiterKeepsMux ==
  ASSUME LeaseInv, MuxInv, NEW h \in Holder, ResumeWaiter(h)
  PROVE  MuxInv'
<1> USE DEF MuxInv
<1>1. Phase(h) = "waiting" /\ dial[req[h].on].phase = "ready"
  BY DEF ResumeWaiter
<1>2. /\ req[h] \in Request /\ Planned(req[h]) /\ req[h].on \in Conn /\ req[h].on \in Listed
      /\ req[h].token # NoToken => dial[req[h].on].token = req[h].token
  BY <1>1 DEF MuxTypes, RequestFollowsDial, WaitersGetTheNewest
<1>3. Share(h, req[h], req[h].on) /\ gestures' \subseteq Token
  BY <1>2 DEF ResumeWaiter, MuxTypes
<1> QED BY <1>2, <1>3, ShareKeepsMux

LEMMA NextRouteKeepsMux ==
  ASSUME LeaseInv, MuxInv, NEW h \in Holder, NextRoute(h)
  PROVE  MuxInv'
<1> USE DEF MuxInv
<1> DEFINE r == [req[h] EXCEPT !.at = @ + 1]
<1>1. Phase(h) \in {"dialing", "waiting"} /\ req[h] \in Request /\ Planned(req[h])
  BY DEF NextRoute, RouteFailed, Settled, MuxTypes, RequestFollowsDial
<1>2. /\ req[h].plans \in Seq(Key) /\ req[h].at \in DOMAIN req[h].plans
      /\ req[h].at < Len(req[h].plans)
  BY <1>1 DEF NextRoute, Request, Planned
<1>3. req[h].at + 1 \in DOMAIN req[h].plans /\ req[h].at + 1 \in Nat
  BY <1>2, LenProperties
<1>4. r \in Request /\ Planned(r)
  BY <1>1, <1>3 DEF Request, Planned
<1>5. TryRoute(h, r) /\ gestures' \subseteq Token
  BY DEF NextRoute, MuxTypes
<1> QED BY <1>1, <1>4, <1>5, TryRouteKeepsMux

\* The request of h is over, or its shell is open.
LEMMA SettledRequestStep ==
  ASSUME LeaseInv, MuxInv, LeasesAreCalm, NEW h \in Holder, NEW r,
         \/ r = NoRequest \/ r = [NoRequest EXCEPT !.phase = "failed"]
         \/ Phase(h) = "connected" /\ r = [req[h] EXCEPT !.phase = "shell"],
         SetRequest(h, r),
         \A k \in Holder : Unreleased(k)' <=> IF k = h THEN r.phase = "shell" ELSE Unreleased(k),
         UNCHANGED <<dial, pending, superseded, plainKeys, lastRoute, born, gestures>>
  PROVE  MuxInv'
<1> USE DEF MuxInv
<1>1. CASE r = NoRequest \/ r = [NoRequest EXCEPT !.phase = "failed"]
  <2>0. NoRequest \in Request /\ NoRequest.phase = "idle"
    BY DEF NoRequest, Request
  <2>1. r \in Request /\ r.phase \in {"idle", "failed"}
    BY <1>1, <2>0 DEF Request
  <2> QED BY <2>1, RequestStep DEF FollowsDial, MuxTypes
<1>2. CASE Phase(h) = "connected" /\ r = [req[h] EXCEPT !.phase = "shell"]
  <2>1. /\ r \in Request /\ r.phase = "shell" /\ r.on = req[h].on /\ r.token = req[h].token
        /\ r.plans = req[h].plans /\ r.at = req[h].at
    BY <1>2 DEF Request, MuxTypes
  <2>2. FollowsDial(r)
    BY <1>2, <2>1 DEF FollowsDial, RequestFollowsDial, Planned
  <2> QED BY <2>1, <2>2, RequestStep DEF MuxTypes
<1> QED BY <1>1, <1>2

LEMMA UnchangedLeases ==
  ASSUME UNCHANGED leaseVars
  PROVE  LeasesAreCalm /\ \A k \in Holder : Unreleased(k)' <=> Unreleased(k)
BY DEF LeasesAreCalm, leaseVars, registryVars, Listed, Unreleased

LEMMA GiveUpKeepsMux ==
  ASSUME LeaseInv, MuxInv, NEW h \in Holder, GiveUp(h)
  PROVE  MuxInv'
<1>1. Phase(h) \in {"dialing", "waiting"}
  BY DEF GiveUp, RouteFailed, Settled
<1>2. LeasesAreCalm /\ \A k \in Holder : Unreleased(k)' <=> Unreleased(k)
  BY UnchangedLeases DEF GiveUp
<1>3. [NoRequest EXCEPT !.phase = "failed"].phase = "failed"
  BY DEF NoRequest
<1>4. \A k \in Holder : Unreleased(k)' <=> IF k = h THEN FALSE ELSE Unreleased(k)
  BY <1>1, <1>2 DEF MuxInv, NoLeaseWithoutSession
<1> QED BY <1>2, <1>3, <1>4, SettledRequestStep DEF GiveUp

LEMMA ShellOpensKeepsMux ==
  ASSUME LeaseInv, MuxInv, NEW h \in Holder, ShellOpens(h)
  PROVE  MuxInv'
<1>1. Phase(h) = "connected" /\ Unreleased(h)
  BY DEF ShellOpens, MuxInv, NoLeaseWithoutSession
<1>2. LeasesAreCalm /\ \A k \in Holder : Unreleased(k)' <=> Unreleased(k)
  BY UnchangedLeases DEF ShellOpens
<1>3. [req[h] EXCEPT !.phase = "shell"].phase = "shell"
  BY DEF MuxInv, MuxTypes, Request
<1> QED BY <1>1, <1>2, <1>3, SettledRequestStep DEF ShellOpens

LEMMA ShellRefusedKeepsMux ==
  ASSUME LeaseInv, MuxInv, NEW h \in Holder, ShellRefused(h)
  PROVE  MuxInv'
<1> DEFINE r == NewRequest(NoToken, TRUE, FALSE, plainKeys)
<1>1. Release(h) /\ Quiet
  BY DEF ShellRefused, GiveBack
<1>2. /\ LeasesAreCalm
      /\ \A k \in Holder : Unreleased(k)' <=> (k # h /\ Unreleased(k))
  BY <1>1, ReleaseEffect DEF LeasesAreCalm
<1>3. CASE req[h].reused
  <2>1. r \in Request /\ Planned(r) /\ r.dedicated
    BY NewRequestIsPlanned DEF MuxInv, MuxTypes
  <2>2. StartDial(h, r) /\ plainKeys' \subseteq Route /\ gestures' \subseteq Token
    BY <1>3 DEF ShellRefused, MuxInv, MuxTypes
  <2> QED BY <1>2, <2>1, <2>2, StartDialStep
<1>4. CASE ~req[h].reused
  <2>1. [NoRequest EXCEPT !.phase = "failed"].phase = "failed"
    BY DEF NoRequest
  <2>2. /\ SetRequest(h, [NoRequest EXCEPT !.phase = "failed"])
        /\ UNCHANGED <<dial, pending, superseded, plainKeys, lastRoute, born, gestures>>
    BY <1>4 DEF ShellRefused
  <2> QED BY <1>2, <2>1, <2>2, SettledRequestStep
<1> QED BY <1>3, <1>4

LEMMA ShellKillsTransportKeepsMux ==
  ASSUME LeaseInv, MuxInv, NEW h \in Holder, ShellKillsTransport(h)
  PROVE  MuxInv'
<1> DEFINE r == NewRequest(NoToken, TRUE, TRUE, plainKeys)
<1>1. Release(h) /\ Quiet /\ Phase(h) = "connected"
  BY DEF ShellKillsTransport, GiveBack
<1>2. /\ LeasesAreCalm
      /\ \A k \in Holder : Unreleased(k)' <=> (k # h /\ Unreleased(k))
  BY <1>1, ReleaseEffect DEF LeasesAreCalm
<1>3. r \in Request /\ Planned(r) /\ r.dedicated
  BY NewRequestIsPlanned DEF MuxInv, MuxTypes
<1>4. StartDial(h, r) /\ gestures' \subseteq Token
  BY DEF ShellKillsTransport, MuxInv, MuxTypes
<1>5. plainKeys' \subseteq Route
  <2>1. req[h].on \in Conn
    BY <1>1 DEF MuxInv, RequestFollowsDial
  <2>2. dial[req[h].on].key.route \in Route
    BY <2>1 DEF MuxInv, MuxTypes, DialRecord, Key
  <2> QED BY <2>2 DEF ShellKillsTransport, MuxInv, MuxTypes
<1> QED BY <1>2, <1>3, <1>4, <1>5, StartDialStep

LEMMA LeaveKeepsMux ==
  ASSUME LeaseInv, MuxInv, NEW h \in Holder, Leave(h)
  PROVE  MuxInv'
<1>1. Release(h) /\ Quiet
  BY DEF Leave
<1>2. /\ LeasesAreCalm
      /\ \A k \in Holder : Unreleased(k)' <=> (k # h /\ Unreleased(k))
  BY <1>1, ReleaseEffect DEF LeasesAreCalm
<1>3. NoRequest.phase = "idle"
  BY DEF NoRequest
<1> QED BY <1>2, <1>3, SettledRequestStep DEF Leave

\* Nothing of the sessions changes, and no transport is born.
LEMMA QuietMuxStep ==
  ASSUME MuxInv, LeasesAreCalm, \A k \in Holder : Unreleased(k)' <=> Unreleased(k),
         UNCHANGED muxVars
  PROVE  MuxInv'
<1> USE DEF MuxInv, muxVars
<1>1. MuxTypes' /\ DialsKnowTheirGesture' /\ TokensDiffer' /\ PendingFlies'
  BY DEF MuxTypes, DialsKnowTheirGesture, TokensDiffer, PendingFlies
<1>2. RequestFollowsDial'
  BY DEF RequestFollowsDial, Phase, Planned
<1>3. WaitersGetTheNewest'
  BY DEF WaitersGetTheNewest, LeasesAreCalm, Quiet, Settled, Phase
<1>4. BirthsAreReady' /\ ReplacedAreMarked'
  BY DEF BirthsAreReady, ReplacedAreMarked, LeasesAreCalm
<1>5. NoLeaseWithoutSession'
  BY DEF NoLeaseWithoutSession, Phase
<1> QED BY <1>1, <1>2, <1>3, <1>4, <1>5

LEMMA TransportKeepsMux ==
  ASSUME LeaseInv, MuxInv, Transport \/ Shutdown
  PROVE  MuxInv'
<1>1. Quiet /\ UNCHANGED muxVars /\ ((\E c \in Conn : Lose(c) \/ SocketClosed(c)) \/ CloseAll)
  BY DEF Transport, Shutdown
<1>2. LeasesAreCalm /\ \A k \in Holder : Unreleased(k)' <=> Unreleased(k)
  BY <1>1, TransportEffect DEF LeasesAreCalm
<1> QED BY <1>1, <1>2, QuietMuxStep

\* A dial that leaves pendingDials leaves the others as they were.
LEMMA UnlistKeepsOrder ==
  ASSUME MuxTypes, TokensDiffer, NEW c \in Conn, pending' = Unlist(c)
  PROVE  /\ pending' \in [Key -> Seq(Conn)]
         /\ \A k \in Key : \A i \in DOMAIN pending'[k] :
              /\ pending'[k][i] # c
              /\ \E j \in DOMAIN pending[k] : pending'[k][i] = pending[k][j]
         /\ \A k \in Key : \A i, j \in DOMAIN pending'[k] :
              i # j => dial[pending'[k][i]].token # dial[pending'[k][j]].token
<1>1. \A k \in Key : pending'[k] = RemoveFirst(pending[k], c)
  BY DEF Unlist
<1>2. ASSUME NEW k \in Key
      PROVE  /\ pending'[k] \in Seq(Conn)
             /\ \A i \in DOMAIN pending'[k] :
                  /\ pending'[k][i] # c
                  /\ \E j \in DOMAIN pending[k] : pending'[k][i] = pending[k][j]
             /\ \A i, j \in DOMAIN pending'[k] :
                  i # j => dial[pending'[k][i]].token # dial[pending'[k][j]].token
  <2>1. /\ pending[k] \in Seq(Conn) /\ Len(pending[k]) \in Nat
        /\ DOMAIN pending[k] = 1 .. Len(pending[k])
    BY <1>2, MuxElements DEF MuxTypes
  <2>2. \A i, j \in DOMAIN pending[k] :
          i # j => dial[pending[k][i]].token # dial[pending[k][j]].token
    BY DEF TokensDiffer
  <2>3. CASE /\ RemoveFirst(pending[k], c) = pending[k]
             /\ \A i \in DOMAIN pending[k] : pending[k][i] # c
    BY <1>1, <2>1, <2>2, <2>3
  <2>4. ASSUME NEW n \in DOMAIN pending[k], pending[k][n] = c,
               RemoveFirst(pending[k], c) = RemoveAt(pending[k], n)
        PROVE  /\ pending'[k] \in Seq(Conn)
               /\ \A i \in DOMAIN pending'[k] :
                    /\ pending'[k][i] # c
                    /\ \E j \in DOMAIN pending[k] : pending'[k][i] = pending[k][j]
               /\ \A i, j \in DOMAIN pending'[k] :
                    i # j => dial[pending'[k][i]].token # dial[pending'[k][j]].token
    <3> DEFINE at(i) == IF i < n THEN i ELSE i + 1
    <3>1. /\ pending'[k] \in Seq(Conn) /\ DOMAIN pending'[k] = 1 .. Len(pending[k]) - 1
          /\ \A i \in DOMAIN pending'[k] :
               pending'[k][i] = IF i < n THEN pending[k][i] ELSE pending[k][i + 1]
      <4>1. /\ RemoveAt(pending[k], n) \in Seq(Conn)
            /\ DOMAIN RemoveAt(pending[k], n) = 1 .. Len(pending[k]) - 1
            /\ \A i \in 1 .. Len(pending[k]) - 1 :
                 RemoveAt(pending[k], n)[i] = IF i < n THEN pending[k][i] ELSE pending[k][i + 1]
        BY <2>1, <2>4, RemoveAtOfSeq
      <4>2. pending'[k] = RemoveAt(pending[k], n)
        BY <1>1, <2>4
      <4> QED BY <4>1, <4>2
    <3>2. \A i \in DOMAIN pending'[k] :
            /\ at(i) \in DOMAIN pending[k] /\ at(i) # n
            /\ pending'[k][i] = pending[k][at(i)]
      BY <2>1, <2>4, <3>1
    <3>3. \A i, j \in DOMAIN pending'[k] : i # j => at(i) # at(j)
      BY <2>1, <2>4, <3>1
    <3> HIDE DEF at
    <3>4. \A j \in DOMAIN pending[k] : j # n => pending[k][j] # c
      BY <2>2, <2>4
    <3> QED BY <2>2, <3>1, <3>2, <3>3, <3>4
  <2> QED BY <2>1, <2>3, <2>4, RemoveFirstOfSeq
<1>3. DOMAIN pending' = Key
  BY DEF Unlist
<1>4. pending' = [k \in Key |-> pending'[k]]
  BY <1>1 DEF Unlist
<1> QED BY <1>2, <1>4

\* The dial of h settles: its transport is ready, or it failed.
LEMMA SettledDial ==
  ASSUME MuxInv, NEW h \in Holder, Phase(h) = "dialing", dial[req[h].on].phase = "flying",
         NEW outcome \in {"ready", "failed", "route failed"},
         dial' = [dial EXCEPT ![req[h].on].phase = outcome],
         pending' = Unlist(req[h].on)
  PROVE  /\ req[h].on \in Conn /\ dial' \in [Conn -> DialRecord]
         /\ dial'[req[h].on].phase = outcome
         /\ \A d \in Conn : /\ d # req[h].on => dial'[d] = dial[d]
                            /\ dial'[d].key = dial[d].key /\ dial'[d].token = dial[d].token
                            /\ dial'[d].since = dial[d].since
         /\ pending' \in [Key -> Seq(Conn)]
         /\ DialsKnowTheirGesture' /\ TokensDiffer' /\ PendingFlies'
<1> DEFINE c == req[h].on
<1>1. c \in Conn
  BY DEF MuxInv, RequestFollowsDial
<1>2. dial[c] \in DialRecord
  BY <1>1 DEF MuxInv, MuxTypes
<1>3. /\ dial' \in [Conn -> DialRecord] /\ dial'[c].phase = outcome
      /\ \A d \in Conn : d # c => dial'[d] = dial[d]
      /\ dial'[c].key = dial[c].key /\ dial'[c].token = dial[c].token
      /\ dial'[c].since = dial[c].since
  BY <1>1, <1>2 DEF MuxInv, MuxTypes, DialRecord
<1> HIDE DEF c
<1>4. \A d \in Conn : /\ dial'[d].key = dial[d].key /\ dial'[d].token = dial[d].token
                      /\ dial'[d].since = dial[d].since
  BY <1>3
<1>5. /\ pending' \in [Key -> Seq(Conn)]
      /\ \A k \in Key : \A i \in DOMAIN pending'[k] :
           /\ pending'[k][i] # c
           /\ \E j \in DOMAIN pending[k] : pending'[k][i] = pending[k][j]
      /\ \A k \in Key : \A i, j \in DOMAIN pending'[k] :
           i # j => dial[pending'[k][i]].token # dial[pending'[k][j]].token
  BY <1>1, UnlistKeepsOrder DEF MuxInv, c
<1>6. \A k \in Key : \A i \in DOMAIN pending'[k] : pending'[k][i] \in Conn
  BY <1>5, MuxElements DEF MuxInv
<1>7. TokensDiffer'
  <2>1. SUFFICES ASSUME NEW k \in Key, NEW i \in DOMAIN pending'[k], NEW j \in DOMAIN pending'[k],
                        i # j
                 PROVE  dial'[pending'[k][i]].token # dial'[pending'[k][j]].token
    BY DEF TokensDiffer
  <2>2. pending'[k][i] \in Conn /\ pending'[k][j] \in Conn
    BY <1>6
  <2>3. dial[pending'[k][i]].token # dial[pending'[k][j]].token
    BY <1>5, <2>1
  <2> QED BY <1>4, <2>2, <2>3
<1>8. PendingFlies'
  <2>1. SUFFICES ASSUME NEW k \in Key, NEW i \in DOMAIN pending'[k]
                 PROVE  dial'[pending'[k][i]].phase = "flying" /\ dial'[pending'[k][i]].key = k
    BY DEF PendingFlies
  <2>2. PICK j \in DOMAIN pending[k] : pending'[k][i] = pending[k][j]
    BY <1>5, <2>1
  <2>3. dial[pending[k][j]].phase = "flying" /\ dial[pending[k][j]].key = k
    BY <2>2 DEF MuxInv, PendingFlies
  <2>4. pending'[k][i] \in Conn /\ pending'[k][i] # c
    BY <1>5, <1>6, <2>1
  <2> QED BY <1>3, <2>2, <2>3, <2>4
<1>9. DialsKnowTheirGesture'
  BY <1>4 DEF MuxInv, DialsKnowTheirGesture
<1> QED BY <1>1, <1>3, <1>4, <1>5, <1>7, <1>8, <1>9 DEF c

LEMMA DialFailsKeepsMux ==
  ASSUME LeaseInv, MuxInv, NEW h \in Holder, DialFails(h)
  PROVE  MuxInv'
<1> DEFINE c == req[h].on
<1>1. PICK outcome \in {"failed", "route failed"} : dial' = [dial EXCEPT ![c].phase = outcome]
  BY DEF DialFails
<1>2. /\ Quiet /\ Phase(h) = "dialing" /\ dial[c].phase = "flying" /\ pending' = Unlist(c)
      /\ UNCHANGED <<leaseVars, req, superseded, plainKeys, lastRoute, born, gestures>>
  BY DEF DialFails
<1>3. /\ c \in Conn /\ dial' \in [Conn -> DialRecord] /\ dial'[c].phase = outcome
      /\ \A d \in Conn : /\ d # c => dial'[d] = dial[d]
                         /\ dial'[d].key = dial[d].key /\ dial'[d].token = dial[d].token
      /\ pending' \in [Key -> Seq(Conn)]
      /\ DialsKnowTheirGesture' /\ TokensDiffer' /\ PendingFlies'
  BY <1>1, <1>2, SettledDial
<1> HIDE DEF c
<1>4. \A d \in Conn : /\ dial'[d].phase = "ready" <=> dial[d].phase = "ready"
                      /\ dial'[d].phase = "none" <=> dial[d].phase = "none"
  BY <1>1, <1>2, <1>3
<1>5. /\ Listed' = Listed /\ transport' = transport
      /\ \A k \in Holder : Unreleased(k)' <=> Unreleased(k)
  BY <1>2 DEF leaseVars, registryVars, Listed, Unreleased
<1>6. MuxTypes'
  BY <1>2, <1>3 DEF MuxInv, MuxTypes
<1>7. RequestFollowsDial'
  BY <1>2, <1>3, <1>4, ZenonT(40) DEF MuxInv, RequestFollowsDial, Phase, Planned
<1>8. WaitersGetTheNewest'
  BY <1>2, <1>4, <1>5 DEF MuxInv, WaitersGetTheNewest, RequestFollowsDial, Phase
<1>9. BirthsAreReady'
  BY <1>2, <1>4, <1>5, MuxElements DEF MuxInv, BirthsAreReady
<1>10. ReplacedAreMarked'
  <2>1. \A d \in Listed : d \in Conn
    BY DEF LeaseInv, LeaseTypeOK, Listed
  <2> QED BY <1>2, <1>3, <1>5, <2>1 DEF MuxInv, ReplacedAreMarked
<1>11. NoLeaseWithoutSession'
  BY <1>2, <1>5 DEF MuxInv, NoLeaseWithoutSession, Phase
<1> QED BY <1>3, <1>6, <1>7, <1>8, <1>9, <1>10, <1>11 DEF MuxInv

LEMMA DialReadyKeepsMux ==
  ASSUME LeaseInv, MuxInv, NEW h \in Holder, DialReady(h)
  PROVE  MuxInv'
<1> DEFINE r == req[h]
           c == req[h].on
           s == Connected(r, c, FALSE)
           b == [conn |-> c, replaces |-> IF r.token = NoToken THEN {} ELSE Range(r.plans)]
<1>1. /\ Quiet /\ Phase(h) = "dialing" /\ dial[c].phase = "flying" /\ Register(h, c)
      /\ dial' = [dial EXCEPT ![c].phase = "ready"] /\ pending' = Unlist(c)
      /\ superseded' = superseded \union Retired(r, c)
      /\ SetRequest(h, s) /\ lastRoute' = RouteIndex(r) /\ born' = Append(born, b)
      /\ UNCHANGED <<plainKeys, gestures>>
  BY DEF DialReady
<1>2. /\ c \in Conn /\ dial' \in [Conn -> DialRecord] /\ dial'[c].phase = "ready"
      /\ \A d \in Conn : /\ d # c => dial'[d] = dial[d]
                         /\ dial'[d].key = dial[d].key /\ dial'[d].token = dial[d].token
      /\ pending' \in [Key -> Seq(Conn)]
      /\ DialsKnowTheirGesture' /\ TokensDiffer' /\ PendingFlies'
  BY <1>1, SettledDial
<1>3. /\ Listed' = Listed \union {c}
      /\ transport[c] = "unborn" /\ transport' = [transport EXCEPT ![c] = "open"]
      /\ \A k \in Holder : Unreleased(k)' <=> (k = h \/ Unreleased(k))
  BY <1>1, <1>2, RegisterEffect
<1>4. /\ r \in Request /\ Planned(r) /\ dial[c].key = r.plans[r.at]
      /\ r.token # NoToken => dial[c].token = r.token
  BY <1>1 DEF MuxInv, MuxTypes, RequestFollowsDial, Phase
<1>5. /\ r.plans \in Seq(Key) /\ Range(r.plans) \subseteq Key
      /\ dial[c].key \in Range(r.plans)
  BY <1>4, RangeOfSeq DEF Request, Planned, Range
<1>6. /\ req' \in [Holder -> Request]
      /\ req'[h].phase = "connected" /\ req'[h].on = c /\ req'[h].token = r.token
      /\ req'[h].plans = r.plans /\ req'[h].at = r.at
      /\ \A k \in Holder : k # h => req'[k] = req[k]
  BY <1>1, <1>2, <1>4 DEF MuxInv, MuxTypes, SetRequest, Connected, Request
<1>7. /\ born' \in Seq(Birth) /\ Len(born') = Len(born) + 1 /\ Len(born) \in Nat
      /\ DOMAIN born = 1 .. Len(born) /\ DOMAIN born' = 1 .. Len(born) + 1
      /\ \A i \in 1 .. Len(born) : born'[i] = born[i]
      /\ born'[Len(born) + 1] = b
  <2>1. b \in Birth /\ born \in Seq(Birth)
    BY <1>2, <1>5 DEF Birth, MuxInv, MuxTypes
  <2>2. born' = Append(born, b)
    BY <1>1
  <2> HIDE DEF b
  <2>3. /\ born' \in Seq(Birth) /\ Len(born') = Len(born) + 1
        /\ \A i \in 1 .. Len(born) : born'[i] = born[i]
        /\ born'[Len(born) + 1] = b
    BY <2>1, <2>2, AppendProperties
  <2> QED BY <2>1, <2>3, LenProperties
<1>8. b.conn = c /\ b.replaces = IF r.token = NoToken THEN {} ELSE Range(r.plans)
  OBVIOUS
<1>9. /\ Retired(r, c) \subseteq Conn
      /\ r.token # NoToken => \A d \in Listed \ {c} : dial[d].key \in Range(r.plans)
                                                       => d \in Retired(r, c)
  <2>1. Retired(r, c) \subseteq Conn
    BY DEF Retired, ReplacedElsewhere, Replaced, Listed, LeaseInv, LeaseTypeOK
  <2>2. ASSUME r.token # NoToken, NEW d \in Listed \ {c}, dial[d].key \in Range(r.plans)
        PROVE  d \in Retired(r, c)
    <3>1. d \in Replaced(dial[d].key, c)
      BY <2>2 DEF Replaced
    <3>2. dial[d].key = dial[c].key \/ dial[d].key \in OtherPlans(r)
      BY <1>4, <2>2 DEF OtherPlans
    <3> QED BY <2>2, <3>1, <3>2 DEF Retired, ReplacedElsewhere
  <2> QED BY <2>1, <2>2
<1>10. lastRoute' \in DOMAIN Routes
  BY <1>1, <1>4, RouteIndexIsOfRoutes
<1>11. /\ superseded \subseteq superseded' /\ superseded' \subseteq Conn
       /\ r.token # NoToken => \A d \in Listed \ {c} : dial[d].key \in Range(r.plans)
                                                        => d \in superseded'
       /\ plainKeys' \subseteq Route /\ gestures' \subseteq Token
  BY <1>1, <1>9 DEF MuxInv, MuxTypes
<1>12. Quiet /\ Phase(h) = "dialing" /\ dial[c].phase = "flying"
  BY <1>1
<1> HIDE DEF c, r, s, b
<1>13. MuxTypes'
  BY <1>2, <1>6, <1>7, <1>10, <1>11 DEF MuxTypes
<1>14. \A d \in Conn : d = c \/ dial'[d] = dial[d]
  BY <1>2
<1>15. RequestFollowsDial'
  <2>1. SUFFICES ASSUME NEW k \in Holder, Phase(k)' \notin {"idle", "failed"}
                 PROVE  FollowsDial(req[k])'
    BY DEF RequestFollowsDial, FollowsDial, Phase, Planned
  <2>2. req'[k] \in Request
    BY <1>6
  <2>3. CASE k = h
    BY <1>2, <1>4, <1>6, <2>2, <2>3 DEF FollowsDial, Planned
  <2>4. CASE k # h
    <3>1. req'[k] = req[k] /\ FollowsDial(req[k]) /\ req[k].phase \notin {"idle", "failed"}
      BY <1>6, <2>1, <2>2, <2>4 DEF MuxInv, RequestFollowsDial, FollowsDial, Phase
    <3>2. dial'[req[k].on].phase \in {"ready", dial[req[k].on].phase}
      BY <1>2, <1>14, <3>1 DEF FollowsDial
    <3> QED BY <1>2, <3>1, <3>2 DEF FollowsDial, Planned
  <2> QED BY <2>3, <2>4
<1>16. WaitersGetTheNewest'
  <2>1. SUFFICES ASSUME NEW k \in Holder, req'[k].phase = "waiting",
                        dial'[req'[k].on].phase = "ready"
                 PROVE  /\ req'[k].on \in Listed' /\ born' # <<>>
                        /\ born'[Len(born')].conn = req'[k].on
    BY DEF WaitersGetTheNewest, Phase
  <2>2. k # h /\ req'[k] = req[k] /\ Phase(k) = "waiting" /\ req[k].on \in Conn
    BY <1>6, <2>1 DEF MuxInv, RequestFollowsDial, Phase
  <2>3. req[k].on = c
    <3>1. dial[req[k].on].phase = "flying"
      BY <1>12, <2>2 DEF Quiet, Settled
    <3> QED BY <1>14, <2>1, <2>2, <3>1
  <2> QED BY <1>3, <1>7, <1>8, <2>2, <2>3
<1>17. BirthsAreReady'
  <2>1. \A i \in DOMAIN born : born[i].conn \in Conn \ {c}
    BY <1>12, MuxElements DEF MuxInv, BirthsAreReady
  <2>2. \A d \in Conn : dial'[d].phase = "ready" <=> (d = c \/ dial[d].phase = "ready")
    BY <1>2
  <2>3. \A d \in Conn : dial'[d].phase = "ready" <=> transport'[d] # "unborn"
    BY <1>3, <2>2 DEF MuxInv, BirthsAreReady, LeaseInv, LeaseTypeOK
  <2>4. \A d \in Conn : dial'[d].phase = "ready" => \E i \in DOMAIN born' : born'[i].conn = d
    <3>1. SUFFICES ASSUME NEW d \in Conn, dial'[d].phase = "ready"
                   PROVE  \E i \in DOMAIN born' : born'[i].conn = d
      OBVIOUS
    <3>2. CASE d = c
      BY <1>7, <1>8, <3>2
    <3>3. CASE d # c
      <4>1. PICK i \in DOMAIN born : born[i].conn = d
        BY <2>2, <3>1, <3>3 DEF MuxInv, BirthsAreReady
      <4> QED BY <1>7, <4>1
    <3> QED BY <3>2, <3>3
  <2>5. \A i \in DOMAIN born' : dial'[born'[i].conn].phase = "ready"
    <3>1. SUFFICES ASSUME NEW i \in DOMAIN born'
                   PROVE  dial'[born'[i].conn].phase = "ready"
      OBVIOUS
    <3>2. CASE i \in DOMAIN born
      BY <1>7, <2>1, <2>2, <3>2 DEF MuxInv, BirthsAreReady
    <3>3. CASE i = Len(born) + 1
      BY <1>2, <1>7, <1>8, <3>3
    <3> QED BY <1>7, <3>2, <3>3
  <2>6. \A i, j \in DOMAIN born' : born'[i].conn = born'[j].conn => i = j
    <3>1. SUFFICES ASSUME NEW i \in DOMAIN born', NEW j \in DOMAIN born',
                          born'[i].conn = born'[j].conn, i # j
                   PROVE  FALSE
      OBVIOUS
    <3>2. \A l \in DOMAIN born' : l \in DOMAIN born \/ l = Len(born) + 1
      BY <1>7
    <3>3. \A l \in DOMAIN born : born'[l].conn = born[l].conn /\ born[l].conn # c
      BY <1>7, <2>1
    <3>4. born'[Len(born) + 1].conn = c
      BY <1>7, <1>8
    <3> QED BY <3>1, <3>2, <3>3, <3>4 DEF MuxInv, BirthsAreReady
  <2> QED BY <2>3, <2>4, <2>5, <2>6 DEF BirthsAreReady
<1>18. ReplacedAreMarked'
  <2>1. SUFFICES ASSUME NEW d \in Listed', NEW i \in DOMAIN born', NEW j \in DOMAIN born',
                        born'[j].conn = d, j < i, dial'[d].key \in born'[i].replaces
                 PROVE  d \in superseded'
    BY DEF ReplacedAreMarked
  <2>2. j \in DOMAIN born /\ born'[j] = born[j]
    BY <1>7, <2>1
  <2>3. d # c /\ d \in Listed /\ d \in Conn
    BY <1>3, <1>12, <2>1, <2>2, MuxElements DEF MuxInv, BirthsAreReady
  <2>4. dial'[d].key = dial[d].key
    BY <1>2, <2>3
  <2>5. CASE i \in DOMAIN born
    <3>1. d \in superseded
      BY <1>7, <2>1, <2>2, <2>3, <2>4, <2>5 DEF MuxInv, ReplacedAreMarked
    <3> QED BY <1>11, <3>1
  <2>6. CASE i = Len(born) + 1
    BY <1>7, <1>8, <1>11, <2>1, <2>3, <2>4, <2>6
  <2> QED BY <1>7, <2>5, <2>6
<1>19. NoLeaseWithoutSession'
  BY <1>3, <1>6 DEF MuxInv, NoLeaseWithoutSession, Phase
<1> QED BY <1>2, <1>13, <1>15, <1>16, <1>17, <1>18, <1>19 DEF MuxInv

-----------------------------------------------------------------------------
(* The theorems. *)

LEMMA MuxInit ==
  ASSUME Init
  PROVE  LeaseInv /\ MuxInv
<1> USE DEF Init, LeaseInit
<1>1. LeaseInv
  BY InitInv
<1>2. /\ Routes \in Seq(Route) /\ Len(Routes) \in Nat \ {0}
      /\ Routes[1] \in Route /\ 1 \in DOMAIN Routes
  BY MuxAssumption, LenProperties, ElementOfSeq
<1>3. NoDial \in DialRecord /\ NoDial.phase = "none" /\ NoDial.token = NoToken
  BY <1>2 DEF NoDial, DialRecord, Key
<1>4. NoRequest \in Request /\ NoRequest.phase = "idle"
  BY DEF NoRequest, Request
<1>5. \A h \in Holder : req[h] = NoRequest /\ Phase(h) = "idle"
  BY <1>4 DEF Phase
<1>6. MuxTypes
  BY <1>2, <1>3, <1>4 DEF MuxTypes
<1>7. RequestFollowsDial /\ WaitersGetTheNewest
  BY <1>5 DEF RequestFollowsDial, WaitersGetTheNewest
<1>8. DialsKnowTheirGesture
  BY <1>3 DEF DialsKnowTheirGesture
<1>9. TokensDiffer /\ PendingFlies
  BY DEF TokensDiffer, PendingFlies
<1>10. BirthsAreReady /\ ReplacedAreMarked
  BY <1>3 DEF BirthsAreReady, ReplacedAreMarked
<1>11. NoLeaseWithoutSession
  BY <1>5 DEF NoLeaseWithoutSession, Unreleased
<1> QED BY <1>1, <1>6, <1>7, <1>8, <1>9, <1>10, <1>11 DEF MuxInv

LEMMA StartDialLeavesLeases ==
  ASSUME NEW h, NEW r, TryRoute(h, r), h \in Holder, LeaseInv
  PROVE  [LeaseNext]_leaseVars
<1>1. ASSUME NEW c \in Conn, Acquire(h, c)
      PROVE  LeaseNext
  BY <1>1 DEF LeaseNext
<1>2. Listed \subseteq Conn
  BY DEF Listed, LeaseInv, LeaseTypeOK
<1> QED BY <1>1, <1>2 DEF TryRoute, Share, Join, LeastBusy, Candidates

\* Whatever the sessions do, the lease registry takes one of its steps.
LEMMA MuxStepIsLeaseStep ==
  ASSUME LeaseInv, MuxInv, [Next]_vars
  PROVE  [LeaseNext]_leaseVars
<1>1. Listed \subseteq Conn /\ \A h \in Holder : Phase(h) = "dialing" => req[h].on \in Conn
  BY DEF Listed, LeaseInv, LeaseTypeOK, MuxInv, RequestFollowsDial
<1>2. ASSUME NEW h \in Holder, NEW t \in Token \union {NoToken}, Connect(h, t)
      PROVE  [LeaseNext]_leaseVars
  <2>1. ASSUME NEW r, NEW healthy \in SUBSET Listed, ShareAnyRoute(h, r, healthy)
        PROVE  LeaseNext
    BY <1>1, <2>1 DEF ShareAnyRoute, LeastBusy, Candidates, LeaseNext
  <2> QED BY <1>2, <2>1, StartDialLeavesLeases DEF Connect
<1>3. ASSUME NEW h \in Holder, DialReady(h)
      PROVE  [LeaseNext]_leaseVars
  BY <1>1, <1>3 DEF DialReady, LeaseNext
<1>4. ASSUME NEW h \in Holder, ResumeWaiter(h)
      PROVE  [LeaseNext]_leaseVars
  BY <1>1, <1>4 DEF ResumeWaiter, Share, LeaseNext
<1>5. ASSUME NEW h \in Holder, NextRoute(h)
      PROVE  [LeaseNext]_leaseVars
  BY <1>5, StartDialLeavesLeases DEF NextRoute
<1>6. ASSUME NEW h \in Holder, DialFails(h) \/ GiveUp(h) \/ ShellOpens(h)
      PROVE  [LeaseNext]_leaseVars
  BY <1>6 DEF DialFails, GiveUp, ShellOpens
<1>7. ASSUME NEW h \in Holder, ShellRefused(h) \/ ShellKillsTransport(h) \/ Leave(h)
      PROVE  [LeaseNext]_leaseVars
  BY <1>7 DEF ShellRefused, ShellKillsTransport, Leave, GiveBack, LeaseNext
<1>8. CASE Transport \/ Shutdown
  BY <1>8 DEF Transport, Shutdown, LeaseNext
<1>9. CASE UNCHANGED vars
  BY <1>9 DEF vars
<1> QED BY <1>2, <1>3, <1>4, <1>5, <1>6, <1>7, <1>8, <1>9 DEF Next, Settle, Resume

LEMMA MuxStep ==
  ASSUME LeaseInv, MuxInv, [Next]_vars
  PROVE  LeaseInv' /\ MuxInv'
<1>1. LeaseInv'
  BY MuxStepIsLeaseStep, StepKeepsInv
<1>2. ASSUME NEW h \in Holder, NEW t \in Token \union {NoToken}, Connect(h, t)
      PROVE  MuxInv'
  BY <1>2, ConnectKeepsMux
<1>3. ASSUME NEW h \in Holder, Settle(h)
      PROVE  MuxInv'
  BY <1>3, DialReadyKeepsMux, DialFailsKeepsMux DEF Settle
<1>4. ASSUME NEW h \in Holder, Resume(h)
      PROVE  MuxInv'
  BY <1>4, ResumeWaiterKeepsMux, NextRouteKeepsMux, GiveUpKeepsMux DEF Resume
<1>5. ASSUME NEW h \in Holder,
             ShellOpens(h) \/ ShellRefused(h) \/ ShellKillsTransport(h) \/ Leave(h)
      PROVE  MuxInv'
  BY <1>5, ShellOpensKeepsMux, ShellRefusedKeepsMux, ShellKillsTransportKeepsMux, LeaveKeepsMux
<1>6. CASE Transport \/ Shutdown
  BY <1>1, <1>6, TransportKeepsMux
<1>7. CASE UNCHANGED vars
  <2>1. UNCHANGED leaseVars /\ UNCHANGED muxVars
    BY <1>7 DEF vars
  <2> QED BY <1>1, <2>1, UnchangedLeases, QuietMuxStep
<1> QED BY <1>1, <1>2, <1>3, <1>4, <1>5, <1>6, <1>7 DEF Next

LEMMA MuxInvariance == Spec => [](LeaseInv /\ MuxInv)
<1>1. Init => LeaseInv /\ MuxInv
  BY MuxInit
<1>2. LeaseInv /\ MuxInv /\ [Next]_vars => (LeaseInv /\ MuxInv)'
  BY MuxStep
<1> QED BY <1>1, <1>2, PTL DEF Spec

\* The requests, dials and lists of SshConnectionManager stay in their types, and
\* the remembered route stays one of the host's (connection-manager.ts:366-396).
THEOREM MuxTypesHold == Spec => []MuxTypeOK
<1>1. MuxInv => MuxTypeOK
  <2> SUFFICES ASSUME MuxInv
               PROVE  MuxTypeOK
    OBVIOUS
  <2>1. \A c \in Conn :
          dial[c].phase \in {"none", "flying", "ready", "failed", "route failed"}
    BY DEF MuxInv, MuxTypes, DialRecord
  <2> QED BY <2>1 DEF MuxInv, MuxTypes, MuxTypeOK
<1> QED BY <1>1, MuxInvariance, PTL

\* A gesture gets a transport that was dialed for it, and pendingDials hands out
\* one dial in flight per plan and gesture (connection-manager.ts:500-504, 707-770).
THEOREM GesturesShareFreshDials == Spec => []GesturesDialTogether
<1>1. MuxInv => GesturesDialTogether
  <2> SUFFICES ASSUME MuxInv
               PROVE  GesturesDialTogether
    OBVIOUS
  <2>1. FreshTransport
    BY DEF MuxInv, FreshTransport, RequestFollowsDial, DialsKnowTheirGesture
  <2>2. OneDialPerGesture
    <3>1. SUFFICES ASSUME NEW k \in Key, NEW i \in 1 .. Cardinality(Conn),
                          NEW j \in 1 .. Cardinality(Conn), i < j, j <= Len(pending[k])
                   PROVE  dial[pending[k][i]].token # dial[pending[k][j]].token
      BY DEF OneDialPerGesture
    <3>2. Len(pending[k]) \in Nat /\ DOMAIN pending[k] = 1 .. Len(pending[k])
      BY MuxElements DEF MuxInv
    <3>3. i \in DOMAIN pending[k] /\ j \in DOMAIN pending[k] /\ i # j
      BY <3>1, <3>2
    <3> QED BY <3>3 DEF MuxInv, TokensDiffer
  <2>3. PendingIsInFlight
    BY DEF MuxInv, PendingFlies, PendingIsInFlight, Range
  <2> QED BY <2>1, <2>2, <2>3 DEF GesturesDialTogether, DialsAreJoined
<1> QED BY <1>1, MuxInvariance, PTL

\* No way out of connect() and connectShell() leaves a lease behind
\* (connection-manager.ts:895-950).
THEOREM LeasesFollowSessions == Spec => []NoLeaseWithoutSession
<1>1. MuxInv => NoLeaseWithoutSession
  BY DEF MuxInv
<1> QED BY <1>1, MuxInvariance, PTL

\* The sharing manager uses the lease registry as its class comment demands, so
\* its transports live as the abstract lifetime says (connection-leases.ts:32-38).
THEOREM MuxImplementsLeases == Spec => LeaseSpec
<1>1. Init => LeaseInit
  BY DEF Init
<1>2. LeaseInv /\ MuxInv /\ [Next]_vars => [LeaseNext]_leaseVars
  BY MuxStepIsLeaseStep
<1> QED BY <1>1, <1>2, MuxInvariance, PTL DEF Spec, LeaseSpec

\* Through the registry, transports of the sharing manager open, are shared, and
\* close as TransportLifetime says (connection-leases.ts:32-38, 105-130).
THEOREM MuxImplementsLifetime == Spec => LifetimeSpec
BY MuxImplementsLeases, LeasesImplementLifetime, PTL

-----------------------------------------------------------------------------
(* Replaced transports are not handed out. *)

\* What a session that is put on c without a dial of its own is put on.
MayBeReused(c) ==
  c \in Listed /\ (c \notin superseded \/ (born # <<>> /\ born[Len(born)].conn = c))

LEMMA ReusedIsNotReplaced ==
  ASSUME LeaseInv, MuxInv, NEW c, MayBeReused(c), NEW i \in DOMAIN born,
         IndexOf(c) < i, dial[c].key \in born[i].replaces
  PROVE  FALSE
<1>1. c \in Conn /\ dial[c].phase = "ready"
  BY DEF MayBeReused, Listed, LeaseInv, LeaseTypeOK, RecordPhases, MuxInv, BirthsAreReady
<1>2. IndexOf(c) \in DOMAIN born /\ born[IndexOf(c)].conn = c
  BY <1>1 DEF IndexOf, MuxInv, BirthsAreReady
<1>3. c \in superseded
  BY <1>2 DEF MayBeReused, MuxInv, ReplacedAreMarked
<1>4. born # <<>> /\ born[Len(born)].conn = c
  BY <1>3 DEF MayBeReused
<1>5. Len(born) \in Nat /\ DOMAIN born = 1 .. Len(born)
  BY MuxElements DEF MuxInv
<1>6. IndexOf(c) = Len(born)
  BY <1>2, <1>4, <1>5 DEF MuxInv, BirthsAreReady
<1> QED BY <1>5, <1>6

\* A session that is put on c by sharing, not by its own dial.
Reuses(h, c) ==
  Gains(h, c) /\ req'[h].reused /\ req'[h].token = NoToken

LEMMA TryRouteReuses ==
  ASSUME MuxInv, NEW h \in Holder, NEW c \in Conn, Reuses(h, c),
         NEW k \in Holder, NEW r \in Request, TryRoute(k, r)
  PROVE  MayBeReused(c)
<1>1. PICK healthy \in SUBSET Listed :
        \/ \E d \in LeastBusy(Candidates(r.plans[r.at], r.token, healthy)) : Share(k, r, d)
        \/ \E d : Join(k, r, d)
        \/ StartDial(k, r)
  BY DEF TryRoute, LeastBusy
<1>2. req \in [Holder -> Request]
  BY DEF MuxInv, MuxTypes
<1>3. ASSUME NEW d \in LeastBusy(Candidates(r.plans[r.at], r.token, healthy)), Share(k, r, d)
      PROVE  MayBeReused(c)
  <2>1. req' = [req EXCEPT ![k] = Connected(r, d, TRUE)]
    BY <1>3 DEF Share, SetRequest
  <2>2. h = k
    BY <1>2, <2>1 DEF Reuses, Gains, Phase
  <2>3. req'[h] = Connected(r, d, TRUE)
    BY <1>2, <2>1, <2>2
  <2>4. d = c /\ r.token = NoToken
    BY <2>3 DEF Reuses, Gains, Connected, Request
  <2> QED BY <1>3, <2>4 DEF LeastBusy, Candidates, Eligible, MayBeReused
<1>4. ASSUME NEW d, Join(k, r, d)
      PROVE  FALSE
  BY <1>2, <1>4 DEF Join, SetRequest, Reuses, Gains, Phase, Request
<1>5. ASSUME StartDial(k, r)
      PROVE  FALSE
  BY <1>2, <1>5 DEF StartDial, SetRequest, Reuses, Gains, Phase, Request
<1> QED BY <1>1, <1>3, <1>4, <1>5

LEMMA StepReuses ==
  ASSUME LeaseInv, MuxInv, Next, NEW h \in Holder, NEW c \in Conn, Reuses(h, c)
  PROVE  MayBeReused(c)
<1>1. req \in [Holder -> Request]
  BY DEF MuxInv, MuxTypes
<1>2. ASSUME NEW k \in Holder, NEW t \in Token \union {NoToken}, Connect(k, t)
      PROVE  MayBeReused(c)
  <2> DEFINE r == NewRequest(t, FALSE, FALSE, plainKeys)
  <2>1. r \in Request
    BY NewRequestIsPlanned DEF MuxInv, MuxTypes
  <2>2. ASSUME NEW healthy \in SUBSET Listed, t = NoToken, ShareAnyRoute(k, r, healthy)
        PROVE  MayBeReused(c)
    <3>0. PICK i \in DOMAIN r.plans :
            \E d \in LeastBusy(Candidates(r.plans[i], NoToken, healthy)) :
              SetRequest(k, Connected([r EXCEPT !.at = i], d, TRUE))
      BY <2>2 DEF ShareAnyRoute
    <3>1. PICK d \in LeastBusy(Candidates(r.plans[i], NoToken, healthy)) :
            req' = [req EXCEPT ![k] = Connected([r EXCEPT !.at = i], d, TRUE)]
      BY <3>0 DEF SetRequest
    <3> HIDE DEF r
    <3>2. h = k
      BY <1>1, <3>1 DEF Reuses, Gains, Phase
    <3>3. req'[h].on = d
      BY <1>1, <2>1, <3>1, <3>2 DEF Connected, Request
    <3>4. d = c
      BY <3>3 DEF Reuses, Gains
    <3> QED BY <3>1, <3>4 DEF LeastBusy, Candidates, Eligible, MayBeReused
  <2>3. TryRoute(k, r) \/ \E healthy \in SUBSET Listed : t = NoToken /\ ShareAnyRoute(k, r, healthy)
    BY <1>2 DEF Connect
  <2> HIDE DEF r
  <2> QED BY <2>1, <2>2, <2>3, TryRouteReuses
<1>3. ASSUME NEW k \in Holder, DialReady(k)
      PROVE  FALSE
  <2>1. req' = [req EXCEPT ![k] = Connected(req[k], req[k].on, FALSE)]
    BY <1>3 DEF DialReady, SetRequest
  <2>2. h = k
    BY <1>1, <2>1 DEF Reuses, Gains, Phase
  <2>3. req'[h].reused = FALSE
    BY <1>1, <2>1, <2>2 DEF Connected, Request
  <2> QED BY <2>3 DEF Reuses
<1>4. ASSUME NEW k \in Holder, ResumeWaiter(k)
      PROVE  MayBeReused(c)
  <2>1. /\ req[k] \in Request /\ req[k].on \in Listed
        /\ born # <<>> /\ born[Len(born)].conn = req[k].on
    BY <1>1, <1>4 DEF ResumeWaiter, MuxInv, WaitersGetTheNewest
  <2>2. req' = [req EXCEPT ![k] = Connected(req[k], req[k].on, TRUE)]
    BY <1>4, <2>1 DEF ResumeWaiter, Share, SetRequest
  <2>3. h = k
    BY <1>1, <2>2 DEF Reuses, Gains, Phase
  <2>4. c = req[k].on
    BY <1>1, <2>2, <2>3 DEF Reuses, Gains, Connected, Request
  <2> QED BY <2>1, <2>4 DEF MayBeReused
<1>5. ASSUME NEW k \in Holder, NextRoute(k)
      PROVE  MayBeReused(c)
  <2> DEFINE r == [req[k] EXCEPT !.at = @ + 1]
  <2>1. r \in Request
    <3>1. req[k] \in Request /\ req[k].at + 1 \in Nat
      BY <1>1 DEF Request
    <3> QED BY <3>1 DEF Request
  <2>2. TryRoute(k, r)
    BY <1>5 DEF NextRoute
  <2> HIDE DEF r
  <2> QED BY <2>1, <2>2, TryRouteReuses
<1>6. ASSUME NEW k \in Holder, NEW r, req' = [req EXCEPT ![k] = r], r.phase # "connected"
      PROVE  FALSE
  BY <1>1, <1>6 DEF Reuses, Gains, Phase
<1>7. /\ NoRequest.phase = "idle" /\ [NoRequest EXCEPT !.phase = "failed"].phase = "failed"
      /\ \A k \in Holder : [req[k] EXCEPT !.phase = "shell"].phase = "shell"
  BY <1>1 DEF NoRequest, Request
<1>8. ASSUME NEW k \in Holder, NEW r \in Request, StartDial(k, r)
      PROVE  FALSE
  <2>1. PICK d : req' = [req EXCEPT ![k] = [r EXCEPT !.phase = "dialing", !.on = d]]
    BY <1>8 DEF StartDial, SetRequest
  <2>2. [r EXCEPT !.phase = "dialing", !.on = d].phase = "dialing"
    BY DEF Request
  <2> QED BY <1>6, <2>1, <2>2
<1>9. ASSUME NEW k \in Holder,
             GiveUp(k) \/ ShellOpens(k) \/ Leave(k) \/ ShellRefused(k) \/ ShellKillsTransport(k)
      PROVE  FALSE
  <2>1. /\ NewRequest(NoToken, TRUE, FALSE, plainKeys) \in Request
        /\ NewRequest(NoToken, TRUE, TRUE, plainKeys) \in Request
    BY NewRequestIsPlanned DEF MuxInv, MuxTypes
  <2> QED BY <1>6, <1>7, <1>8, <1>9, <2>1
          DEF GiveUp, ShellOpens, Leave, ShellRefused, ShellKillsTransport, SetRequest
<1>10. ASSUME req' = req
       PROVE  FALSE
  BY <1>10 DEF Reuses, Gains, Phase
<1> QED BY <1>2, <1>3, <1>4, <1>5, <1>9, <1>10
        DEF Next, Settle, DialFails, Resume, Transport, Shutdown, muxVars

\* A session without a token never lands on a transport that a forced reconnect
\* of the same host replaced (connection-manager.ts:568-575, 857-862).
THEOREM ReplacedStayRetired == Spec => ReplacedNotHandedOut
<1> DEFINE A == \A h \in Holder, c \in Conn :
                  Gains(h, c) /\ req'[h].reused /\ req'[h].token = NoToken =>
                    ~\E i \in DOMAIN born : IndexOf(c) < i /\ dial[c].key \in born[i].replaces
<1>1. LeaseInv /\ MuxInv /\ [Next]_vars => [A]_vars
  <2>1. SUFFICES ASSUME LeaseInv, MuxInv, Next, NEW h \in Holder, NEW c \in Conn,
                        Gains(h, c), req'[h].reused, req'[h].token = NoToken,
                        NEW i \in DOMAIN born, IndexOf(c) < i,
                        dial[c].key \in born[i].replaces
                 PROVE  FALSE
    OBVIOUS
  <2>2. MayBeReused(c)
    BY <2>1, StepReuses DEF Reuses
  <2> QED BY <2>1, <2>2, ReusedIsNotReplaced
<1>2. Spec => [][Next]_vars
  BY PTL DEF Spec
<1> HIDE DEF A
<1>3. Spec => [][A]_vars
  BY <1>1, <1>2, MuxInvariance, PTL
<1> QED BY <1>3 DEF A, ReplacedNotHandedOut
=============================================================================
