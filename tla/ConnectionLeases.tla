--------------------------- MODULE ConnectionLeases ---------------------------
(***************************************************************************)
(* ConnectionLeaseRegistry (server/src/ssh/connection-leases.ts) together  *)
(* with the lifecycle of the SSH transport it owns (the ManagedConnection  *)
(* built at the end of dialChain in server/src/ssh/connection-manager.ts). *)
(*                                                                         *)
(* Every consumer holds a lease; releasing it releases only that lease and *)
(* the transport is closed after the last one.  The transport may also be  *)
(* lost on its own, and the 'close' event that tells the registry about it *)
(* arrives later, so a lost transport is still handed out meanwhile.       *)
(***************************************************************************)
EXTENDS Integers, FiniteSets

CONSTANTS Conn,        \* transports; a value stands for the object and its id
          Holder,      \* consumers, each holding at most one live lease
          NoHandle,    \* a holder that never acquired anything
          MaxLeaseId   \* bound on nextLeaseId, so that TLC's state space ends

VARIABLES
  records,      \* the connections the registry maps (keys of `records`)
  leases,       \* leases[c]: the lease ids in c's record
  nextLeaseId,  \* nextLeaseId[c]: the next id c's record hands out
  closing,      \* closing[c]: c's record is closing
  handle,       \* handle[h]: the TransportLease object h got last
  transport,    \* transport[c]: the client underneath the managed connection
  closeCalls,   \* how often the registry called c.close() (for the properties)
  shutDown      \* the connections closeAll() took down (for the properties)

registryVars == <<records, leases, nextLeaseId, closing, handle, closeCalls, shutDown>>
leaseVars == <<registryVars, transport>>

Handle == [conn : Conn, id : Nat, released : BOOLEAN]

ASSUME LeaseAssumption == MaxLeaseId \in Nat \ {0, 1} /\ NoHandle \notin Handle

LeaseInit ==
  /\ records = {}
  /\ leases = [c \in Conn |-> {}]
  /\ nextLeaseId = [c \in Conn |-> 1]
  /\ closing = [c \in Conn |-> FALSE]
  /\ handle = [h \in Holder |-> NoHandle]
  /\ transport = [c \in Conn |-> "unborn"]
  /\ closeCalls = [c \in Conn |-> 0]
  /\ shutDown = {}

(***************************************************************************)
(* The registry's state as its callers see it.                             *)
(***************************************************************************)
Unreleased(h) == handle[h] # NoHandle /\ ~handle[h].released

\* h's lease still counts in its connection's record.
Live(h) == Unreleased(h) /\ handle[h].id \in leases[handle[h].conn]

\* get() and list(): the connections that are not closing.
Listed == {c \in records : ~closing[c]}

LeaseCount(c) == IF c \in Listed THEN Cardinality(leases[c]) ELSE 0

HoldersOf(c) == {h \in Holder : Unreleased(h) /\ handle[h].conn = c}

(***************************************************************************)
(* The managed connection.  close() ends the client once; the client's     *)
(* 'close' event follows in a later turn of the event loop.                *)
(***************************************************************************)
Ended(c) == IF transport[c] = "open" THEN "ending" ELSE transport[c]

\* The peer, the network or a jump hop took the transport; nobody here
\* knows before the 'close' event.
Lose(c) ==
  /\ transport[c] = "open"
  /\ transport' = [transport EXCEPT ![c] = "lost"]
  /\ UNCHANGED registryVars

(***************************************************************************)
(* acquire(): the lease closure is bound to the record, not to the map.    *)
(***************************************************************************)
IssueId(h, c, i) ==
  /\ handle' = [handle EXCEPT ![h] = [conn |-> c, id |-> i, released |-> FALSE]]
  /\ leases' = [leases EXCEPT ![c] = @ \union {i}]
  /\ nextLeaseId' = [nextLeaseId EXCEPT ![c] = @ + 1]

IssueBySize(h, c) == IssueId(h, c, Cardinality(leases[c]) + 1)   \* variant

Issue(h, c) == IssueId(h, c, nextLeaseId[c])

Acquire(h, c) ==
  /\ ~Unreleased(h)
  /\ c \in records /\ ~closing[c]
  /\ nextLeaseId[c] < MaxLeaseId
  /\ Issue(h, c)
  /\ UNCHANGED <<records, closing, transport, closeCalls, shutDown>>

\* register(): a fresh transport that just became ready; the id is new.
Register(h, c) ==
  /\ ~Unreleased(h)
  /\ transport[c] = "unborn" /\ c \notin records
  /\ records' = records \union {c}
  /\ transport' = [transport EXCEPT ![c] = "open"]
  /\ Issue(h, c)
  /\ UNCHANGED <<closing, closeCalls, shutDown>>

(***************************************************************************)
(* The release() closure of h's lease: idempotent, inert once the record   *)
(* is closing, and the last one closes the transport.                      *)
(***************************************************************************)
\* Variants: the size is read before the delete; a record that is already
\* closing is closed again.
LastReleaseEarly(h, c) == handle[h].id \in leases[c] /\ ~closing[c] /\ leases[c] = {}
LastReleaseAgain(h, c) == leases[c] \ {handle[h].id} = {}

LastRelease(h, c) ==
  /\ handle[h].id \in leases[c]
  /\ ~closing[c]
  /\ leases[c] \ {handle[h].id} = {}

ReleaseOnce(h, c) ==
  /\ handle' = [handle EXCEPT ![h].released = TRUE]
  /\ leases' = [leases EXCEPT ![c] = @ \ {handle[h].id}]
  /\ IF LastRelease(h, c)
       THEN /\ closing' = [closing EXCEPT ![c] = TRUE]
            /\ closeCalls' = [closeCalls EXCEPT ![c] = @ + 1]
            /\ transport' = [transport EXCEPT ![c] = Ended(c)]
       ELSE UNCHANGED <<closing, closeCalls, transport>>
  /\ UNCHANGED <<records, nextLeaseId, shutDown>>

Release(h) ==
  /\ handle[h] # NoHandle
  /\ IF handle[h].released THEN UNCHANGED leaseVars
                           ELSE ReleaseOnce(h, handle[h].conn)

(***************************************************************************)
(* The client's 'close' event: markClosed() forgets the record and every   *)
(* lease on it; it does nothing for a connection closeAll() already        *)
(* dropped.                                                                *)
(***************************************************************************)
MarkClosed(c) ==
  IF c \in records
    THEN /\ closing' = [closing EXCEPT ![c] = TRUE]
         /\ leases' = [leases EXCEPT ![c] = {}]
         /\ records' = records \ {c}
    ELSE UNCHANGED <<closing, leases, records>>

SocketClosed(c) ==
  /\ transport[c] \in {"ending", "lost"}
  /\ transport' = [transport EXCEPT ![c] = "closed"]
  /\ MarkClosed(c)
  /\ UNCHANGED <<nextLeaseId, handle, closeCalls, shutDown>>

\* closeAll(): application shutdown, whatever the leases.
CloseAll ==
  /\ records # {}
  /\ records' = {}
  /\ closing' = [c \in Conn |-> closing[c] \/ c \in records]
  /\ leases' = [c \in Conn |-> IF c \in records THEN {} ELSE leases[c]]
  /\ closeCalls' = [c \in Conn |-> IF c \in records THEN closeCalls[c] + 1
                                                    ELSE closeCalls[c]]
  /\ transport' = [c \in Conn |-> IF c \in records THEN Ended(c) ELSE transport[c]]
  /\ shutDown' = shutDown \union records
  /\ UNCHANGED <<nextLeaseId, handle>>

LeaseNext ==
  \/ \E h \in Holder, c \in Conn : Register(h, c) \/ Acquire(h, c)
  \/ \E h \in Holder : Release(h)
  \/ \E c \in Conn : Lose(c) \/ SocketClosed(c)
  \/ CloseAll

LeaseSpec == LeaseInit /\ [][LeaseNext]_leaseVars

-----------------------------------------------------------------------------
LeaseIds == 1 .. MaxLeaseId - 1

\* The variables stay in their types; ids stay below nextLeaseId's bound.
LeaseTypeOK ==
  /\ records \subseteq Conn
  /\ leases \in [Conn -> SUBSET LeaseIds]
  /\ nextLeaseId \in [Conn -> 1 .. MaxLeaseId]
  /\ closing \in [Conn -> BOOLEAN]
  /\ handle \in [Holder -> Handle \union {NoHandle}]
  /\ transport \in [Conn -> {"unborn", "open", "ending", "lost", "closed"}]
  /\ closeCalls \in [Conn -> Nat]
  /\ shutDown \subseteq Conn

\* Outside application shutdown the registry ends a transport only after
\* every consumer that ever leased it has released: a terminal that closes
\* never takes the transfer or the tunnel on the same transport with it
\* (release, connection-leases.ts:82-88).
ClosedAfterLastRelease ==
  \A c \in Conn : closeCalls[c] > 0 /\ c \notin shutDown => HoldersOf(c) = {}

\* The leases in a listed record are exactly those of the consumers that
\* still hold one, one each: what leaseCount() says (the least-busy choice
\* and "is another terminal on this transport" rely on it) is what is really
\* held, and no lease leaks (acquire, connection-leases.ts:73-90).
LeasesAreHeld ==
  \A c \in Listed :
    /\ leases[c] = {handle[h].id : h \in HoldersOf(c)}
    /\ \A h, k \in HoldersOf(c) : handle[h].id = handle[k].id => h = k

\* Each transport is closed at most once, however late or often the leases
\* of a lost or shut-down transport are released; only closeAll() may repeat
\* the close of one that is already closing (connection-leases.ts:82-109).
CloseCalledOnce ==
  \A c \in Conn : closeCalls[c] <= IF c \in shutDown THEN 2 ELSE 1

\* No transport is up and leased by nobody: it would stay connected until
\* the application ends (release, connection-leases.ts:82-88).
NoOrphanedTransport ==
  \A c \in Conn : transport[c] = "open" => HoldersOf(c) # {}

\* The registry's safety: what is counted is what is held, and a transport is
\* ended once, when it is no longer held (connection-leases.ts:73-109).
LeasesAreSafe == LeasesAreHeld /\ CloseCalledOnce /\ NoOrphanedTransport

\* A connection that stopped being handed out is never handed out again, in
\* whatever order its last release, its loss and the shutdown arrive
\* (acquire and markClosed, connection-leases.ts:73-98).
ClosingIsFinal ==
  [][\A c \in Conn : closing[c] =>
       /\ closing'[c]
       /\ leases'[c] \subseteq leases[c]
       /\ nextLeaseId'[c] = nextLeaseId[c]]_leaseVars

-----------------------------------------------------------------------------
\* The registry seen as the abstract lifetime of its transports.
AbstractPhase ==
  [c \in Conn |-> IF nextLeaseId[c] = 1 THEN "unborn"
                  ELSE IF c \in Listed THEN "up" ELSE "down"]

AbstractUsers == [c \in Conn |-> IF c \in Listed THEN HoldersOf(c) ELSE {}]

Lifetime == INSTANCE TransportLifetime WITH phase <- AbstractPhase, users <- AbstractUsers

\* Records, lease ids and late releases implement the lifetime that
\* TransportLifetime promises (class comment, connection-leases.ts:32-38).
LifetimeSpec == Lifetime!Spec
=============================================================================
