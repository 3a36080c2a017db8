---------------------------- MODULE NetconfSession ----------------------------
(***************************************************************************)
(* One NETCONF session (NetconfClient in                                   *)
(* server/src/management/netconf/client.ts): the hello exchange with its   *)
(* timeout, the queue of pending RPCs, their timeouts and cancellation,    *)
(* and the closing of the session.                                         *)
(*                                                                         *)
(* The server answers each RPC it received at most once and in order, with *)
(* the message-id or without; framing and XML are left out.                *)
(***************************************************************************)
EXTENDS Integers, Sequences, FiniteSets, SequencesExt

CONSTANTS MaxRpcs,    \* RPCs of one session, the closing one included
          Closers     \* callers of close()

ASSUME NetconfAssumption == MaxRpcs \in Nat \ {0}

Rpc == 1 .. MaxRpcs

VARIABLES
  session,   \* "hello", "open", "closed" or "failed"; the channel; the hello timer
  nextId,    \* nextMessageId
  pending,   \* pending: the message ids that still await a reply
  call,      \* call[i]: how the promise of RPC i settled, its timer, how often it settled
  wire,      \* RPCs the server received and has not answered
  closer     \* closer[c]: the RPC its close() awaits, 0 before and -1 after

netconfVars == <<session, nextId, pending, call, wire, closer>>

NoCall == [outcome |-> "none", timer |-> FALSE, settled |-> 0]

NetconfInit ==
  /\ session = [state |-> "hello", channel |-> "open", timer |-> TRUE]
  /\ nextId = 1
  /\ pending = <<>>
  /\ call = [i \in Rpc |-> NoCall]
  /\ wire = <<>>
  /\ closer = [c \in Closers |-> 0]

-----------------------------------------------------------------------------
(* open() *)

HelloReceived ==
  /\ session.state = "hello" /\ session.channel = "open"
  /\ session' = [session EXCEPT !.state = "open", !.timer = FALSE]
  /\ UNCHANGED <<nextId, pending, call, wire, closer>>

\* fail(): the timeout, a malformed hello, or the channel goes.
HelloFails ==
  /\ session.state = "hello"
  /\ session' = [state |-> "failed", channel |-> "destroyed", timer |-> FALSE]
  /\ UNCHANGED <<nextId, pending, call, wire, closer>>

-----------------------------------------------------------------------------
(* Calls *)

\* resolve() and reject() of an entry: the first settles its promise.
Settle(calls, i, outcome) ==
  IF calls[i].outcome # "waiting" THEN calls
  ELSE [calls EXCEPT ![i] = [outcome |-> outcome, timer |-> FALSE, settled |-> @.settled + 1]]

Waits == [outcome |-> "waiting", timer |-> TRUE, settled |-> 0]

\* rpc(); a signal that is already aborted keeps the RPC from the queue.
RpcIssued(aborted) ==
  /\ nextId \in Rpc /\ nextId' = nextId + 1
  /\ IF aborted
       THEN /\ call' = Settle([call EXCEPT ![nextId] = Waits], nextId, "cancelled")
            /\ UNCHANGED <<pending, wire>>
       ELSE /\ call' = [call EXCEPT ![nextId] = Waits]
            /\ pending' = Append(pending, nextId)
            /\ wire' = Append(wire, nextId)

CallRpc ==
  /\ session.state = "open"
  /\ \E aborted \in BOOLEAN : RpcIssued(aborted)
  /\ UNCHANGED <<session, closer>>

\* Variant: an RPC that was given up leaves the queue.
QueueAfterGivingUpDropped(i) == SelectSeq(pending, LAMBDA j : j # i)

\* NETCONF cannot abandon an RPC: its entry stays.
QueueAfterGivingUp(i) == pending

\* The timer of a call, or its signal.
GiveUp(i) ==
  /\ call[i].outcome = "waiting"
  /\ \E outcome \in {"timed out", "cancelled"} : call' = Settle(call, i, outcome)
  /\ pending' = QueueAfterGivingUp(i)
  /\ UNCHANGED <<session, nextId, wire, closer>>

\* dispatch() of the reply to the oldest RPC the server has, with its id or without.
Replied(withId) ==
  /\ session.channel # "destroyed" /\ wire # <<>>
  /\ LET i == Head(wire)
         slots == IF withId THEN {k \in DOMAIN pending : pending[k] = i}
                  ELSE DOMAIN pending \intersect {1}
     IN IF session.state = "open" /\ slots # {}
        THEN LET k == CHOOSE k \in slots : TRUE
             IN /\ pending' = RemoveAt(pending, k)
                /\ call' = Settle(call, pending[k],
                                  IF pending[k] = i THEN "replied" ELSE "wrong reply")
        ELSE UNCHANGED <<pending, call>>
  /\ wire' = Tail(wire)
  /\ UNCHANGED <<session, nextId, closer>>

ReplyArrives == session.state # "hello" /\ \E withId \in BOOLEAN : Replied(withId)

-----------------------------------------------------------------------------
(* The end *)

\* shutdown(): once.
Shutdown ==
  IF session.state # "open" THEN UNCHANGED <<pending, call>>
  ELSE /\ call' = [i \in Rpc |-> IF Contains(pending, i)
                                 THEN Settle(call, i, "closed")[i] ELSE call[i]]
       /\ pending' = <<>>

\* The channel closes or fails, or its framing is malformed.
ChannelGoes ==
  /\ session.state \in {"open", "closed"} /\ session.channel # "destroyed"
  /\ Shutdown
  /\ session' = [session EXCEPT !.state = "closed", !.channel = "destroyed"]
  /\ wire' = <<>>
  /\ UNCHANGED <<nextId, closer>>

\* close(): <close-session/> with a timeout of its own.
CloseBegins(c) ==
  /\ session.state = "open" /\ closer[c] = 0
  /\ RpcIssued(FALSE)
  /\ closer' = [closer EXCEPT ![c] = nextId]
  /\ UNCHANGED session

\* Whatever became of it the channel is ended, and destroyed a second later.
CloseEnds(c) ==
  /\ \/ closer[c] > 0 /\ call[closer[c]].outcome # "waiting"
     \/ closer[c] = 0 /\ session.state = "closed"
  /\ closer' = [closer EXCEPT ![c] = -1]
  /\ Shutdown
  /\ session' = [session EXCEPT !.state = "closed",
                                !.channel = IF @ = "open" THEN "ended" ELSE @]
  /\ UNCHANGED <<nextId, wire>>

NetconfNext ==
  \/ HelloReceived \/ HelloFails \/ CallRpc \/ ReplyArrives \/ ChannelGoes
  \/ \E i \in Rpc : GiveUp(i)
  \/ \E c \in Closers : CloseBegins(c) \/ CloseEnds(c)

NetconfSpec == NetconfInit /\ [][NetconfNext]_netconfVars

-----------------------------------------------------------------------------
NetconfTypeOK ==
  /\ session.state \in {"hello", "open", "closed", "failed"}
  /\ session.channel \in {"open", "ended", "destroyed"}
  /\ nextId \in 1 .. MaxRpcs + 1 /\ Range(pending) \subseteq Rpc
  /\ \A i \in Rpc : call[i].settled \in 0 .. 1

\* Whatever timed out, was cancelled or is answered late, with its id or
\* without: a call gets the reply to its own RPC or none, its queue is that of
\* the server, and no call of a closed session waits
\* (dispatch, rpc and shutdown, client.ts:156-225).
RepliesFindTheirCalls ==
  /\ \A i \in Rpc : call[i].outcome # "wrong reply"
  /\ session.state = "open" /\ session.channel = "open" => pending = wire
  /\ session.state = "closed" => \A i \in Rpc : call[i].outcome # "waiting" /\ ~call[i].timer
=============================================================================
