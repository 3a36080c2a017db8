-------------------------- MODULE TransportLifetime --------------------------
(***************************************************************************)
(* What the connection lease registry promises, without records, lease ids *)
(* or counters: a transport is up from its first user on, and it goes down *)
(* in the step in which its last user leaves, or because it was lost or    *)
(* the whole application closes.  A transport that went down has no users  *)
(* and never gets one again.                                               *)
(***************************************************************************)
CONSTANTS Conn,    \* the transports that are ever dialed
          Holder   \* the consumers: terminals, SFTP, forwards, editors ...

VARIABLES phase,   \* phase[c]: "unborn", "up" or "down"
          users    \* users[c]: the consumers the transport is kept up for

vars == <<phase, users>>

Init ==
  /\ phase = [c \in Conn |-> "unborn"]
  /\ users = [c \in Conn |-> {}]

InUse(h) == \E c \in Conn : h \in users[c]

Open(h, c) ==
  /\ phase[c] = "unborn" /\ ~InUse(h)
  /\ phase' = [phase EXCEPT ![c] = "up"]
  /\ users' = [users EXCEPT ![c] = {h}]

Join(h, c) ==
  /\ phase[c] = "up" /\ ~InUse(h)
  /\ users' = [users EXCEPT ![c] = @ \union {h}]
  /\ UNCHANGED phase

\* The last one out closes the transport, nobody else does.
Leave(h, c) ==
  /\ h \in users[c]
  /\ users' = [users EXCEPT ![c] = @ \ {h}]
  /\ phase' = [phase EXCEPT ![c] = IF users[c] = {h} THEN "down" ELSE @]

\* Transport loss takes one transport down, application shutdown takes all
\* of them.
GoDown(S) ==
  /\ phase' = [c \in Conn |-> IF c \in S THEN "down" ELSE phase[c]]
  /\ users' = [c \in Conn |-> IF c \in S THEN {} ELSE users[c]]

Next ==
  \/ \E h \in Holder, c \in Conn : Open(h, c) \/ Join(h, c) \/ Leave(h, c)
  \/ \E S \in SUBSET {c \in Conn : phase[c] # "unborn"} : GoDown(S)

Spec == Init /\ [][Next]_vars
=============================================================================
