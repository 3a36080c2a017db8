------------------------------- MODULE SshDial -------------------------------
(***************************************************************************)
(* One SSH dial: the ready deadline that is paused while a person or an    *)
(* agent is waited for, the ladder of authentication attempts and the      *)
(* password remembered once it worked (dial, PausableDeadline and          *)
(* AuthLadder in server/src/ssh/connection-manager.ts; ResponsiveAgent in  *)
(* server/src/ssh/responsive-agent.ts).                                    *)
(*                                                                         *)
(* The server answers what it was offered; a prompt may be refused, and    *)
(* the connection may be lost at any point.  Which keys and certificates   *)
(* exist is the ladder, a constant; a typed password is the number of the  *)
(* attempt it was typed for.                                               *)
(***************************************************************************)
EXTENDS Integers, Sequences, FiniteSets

CONSTANTS
  Ladder,     \* the attempts build() lists, in order
  MaxRounds   \* challenges of one keyboard-interactive attempt

Methods == {"none", "agent", "publickey", "security-key", "keyboard-interactive", "password"}

ASSUME DialAssumption == Ladder \in Seq(Methods) /\ Ladder # <<>> /\ MaxRounds \in Nat

VARIABLES
  dial,      \* "keys", "auth", "ready" or "failed"
  deadline,  \* the PausableDeadline of the dial
  asking,    \* the interaction that is open, "no" if none is
  agent,     \* the agent request that is open, what the agent owes, its death
  ladder,    \* the AuthLadder's fields, and whose turn it is
  login      \* the password of this attempt, what the server accepted, what was saved

dialVars == <<dial, deadline, asking, agent, ladder, login>>

NoMethod == ""
Dialing == dial \in {"keys", "auth"}

DialInit ==
  /\ dial = "keys"
  /\ deadline = [active |-> TRUE, armed |-> TRUE, depth |-> 0]
  /\ asking = "no"
  /\ agent = [request |-> "no", owed |-> FALSE, unavailable |-> FALSE]
  /\ \E saved \in BOOLEAN :
       ladder = [index |-> 0, left |-> Methods, turn |-> "client", round |-> 0,
                 last |-> NoMethod, partials |-> <<>>, candidate |-> 0, partialCandidate |-> 0,
                 saved |-> saved, savedTried |-> FALSE, retryChallenge |-> FALSE,
                 cancelled |-> FALSE]
  /\ login = [offered |-> 0, proved |-> {}, granted |-> <<>>, remembered |-> 0, committed |-> FALSE]

-----------------------------------------------------------------------------
(* The deadline *)

Paused(d) == IF d.active THEN [d EXCEPT !.depth = @ + 1, !.armed = FALSE] ELSE d

Resumed(d) ==
  IF d.active /\ d.depth > 0
  THEN [d EXCEPT !.depth = @ - 1, !.armed = d.depth = 1] ELSE d

Cleared == [active |-> FALSE, armed |-> FALSE, depth |-> 0]

\* rejectBeforeReady(), from a deadline or a connection that may still run.
Rejected(l) ==
  /\ dial' = "failed" /\ deadline' = Cleared
  /\ ladder' = [l EXCEPT !.candidate = 0, !.partialCandidate = 0]
  /\ UNCHANGED login

-----------------------------------------------------------------------------
(* The ladder *)

\* Variant: the candidate of a refused attempt stays.
NextKeepsCandidate(l, left, partial) ==
  [l EXCEPT !.left = left, !.turn = "client", !.last = NoMethod,
            !.partialCandidate = IF partial THEN l.candidate ELSE @,
            !.partials = IF partial /\ l.last # NoMethod THEN Append(@, l.last) ELSE @]

\* next(): what the server said of the attempt before.
NextAttempt(l, left, partial) ==
  [l EXCEPT !.left = left, !.turn = "client", !.last = NoMethod, !.candidate = 0,
            !.partialCandidate = IF partial /\ l.candidate # 0 THEN l.candidate ELSE @,
            !.partials = IF partial /\ l.last # NoMethod THEN Append(@, l.last) ELSE @]

\* Agents and security keys answer for public keys.
WireType(m) == IF m \in {"agent", "security-key"} THEN "publickey" ELSE m

OffersTo(l, m) == [l EXCEPT !.last = m, !.turn = "server", !.round = 0]
Skipped(l) == [l EXCEPT !.index = @ + 1]

Chooses == dial = "auth" /\ ladder.turn = "client" /\ asking = "no" /\ agent.request = "no"
Current == ladder.index + 1
Due(m) ==
  /\ Chooses /\ ~ladder.cancelled /\ Current <= Len(Ladder) /\ Ladder[Current] = m
  /\ m = "none" \/ WireType(m) \in ladder.left

Exhausted ==
  /\ Chooses /\ (ladder.cancelled \/ Current > Len(Ladder))
  /\ Rejected(ladder) /\ UNCHANGED <<asking, agent>>

NotAccepted ==
  /\ Chooses /\ ~ladder.cancelled /\ Current <= Len(Ladder)
  /\ Ladder[Current] # "none" /\ WireType(Ladder[Current]) \notin ladder.left
  /\ ladder' = Skipped(ladder)
  /\ UNCHANGED <<dial, deadline, asking, agent, login>>

OfferNone ==
  /\ Due("none")
  /\ ladder' = OffersTo(Skipped(ladder), "none")
  /\ UNCHANGED <<dial, deadline, asking, agent, login>>

\* runInteraction() around io.prompt().
Ask(what) == asking' = what /\ deadline' = Paused(deadline)

\* An identity file: read, skipped, or its passphrase asked for.
OfferKey ==
  /\ Due("publickey")
  /\ \/ /\ \E readable \in BOOLEAN :
             ladder' = IF readable THEN OffersTo(Skipped(ladder), "publickey") ELSE Skipped(ladder)
        /\ UNCHANGED <<asking, deadline>>
     \/ Ask("passphrase") /\ ladder' = [Skipped(ladder) EXCEPT !.turn = "key"]
  /\ UNCHANGED <<dial, agent, login>>

\* availableSavedPassword(), while the vault is unlocked or locked.
SavedPassword == ladder.saved /\ ~ladder.savedTried

Passwords == {"password", "password challenge"}

\* The prompt for the master password that comes before one for the password.
UnlockFor(question) ==
  IF question = "password" THEN "unlock for password" ELSE "unlock for password challenge"

PasswordFrom(l, question) ==
  IF SavedPassword
  THEN \/ /\ ladder' = [l EXCEPT !.turn = "server", !.savedTried = TRUE]
          /\ UNCHANGED <<asking, deadline>>
       \/ Ask(UnlockFor(question)) /\ ladder' = [l EXCEPT !.savedTried = TRUE, !.turn = "key"]
  ELSE Ask(question) /\ ladder' = [l EXCEPT !.turn = "key"]

OfferPassword ==
  /\ Due("password")
  /\ PasswordFrom([Skipped(ladder) EXCEPT !.last = "password"], "password")
  /\ UNCHANGED <<dial, agent, login>>

\* Later attempts only follow a recognized password challenge.
OfferChallenges ==
  /\ Due("keyboard-interactive")
  /\ LET again == \E i \in 1 .. ladder.index : Ladder[i] = "keyboard-interactive"
     IN ladder' = IF again /\ ~ladder.retryChallenge THEN Skipped(ladder)
                  ELSE [OffersTo(Skipped(ladder), "keyboard-interactive")
                          EXCEPT !.retryChallenge = FALSE]
  /\ UNCHANGED <<dial, deadline, asking, agent, login>>

-----------------------------------------------------------------------------
(* Agents *)

\* ResponsiveAgent.request(); a dead agent answers with its old error.
AgentRequest(what) ==
  /\ agent' = [agent EXCEPT !.request = what, !.owed = TRUE]
  /\ deadline' = Paused(deadline)

OfferAgent ==
  /\ Due("agent") \/ Due("security-key")
  /\ LET m == Ladder[Current] IN
     IF m = "agent" /\ agent.unavailable
     THEN /\ ladder' = NextAttempt(Skipped(ladder), ladder.left, FALSE)
          /\ UNCHANGED <<agent, deadline>>
     ELSE /\ AgentRequest(IF m = "agent" THEN "identities" ELSE "sign")
          /\ ladder' = [OffersTo(Skipped(ladder), m) EXCEPT !.turn = "agent"]
  /\ UNCHANGED <<dial, asking, login>>

\* Variant: the request is settled again by a late answer.
LateAgain(d) == Resumed(d)

LateAnswer(d) == d

\* finish(), the first time.
AgentDone(unavailable) ==
  /\ agent' = [agent EXCEPT !.request = "no", !.owed = @ /\ unavailable,
                            !.unavailable = @ \/ (unavailable /\ ladder.last = "agent")]
  /\ deadline' = Resumed(deadline)

\* With the agent's answer ssh2 offers the key, asks for a signature or moves on.
AgentAnswers ==
  /\ agent.request # "no" /\ asking # "pin" /\ ~agent.unavailable
  /\ AgentDone(FALSE)
  /\ \E good \in BOOLEAN :
       ladder' = IF ~Dialing THEN ladder
                 ELSE IF good
                 THEN [ladder EXCEPT !.turn =
                         IF agent.request = "sign" THEN "server" ELSE "signing"]
                 ELSE NextAttempt(ladder, ladder.left, FALSE)
  /\ UNCHANGED <<dial, asking, login>>

AgentSigns ==
  /\ dial = "auth" /\ ladder.turn = "signing"
  /\ AgentRequest("sign")
  /\ ladder' = [ladder EXCEPT !.turn = "agent"]
  /\ UNCHANGED <<dial, asking, login>>

\* The timeout, or a stream that breaks; ssh2 goes on to the next attempt.
AgentFails ==
  /\ agent.request # "no"
  /\ AgentDone(TRUE)
  /\ ladder' = IF Dialing THEN NextAttempt(ladder, ladder.left, FALSE) ELSE ladder
  /\ UNCHANGED <<dial, asking, login>>

\* The agent answers, or its stream opens, after the timeout.
AgentAnswersLate ==
  /\ agent.request = "no" /\ agent.owed
  /\ agent' = [agent EXCEPT !.owed = FALSE]
  /\ deadline' = LateAnswer(deadline)
  /\ UNCHANGED <<dial, asking, ladder, login>>

\* A security key file asks for its PIN or passphrase through its agent.
AgentAsksPin ==
  /\ dial = "auth" /\ agent.request = "sign" /\ ladder.last = "security-key" /\ asking = "no"
  /\ Ask("pin")
  /\ UNCHANGED <<dial, agent, ladder, login>>

-----------------------------------------------------------------------------
(* Prompts *)

Answered == asking # "no" /\ asking' = "no" /\ deadline' = Resumed(deadline)

\* verifyHostKey(): known, or asked about.
HostKeyKnown ==
  /\ dial = "keys" /\ asking = "no"
  /\ dial' = "auth"
  /\ UNCHANGED <<deadline, asking, agent, ladder, login>>

HostKeyAsked ==
  /\ dial = "keys" /\ asking = "no"
  /\ Ask("host-key")
  /\ UNCHANGED <<dial, agent, ladder, login>>

HostKeyAnswered ==
  /\ dial = "keys" /\ asking = "host-key" /\ asking' = "no"
  /\ \/ dial' = "auth" /\ deadline' = Resumed(deadline) /\ UNCHANGED <<ladder, login>>
     \/ Rejected(ladder)
  /\ UNCHANGED agent

\* An answer typed for a key, a PIN or a challenge that is no password.
TextAnswered ==
  /\ dial = "auth" /\ asking \in {"passphrase", "pin", "challenge"}
  /\ Answered
  /\ \E given \in BOOLEAN :
       ladder' = CASE asking = "passphrase" /\ given ->
                        [ladder EXCEPT !.last = "publickey", !.turn = "server"]
                   [] asking = "passphrase" /\ ~given -> [ladder EXCEPT !.turn = "client"]
                   [] asking = "pin" -> ladder
                   [] asking = "challenge" -> [ladder EXCEPT !.turn = "server"]
  /\ UNCHANGED <<dial, agent, login>>

\* capturePasswordCandidate()
PasswordAnswered ==
  /\ dial = "auth" /\ asking \in Passwords
  /\ Answered
  /\ \E remember \in BOOLEAN :
       ladder' = [ladder EXCEPT !.candidate = IF remember THEN ladder.index ELSE 0,
                                !.turn = "server"]
  /\ login' = [login EXCEPT !.offered = ladder.index]
  /\ UNCHANGED <<dial, agent>>

\* promptForVaultOperation(): the saved password, or else a prompt for one.
VaultAnswered ==
  /\ dial = "auth"
  /\ \E question \in Passwords :
       /\ asking = UnlockFor(question)
       /\ \/ Answered /\ ladder' = [ladder EXCEPT !.turn = "server"]
          \/ /\ asking' = question
             /\ deadline' = Paused(Resumed(deadline))
             /\ UNCHANGED ladder
  /\ UNCHANGED <<dial, agent, login>>

Challenges == {"challenge", "password challenge", "unlock for password challenge"}

\* The tab refuses a prompt: a challenge is answered blank, all others end the ladder.
PromptRefused ==
  /\ dial = "auth" /\ asking # "no"
  /\ Answered
  /\ ladder' = [ladder EXCEPT !.cancelled = TRUE,
                  !.turn = CASE asking \in Challenges -> "server"
                             [] asking = "pin" -> ladder.turn
                             [] OTHER -> "client"]
  /\ UNCHANGED <<dial, agent, login>>

\* A prompt settles after its dial has: nothing of it is left to resume.
PromptOutlived ==
  /\ ~Dialing /\ Answered
  /\ UNCHANGED <<dial, agent, ladder, login>>

-----------------------------------------------------------------------------
(* The server *)

ServerTurn == dial = "auth" /\ ladder.turn = "server" /\ ladder.last # NoMethod

\* What the server says of an attempt proves the password offered with it.
Proved == login.proved \union ({login.offered} \ {0})

\* keyboardInteractiveAnswers(): a recognized password prompt, or any other.
ServerChallenges ==
  /\ ServerTurn /\ ladder.last = "keyboard-interactive" /\ ladder.round < MaxRounds
  /\ LET asked == [ladder EXCEPT !.round = @ + 1] IN
     \/ /\ ladder.round = 0
        /\ PasswordFrom([asked EXCEPT !.retryChallenge = TRUE], "password challenge")
     \/ /\ Ask("challenge")
        /\ ladder' = [asked EXCEPT !.candidate = 0, !.retryChallenge = FALSE, !.turn = "key"]
  /\ UNCHANGED <<dial, agent, login>>

ServerRefuses ==
  /\ ServerTurn
  /\ \E left \in {Methods, {"publickey"}, {"password"}}, partial \in BOOLEAN :
       /\ ladder' = NextAttempt(ladder, left, partial)
       /\ login' = IF ~partial THEN [login EXCEPT !.offered = 0]
                   ELSE [login EXCEPT !.offered = 0, !.proved = Proved,
                                      !.granted = Append(@, ladder.last)]
  /\ UNCHANGED <<dial, deadline, asking, agent>>

\* 'ready'
ServerAccepts ==
  /\ ServerTurn
  /\ dial' = "ready" /\ deadline' = Cleared
  /\ login' = [login EXCEPT !.proved = Proved, !.granted = Append(@, ladder.last)]
  /\ UNCHANGED <<asking, agent, ladder>>

\* commitRememberedPassword(), unless the vault stays locked, then dispose().
Commit ==
  /\ dial = "ready" /\ ~login.committed
  /\ LET kept == IF ladder.candidate # 0 THEN ladder.candidate ELSE ladder.partialCandidate
     IN \E saved \in {0, kept} : login' = [login EXCEPT !.remembered = saved, !.committed = TRUE]
  /\ ladder' = [ladder EXCEPT !.candidate = 0, !.partialCandidate = 0]
  /\ UNCHANGED <<dial, deadline, asking, agent>>

\* An error or a close of the connection before it is ready.
ConnectionLost ==
  /\ Dialing /\ Rejected(ladder)
  /\ UNCHANGED <<asking, agent>>

DeadlineExpires ==
  /\ deadline.armed /\ Rejected(ladder)
  /\ UNCHANGED <<asking, agent>>

DialNext ==
  \/ Exhausted \/ NotAccepted \/ OfferNone \/ OfferKey \/ OfferPassword \/ OfferChallenges
  \/ OfferAgent \/ AgentAnswers \/ AgentSigns \/ AgentFails \/ AgentAnswersLate \/ AgentAsksPin
  \/ HostKeyKnown \/ HostKeyAsked \/ HostKeyAnswered
  \/ TextAnswered \/ PasswordAnswered \/ VaultAnswered \/ PromptRefused \/ PromptOutlived
  \/ ServerChallenges \/ ServerRefuses \/ ServerAccepts \/ Commit
  \/ ConnectionLost \/ DeadlineExpires

DialSpec == DialInit /\ [][DialNext]_dialVars

-----------------------------------------------------------------------------
(* Properties *)

DialTypeOK ==
  /\ dial \in {"keys", "auth", "ready", "failed"}
  /\ deadline.depth \in 0 .. 2 /\ ladder.index \in 0 .. Len(Ladder)
  /\ ladder.last \in Methods \union {NoMethod}
  /\ ladder.candidate \in 0 .. Len(Ladder) /\ ladder.partialCandidate \in 0 .. Len(Ladder)

OneIf(waits) == IF waits THEN 1 ELSE 0

\* The ready deadline of a dial runs exactly while neither a person nor an agent
\* is waited for, however prompts and agent requests nest, time out, are
\* refused or are answered late; a settled dial has none (runInteraction and
\* rejectBeforeReady of dial(), finish() of ResponsiveAgent).
DeadlineRuns ==
  /\ deadline.active <=> Dialing
  /\ Dialing => /\ deadline.depth = OneIf(asking # "no") + OneIf(agent.request # "no")
                /\ deadline.armed <=> deadline.depth = 0

\* acceptedMethods()
AcceptedMethods ==
  IF ladder.last = NoMethod THEN ladder.partials ELSE Append(ladder.partials, ladder.last)

\* The vault only remembers a password the user asked to remember and the
\* server accepted, fully or in part, in this login, and a ready dial names the
\* methods that logged in, in order (next, capturePasswordCandidate and
\* commitRememberedPassword of AuthLadder).
LoginIsAccounted ==
  /\ login.remembered \in login.proved \union {0}
  /\ dial = "ready" => AcceptedMethods = login.granted

\* What a dial owes at any point of its prompts and attempts: its deadline while
\* nobody is waited for, and an account of how it logged in (dial() and AuthLadder).
DialKeepsItsWord == DeadlineRuns /\ LoginIsAccounted
=============================================================================
