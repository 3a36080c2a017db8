-------------------------- MODULE TerminalSocketProofs -------------------------
(***************************************************************************)
(* Proofs about TerminalSocket for every set of windows, every buffer size *)
(* and every number of chunks and prompts, and about PastePacer for every  *)
(* set of pastes and every way to cut them into steps.                     *)
(***************************************************************************)
EXTENDS TerminalSocket, PastePacer, SequenceLemmas, FiniteSetTheorems

Prompt == [by : {"login", "vault"}, kind : Kind, reply : Replies]

\* The waiters are the prompts without a reply, oldest first.
Queue ==
  /\ asked \in Seq(Prompt)
  /\ waiters \in Seq(Nat)
  /\ Range(waiters) = {i \in DOMAIN asked : asked[i].reply = "none"}
  /\ \A i, j \in DOMAIN waiters : i < j => waiters[i] < waiters[j]

\* The frame that is replayed is one that was asked.
KeptWasAsked == kept \in [Kind -> 0 .. Len(asked)]

PromptInv == Queue /\ KeptWasAsked

Socket == {"none", "new", "expired", "open", "ending", "closing", "closed"}

Face == [state : {"none", "live", "closed"}, current : Window \union {NoWindow},
         detached : BOOLEAN, timer : BOOLEAN, buffering : BOOLEAN, buffer : Seq(Nat),
         known : BOOLEAN]

FaceTypes ==
  /\ sock \in [Window -> Socket] /\ face \in Face
  /\ session \in {"none", "login", "up", "over"} /\ preparing \subseteq Window

\* A facade has its window from the first on, and listens to no other.
ListensToItsWindow ==
  /\ face.state # "none" <=> Current \in Window
  /\ bound = IF Live THEN {Current} ELSE {}

\* It is detached, and its timer runs, exactly when its window has closed; a
\* window it has was accepted.
LosesItsWindow ==
  /\ face.timer => Live
  /\ Live => /\ sock[Current] \in {"open", "ending", "closing", "closed"}
             /\ face.detached <=> sock[Current] = "closed"
             /\ face.timer <=> sock[Current] = "closed"

NothingBefore ==
  face.state = "none" =>
    session = "none" /\ ~face.detached /\ ~face.buffering /\ face.buffer = <<>>

\* A window that can take output has none buffered but in a handoff.
BuffersInAHandoff == Live /\ Open(Current) /\ face.buffer # <<>> => face.buffering

FaceInv ==
  /\ FaceTypes /\ ListensToItsWindow /\ LosesItsWindow /\ NothingBefore
  /\ BuffersInAHandoff /\ OnlyAHandoffFreezes

NewestUpTo(b, n) == \A i \in DOMAIN b : b[i] = n - Len(b) + i

\* The buffer is the newest output; what was sent is older, in order, and no
\* chunk is missing until the session closes.
OutInv ==
  /\ made \in Nat /\ sent \in Seq(Nat) /\ lost \in [full : SUBSET Nat, late : SUBSET Nat]
  /\ Len(face.buffer) <= BufferSize /\ Len(face.buffer) <= made
  /\ NewestUpTo(face.buffer, made)
  /\ \A i, j \in DOMAIN sent : i < j => sent[i] < sent[j]
  /\ \A i \in DOMAIN sent : sent[i] <= made - Len(face.buffer)
  /\ \A n \in lost.full : n + BufferSize <= made
  /\ face.state # "closed" =>
       1 .. made = Range(sent) \union Range(face.buffer) \union lost.full \union lost.late

TerminalInv == PromptInv /\ FaceInv /\ OutInv

-----------------------------------------------------------------------------
(* Sequences. *)

\* What the tail of an increasing sequence leaves out is its head.
LEMMA TailOfIncreasing ==
  ASSUME NEW s \in Seq(Nat), s # <<>>,
         \A i, j \in DOMAIN s : i < j => s[i] < s[j]
  PROVE  /\ Head(s) \in Range(s)
         /\ Range(Tail(s)) = Range(s) \ {Head(s)}
         /\ \A i, j \in DOMAIN Tail(s) : i < j => Tail(s)[i] < Tail(s)[j]
<1>1. Len(s) \in Nat \ {0} /\ DOMAIN s = 1 .. Len(s) /\ \A i \in 1 .. Len(s) : s[i] \in Nat
  BY LenProperties, ElementOfSeq, EmptySeq
<1>2. /\ Tail(s) \in Seq(Nat) /\ Len(Tail(s)) = Len(s) - 1
      /\ \A i \in 1 .. Len(Tail(s)) : Tail(s)[i] = s[i + 1]
  BY HeadTailProperties
<1>3. DOMAIN Tail(s) = 1 .. Len(s) - 1
  BY <1>2, LenProperties
<1>4. Head(s) = s[1]
  OBVIOUS
<1> DEFINE t == Tail(s)
<1> HIDE DEF t
<1>5. t \in Seq(Nat) /\ DOMAIN t = 1 .. Len(s) - 1 /\ \A i \in 1 .. Len(s) - 1 : t[i] = s[i + 1]
  BY <1>2, <1>3 DEF t
<1>6. Range(s) = {s[i] : i \in 1 .. Len(s)} /\ Range(t) = {t[i] : i \in 1 .. Len(s) - 1}
  BY <1>1, <1>5 DEF Range
<1>7. \A i \in 1 .. Len(s) - 1 : i + 1 \in 1 .. Len(s) /\ i + 1 # 1 /\ s[i + 1] # s[1]
  BY <1>1
<1>8. \A i \in 1 .. Len(s) : i # 1 => i - 1 \in 1 .. Len(s) - 1 /\ t[i - 1] = s[i]
  BY <1>1, <1>5
<1>9. Range(t) = Range(s) \ {s[1]}
  <2>1. ASSUME NEW v \in Range(t)
        PROVE  v \in Range(s) /\ v # s[1]
    BY <1>5, <1>6, <1>7
  <2>2. ASSUME NEW v \in Range(s), v # s[1]
        PROVE  v \in Range(t)
    BY <1>6, <1>8, <2>2
  <2> QED BY <2>1, <2>2
<1>10. ASSUME NEW i \in DOMAIN t, NEW j \in DOMAIN t, i < j
       PROVE  t[i] < t[j]
  <2>1. i \in 1 .. Len(s) - 1 /\ j \in 1 .. Len(s) - 1
    BY <1>5, <1>10
  <2>2. i + 1 \in 1 .. Len(s) /\ j + 1 \in 1 .. Len(s) /\ i + 1 < j + 1
    BY <1>1, <1>10, <2>1
  <2>3. s[i + 1] < s[j + 1]
    BY <1>1, <2>2
  <2>4. t[i] = s[i + 1] /\ t[j] = s[j + 1]
    BY <1>5, <2>1
  <2> QED BY <2>3, <2>4
<1>11. s[1] \in Range(s)
  BY <1>1, <1>6
<1> QED BY <1>4, <1>9, <1>10, <1>11 DEF t

\* What is appended to a sequence is added to its range.
LEMMA RangeOfAppend ==
  ASSUME NEW S, NEW s \in Seq(S), NEW e \in S
  PROVE  Range(Append(s, e)) = Range(s) \union {e}
<1>1. Range(s \o <<e>>) = Range(s) \union Range(<<e>>)
  BY RangeConcatenation
<1>2. Range(<<e>>) = {e}
  BY DEF Range
<1> QED BY <1>1, <1>2, AppendIsConcat

-----------------------------------------------------------------------------
(* The prompts. *)

LEMMA PromptsAreTyped ==
  ASSUME Queue
  PROVE  /\ Len(asked) \in Nat /\ DOMAIN asked = 1 .. Len(asked)
         /\ \A i \in 1 .. Len(asked) : asked[i] \in Prompt
         /\ \A i \in Range(waiters) : i \in 1 .. Len(asked) /\ asked[i].reply = "none"
BY LenProperties, ElementOfSeq DEF Queue

\* A frame answers the oldest prompt and takes it off the queue.
LEMMA PushKeeps ==
  ASSUME Queue, NEW i, NEW op, Push(i, op)
  PROVE  Queue' /\ Len(asked') = Len(asked)
<1>1. CASE waiters = <<>>
  BY <1>1 DEF Queue, Push
<1>2. CASE waiters # <<>>
  <2> DEFINE h == Head(waiters)
             r == Reply(i, op)
             p == [asked[h] EXCEPT !.reply = r]
             b == [asked EXCEPT ![h] = p]
  <2>1. /\ h \in Range(waiters)
        /\ Range(Tail(waiters)) = Range(waiters) \ {h}
        /\ \A m, n \in DOMAIN Tail(waiters) : m < n => Tail(waiters)[m] < Tail(waiters)[n]
    BY <1>2, TailOfIncreasing DEF Queue
  <2>2. h \in 1 .. Len(asked) /\ asked[h] \in Prompt
    BY <2>1, PromptsAreTyped
  <2>3. r \in Replies /\ r # "none"
    BY DEF Reply, Replies
  <2> HIDE DEF r
  <2>4. p \in Prompt /\ p.reply # "none"
    BY <2>2, <2>3 DEF Prompt
  <2>5. asked' = b /\ waiters' = Tail(waiters)
    BY <1>2 DEF Push, r
  <2>6. Tail(waiters) \in Seq(Nat)
    BY <1>2, HeadTailProperties DEF Queue
  <2> HIDE DEF h, p
  <2>7. /\ b \in Seq(Prompt) /\ Len(b) = Len(asked)
        /\ \A j \in 1 .. Len(asked) : b[j] = IF j = h THEN p ELSE asked[j]
    BY <2>2, <2>4, ExceptSeq DEF Queue
  <2>8. DOMAIN b = 1 .. Len(asked) /\ DOMAIN asked = 1 .. Len(asked)
    BY <2>7, LenProperties, PromptsAreTyped
  <2> HIDE DEF b
  <2>9. Range(waiters) \ {h} = {j \in DOMAIN b : b[j].reply = "none"}
    BY <2>2, <2>4, <2>7, <2>8 DEF Queue
  <2> QED BY <2>1, <2>5, <2>6, <2>7, <2>9 DEF Queue
<1> QED BY <1>1, <1>2

\* The end of the session cancels every prompt that waits.
LEMMA CloseControlKeeps ==
  ASSUME Queue, CloseControl
  PROVE  Queue' /\ Len(asked') = Len(asked)
<1> DEFINE e(i) == IF i \in Range(waiters) THEN [asked[i] EXCEPT !.reply = "closed"] ELSE asked[i]
<1>1. asked' = [i \in 1 .. Len(asked) |-> e(i)] /\ waiters' = <<>>
  BY PromptsAreTyped DEF CloseControl
<1>2. \A i \in 1 .. Len(asked) : e(i) \in Prompt /\ e(i).reply # "none"
  <2>1. SUFFICES ASSUME NEW i \in 1 .. Len(asked)
                 PROVE  e(i) \in Prompt /\ e(i).reply # "none"
    OBVIOUS
  <2>2. asked[i] \in Prompt
    BY PromptsAreTyped
  <2>3. CASE i \in Range(waiters)
    BY <2>2, <2>3 DEF Prompt, Replies
  <2>4. CASE i \notin Range(waiters)
    BY <2>2, <2>4, PromptsAreTyped DEF Queue
  <2> QED BY <2>3, <2>4
<1>3. Len(asked) \in Nat
  BY PromptsAreTyped
<1> HIDE DEF e
<1>4. asked' \in Seq(Prompt)
  BY <1>1, <1>2, <1>3, IsASeq
<1>5. DOMAIN asked' = 1 .. Len(asked) /\ \A i \in 1 .. Len(asked) : asked'[i] = e(i)
  BY <1>1
<1>6. Len(asked') \in Nat /\ DOMAIN asked' = 1 .. Len(asked')
  BY <1>4, LenProperties
<1>7. Len(asked') = Len(asked)
  BY <1>3, <1>5, <1>6
<1>8. waiters' \in Seq(Nat) /\ DOMAIN waiters' = {} /\ Range(waiters') = {}
  BY <1>1, EmptySeq DEF Range
<1>9. {i \in DOMAIN asked' : asked'[i].reply = "none"} = {}
  BY <1>2, <1>5
<1> QED BY <1>4, <1>7, <1>8, <1>9 DEF Queue

\* A prompt waits for its answer, or is cancelled at once in a closed session.
LEMMA AsksKeeps ==
  ASSUME PromptInv, NEW asker \in {"login", "vault"}, NEW k \in Kind, Asks(asker, k)
  PROVE  PromptInv'
<1> DEFINE n == Len(asked) + 1
           p == Asked(asker, k)
<1>1. /\ Len(asked) \in Nat /\ DOMAIN asked = 1 .. Len(asked)
      /\ \A i \in Range(waiters) : i \in 1 .. Len(asked)
  BY PromptsAreTyped DEF PromptInv
<1>2. p \in Prompt
  BY DEF Asked, Prompt, Replies
<1>3. asked' = Append(asked, p)
  BY DEF Asks
<1>4. /\ waiters' = IF Live THEN Append(waiters, n) ELSE waiters
      /\ kept' = IF Live THEN [kept EXCEPT ![k] = n] ELSE kept
      /\ p.reply = IF Live THEN "none" ELSE "closed"
  BY DEF Asks, Asked
<1> HIDE DEF p
<1>5. /\ asked' \in Seq(Prompt) /\ Len(asked') = n
      /\ \A i \in 1 .. Len(asked) : asked'[i] = asked[i]
      /\ asked'[n] = p
  BY <1>2, <1>3, AppendProperties DEF PromptInv, Queue
<1>6. DOMAIN asked' = 1 .. n
  BY <1>5, LenProperties
<1>7. KeptWasAsked'
  BY <1>1, <1>4, <1>5 DEF PromptInv, KeptWasAsked
<1>8. CASE ~Live
  <2>1. {i \in DOMAIN asked' : asked'[i].reply = "none"}
          = {i \in DOMAIN asked : asked[i].reply = "none"}
    BY <1>1, <1>4, <1>5, <1>6, <1>8
  <2> QED BY <1>4, <1>5, <1>7, <1>8, <2>1 DEF PromptInv, Queue
<1>9. CASE Live
  <2>1. {i \in DOMAIN asked' : asked'[i].reply = "none"}
          = {i \in DOMAIN asked : asked[i].reply = "none"} \union {n}
    BY <1>1, <1>4, <1>5, <1>6, <1>9
  <2>2. waiters \in Seq(Nat) /\ n \in Nat /\ waiters' = Append(waiters, n)
    BY <1>1, <1>4, <1>9 DEF PromptInv, Queue
  <2>3. Range(waiters') = Range(waiters) \union {n}
    BY <2>2, RangeOfAppend
  <2>4. /\ waiters' \in Seq(Nat) /\ Len(waiters') = Len(waiters) + 1
        /\ \A i \in 1 .. Len(waiters) : waiters'[i] = waiters[i]
        /\ waiters'[Len(waiters) + 1] = n
    BY <2>2, AppendProperties
  <2>5. /\ Len(waiters) \in Nat /\ DOMAIN waiters = 1 .. Len(waiters)
        /\ DOMAIN waiters' = 1 .. Len(waiters) + 1
    BY <2>2, <2>4, LenProperties
  <2>6. \A i \in 1 .. Len(waiters) : waiters[i] \in 1 .. Len(asked)
    BY <1>1, <2>5 DEF Range
  <2>7. \A i, j \in DOMAIN waiters' : i < j => waiters'[i] < waiters'[j]
    <3>1. SUFFICES ASSUME NEW i \in DOMAIN waiters', NEW j \in DOMAIN waiters', i < j
                   PROVE  waiters'[i] < waiters'[j]
      OBVIOUS
    <3>2. CASE j = Len(waiters) + 1
      BY <1>1, <2>4, <2>5, <2>6, <3>1, <3>2
    <3>3. CASE j # Len(waiters) + 1
      <4>1. i \in 1 .. Len(waiters) /\ j \in 1 .. Len(waiters)
        BY <2>5, <3>1, <3>3
      <4>2. waiters[i] < waiters[j]
        BY <2>5, <3>1, <4>1 DEF PromptInv, Queue
      <4> QED BY <2>4, <4>1, <4>2
    <3> QED BY <3>2, <3>3
  <2> QED BY <1>5, <1>7, <2>1, <2>3, <2>4, <2>7 DEF PromptInv, Queue
<1> QED BY <1>8, <1>9

-----------------------------------------------------------------------------
(* The facade and its window. *)

LEMMA ClosedFace ==
  ASSUME face \in Face
  PROVE  LET r == [face EXCEPT !.state = "closed", !.detached = FALSE, !.timer = FALSE,
                               !.buffer = <<>>]
         IN  /\ r \in Face /\ r.state = "closed" /\ r.current = face.current
             /\ ~r.timer /\ r.buffer = <<>>
<1>1. <<>> \in Seq(Nat) /\ FALSE \in BOOLEAN
  BY EmptySeq
<1> QED BY <1>1 DEF Face

LEMMA DetachedFace ==
  ASSUME face \in Face
  PROVE  LET r == [face EXCEPT !.detached = TRUE, !.timer = TRUE]
         IN  /\ r \in Face /\ r.state = face.state /\ r.current = face.current
             /\ r.detached /\ r.timer /\ r.buffer = face.buffer
             /\ r.buffering <=> face.buffering
<1>1. TRUE \in BOOLEAN
  OBVIOUS
<1> QED BY <1>1 DEF Face

LEMMA BufferingFace ==
  ASSUME face \in Face
  PROVE  LET r == [face EXCEPT !.buffering = TRUE]
         IN  /\ r \in Face /\ r.state = face.state /\ r.current = face.current
             /\ r.detached <=> face.detached
             /\ r.timer <=> face.timer
             /\ r.buffering /\ r.buffer = face.buffer
<1>1. TRUE \in BOOLEAN
  OBVIOUS
<1> QED BY <1>1 DEF Face

LEMMA FlushedFace ==
  ASSUME face \in Face
  PROVE  LET r == [face EXCEPT !.buffering = FALSE, !.buffer = <<>>]
         IN  /\ r \in Face /\ r.state = face.state /\ r.current = face.current
             /\ r.detached <=> face.detached
             /\ r.timer <=> face.timer
             /\ ~r.buffering /\ r.buffer = <<>>
<1>1. <<>> \in Seq(Nat) /\ FALSE \in BOOLEAN
  BY EmptySeq
<1> QED BY <1>1 DEF Face

LEMMA AttachedFace ==
  ASSUME face \in Face, NEW w \in Window
  PROVE  LET r == Attached(w)
         IN  /\ r \in Face /\ r.state = face.state /\ r.current = w
             /\ ~r.detached /\ ~r.timer /\ ~r.buffering /\ r.buffer = <<>>
<1>1. <<>> \in Seq(Nat) /\ FALSE \in BOOLEAN
  BY EmptySeq
<1> QED BY <1>1 DEF Face, Attached

LEMMA ConnectedFace ==
  ASSUME face \in Face, NEW w \in Window, NEW b \in BOOLEAN
  PROVE  LET r == [face EXCEPT !.state = "live", !.current = w, !.known = b]
         IN  /\ r \in Face /\ r.state = "live" /\ r.current = w
             /\ r.detached <=> face.detached
             /\ r.timer <=> face.timer
             /\ r.buffering <=> face.buffering
             /\ r.buffer = face.buffer
BY DEF Face

LEMMA BufferedFace ==
  ASSUME face \in Face, NEW s \in Seq(Nat)
  PROVE  LET r == [face EXCEPT !.buffer = s]
         IN  /\ r \in Face /\ r.state = face.state /\ r.current = face.current
             /\ r.detached <=> face.detached
             /\ r.timer <=> face.timer
             /\ r.buffering <=> face.buffering
             /\ r.buffer = s
BY DEF Face

\* A closed facade has nothing left to keep.
LEMMA ClosedKeeps ==
  ASSUME FaceTypes', face'.state = "closed", Current' \in Window, bound' = {}, ~face'.timer
  PROVE  FaceInv'
BY DEF FaceInv, ListensToItsWindow, LosesItsWindow, NothingBefore, BuffersInAHandoff,
       OnlyAHandoffFreezes, Live

LEMMA LiveFacts ==
  ASSUME FaceInv, Live
  PROVE  /\ Current \in Window /\ bound = {Current}
         /\ face.detached <=> sock[Current] = "closed"
BY DEF FaceInv, ListensToItsWindow, LosesItsWindow, Live

LEMMA FinishKeeps ==
  ASSUME FaceInv, Live, Finish, sock' \in [Window -> Socket]
  PROVE  FaceInv'
<1>1. /\ face' \in Face /\ face'.state = "closed" /\ face'.current = face.current
      /\ ~face'.timer
  BY ClosedFace DEF Finish, FaceInv, FaceTypes
<1>2. FaceTypes'
  BY <1>1 DEF Finish, FaceInv, FaceTypes
<1>3. Current' \in Window /\ bound' = {}
  BY <1>1, LiveFacts DEF Finish, Current
<1> QED BY <1>1, <1>2, <1>3, ClosedKeeps

\* A window moves on, and the facade does not hear of it.
LEMMA WindowMoves ==
  ASSUME FaceInv, NEW w \in Window, NEW v \in Socket \ {"open"},
         sock' = [sock EXCEPT ![w] = v], UNCHANGED <<face, bound, session, preparing>>,
         w \in bound => sock[w] # "closed" /\ v \in {"ending", "closing"}
  PROVE  FaceInv'
<1>1. FaceTypes' /\ \A x \in Window : sock'[x] = IF x = w THEN v ELSE sock[x]
  BY DEF FaceInv, FaceTypes
<1>2. CASE Live
  <2>1. /\ Current \in Window /\ bound = {Current} /\ Current' = Current
        /\ w = Current => sock[w] # "closed" /\ v \in {"ending", "closing"}
    BY <1>2, LiveFacts DEF Current
  <2>2. Open(Current)' => Open(Current)
    BY <1>1, <2>1 DEF Open
  <2>3. ListensToItsWindow'
    BY DEF FaceInv, ListensToItsWindow, Live, Current
  <2>4. LosesItsWindow'
    <3>1. CASE w = Current
      BY <1>1, <1>2, <2>1, <3>1 DEF FaceInv, LosesItsWindow, Live
    <3>2. CASE w # Current
      BY <1>1, <1>2, <2>1, <3>2 DEF FaceInv, LosesItsWindow, Live
    <3> QED BY <3>1, <3>2
  <2>5. BuffersInAHandoff' /\ OnlyAHandoffFreezes'
    BY <2>1, <2>2 DEF FaceInv, BuffersInAHandoff, OnlyAHandoffFreezes, Live
  <2> QED BY <1>1, <2>3, <2>4, <2>5 DEF FaceInv, NothingBefore
<1>3. CASE ~Live
  BY <1>1, <1>3 DEF FaceInv, ListensToItsWindow, LosesItsWindow, NothingBefore,
                    BuffersInAHandoff, OnlyAHandoffFreezes, Live, Current
<1> QED BY <1>2, <1>3

LEMMA ClosesKeepsFace ==
  ASSUME FaceInv, NEW w \in Window, Closes(w)
  PROVE  FaceInv'
<1>1. /\ sock[w] \in {"expired", "ending", "closing"} /\ sock' = [sock EXCEPT ![w] = "closed"]
      /\ sock' \in [Window -> Socket] /\ sock'[w] = "closed" /\ "closed" \in Socket \ {"open"}
  BY DEF Closes, FaceInv, FaceTypes, Socket
<1>2. CASE w \notin bound
  BY <1>1, <1>2, WindowMoves DEF Closes, prompts, output
<1>3. CASE w \in bound
  <2>1. Live /\ Current = w /\ ~face.detached
    BY <1>1, <1>3, LiveFacts DEF FaceInv, ListensToItsWindow
  <2>2. CASE sock[w] = "ending"
    BY <1>1, <1>3, <2>1, <2>2, FinishKeeps DEF Closes, HandleClose
  <2>3. CASE sock[w] # "ending"
    <3>1. /\ face' = [face EXCEPT !.detached = TRUE, !.timer = TRUE]
          /\ UNCHANGED <<bound, session, preparing>>
      BY <1>3, <2>1, <2>3 DEF Closes, HandleClose
    <3>2. /\ face' \in Face /\ face'.state = "live" /\ face'.current = w
          /\ face'.detached /\ face'.timer
      BY <2>1, <3>1, DetachedFace DEF FaceInv, FaceTypes, Live, Current
    <3>3. FaceTypes'
      BY <1>1, <3>1, <3>2 DEF FaceInv, FaceTypes
    <3>4. bound' = {w} /\ Live' /\ Current' = w
      BY <2>1, <3>1, <3>2, LiveFacts DEF Live, Current
    <3>5. ~Open(Current)'
      BY <1>1, <3>4 DEF Open
    <3> QED BY <1>1, <3>2, <3>3, <3>4, <3>5 DEF FaceInv, ListensToItsWindow, LosesItsWindow,
               NothingBefore, BuffersInAHandoff, OnlyAHandoffFreezes, Live
  <2> QED BY <2>2, <2>3
<1> QED BY <1>2, <1>3

LEMMA EndKeeps ==
  ASSUME FaceInv, End, session' = "over", UNCHANGED preparing, face.state # "none"
  PROVE  FaceInv'
<1>1. CASE Live
  <2>1. /\ face' \in Face /\ face'.state = "closed" /\ face'.current = face.current
        /\ ~face'.timer
    BY <1>1, ClosedFace DEF End, FaceInv, FaceTypes
  <2>2. Current \in Window /\ Current' = Current /\ bound' = {}
    BY <1>1, <2>1, LiveFacts DEF End, Current
  <2>3. sock' \in [Window -> Socket]
    <3>1. sock' = [sock EXCEPT ![Current] = IF @ = "open" THEN "closing" ELSE @]
      BY <1>1 DEF End
    <3> QED BY <2>2, <3>1 DEF FaceInv, FaceTypes, Socket
  <2>4. FaceTypes'
    BY <2>1, <2>3 DEF FaceInv, FaceTypes
  <2> QED BY <2>1, <2>2, <2>4, ClosedKeeps
<1>2. CASE ~Live
  BY <1>2 DEF End, FaceInv, FaceTypes, ListensToItsWindow, LosesItsWindow, NothingBefore,
              BuffersInAHandoff, OnlyAHandoffFreezes, Live, Open, Current
<1> QED BY <1>1, <1>2
LEMMA ConnectKeepsFace ==
  ASSUME FaceInv, NEW w \in Window, Connect(w)
  PROVE  FaceInv'
<1>1. /\ sock[w] \in {"new", "expired"} /\ face.state = "none"
      /\ sock' = [sock EXCEPT ![w] = Began(w)] /\ bound' = {w} /\ session' = "login"
      /\ preparing' = preparing
  BY DEF Connect
<1>2. face.buffer = <<>> /\ ~face.detached /\ ~face.timer /\ ~face.buffering
  BY <1>1 DEF FaceInv, NothingBefore, LosesItsWindow, Live
<1>3. /\ face' \in Face /\ face'.state = "live" /\ face'.current = w
      /\ face'.detached <=> face.detached
      /\ face'.timer <=> face.timer
      /\ face'.buffering <=> face.buffering
      /\ face'.buffer = face.buffer
  <2> DEFINE b == sock[w] = "new"
  <2>1. b \in BOOLEAN
    OBVIOUS
  <2>2. face \in Face /\ face' = [face EXCEPT !.state = "live", !.current = w, !.known = b]
    BY DEF Connect, FaceInv, FaceTypes
  <2> HIDE DEF b
  <2> QED BY <2>1, <2>2, ConnectedFace, ZenonT(40)
<1>4. sock' \in [Window -> Socket] /\ sock'[w] \in {"open", "closing"}
  BY <1>1 DEF Began, FaceInv, FaceTypes, Socket
<1>5. FaceTypes' /\ Live' /\ Current' = w
  BY <1>1, <1>3, <1>4 DEF FaceInv, FaceTypes, Live, Current
<1> QED BY <1>1, <1>2, <1>3, <1>4, <1>5 DEF FaceInv, ListensToItsWindow, LosesItsWindow,
           NothingBefore, BuffersInAHandoff, OnlyAHandoffFreezes, Live

LEMMA AttachKeepsFace ==
  ASSUME FaceInv, NEW w \in Window, Attach(w)
  PROVE  FaceInv'
<1>1. sock[w] \in {"new", "expired"}
  BY DEF Attach
<1>2. CASE Live
  <2>1. /\ sock' = [sock EXCEPT ![w] = Began(w),
                                ![Current] = IF @ = "open" THEN "closing" ELSE @]
        /\ face' = Attached(w) /\ bound' = BoundTo(w) /\ session' = session
        /\ preparing' = preparing \ {Current}
    BY <1>2 DEF Attach
  <2>2. Current \in Window /\ bound = {Current} /\ Current # w
    <3>1. sock[Current] \in {"open", "ending", "closing", "closed"}
      BY <1>2 DEF FaceInv, LosesItsWindow
    <3> QED BY <1>1, <1>2, <3>1, LiveFacts
  <2>3. /\ face' \in Face /\ face'.state = "live" /\ face'.current = w
        /\ ~face'.detached /\ ~face'.timer /\ ~face'.buffering /\ face'.buffer = <<>>
    BY <1>2, <2>1, AttachedFace DEF FaceInv, FaceTypes, Live
  <2>4. sock' \in [Window -> Socket] /\ sock'[w] \in {"open", "closing"}
    BY <1>1, <2>1, <2>2 DEF Began, FaceInv, FaceTypes, Socket
  <2>5. bound' = {w}
    BY <2>1, <2>2 DEF BoundTo
  <2>6. FaceTypes' /\ Live' /\ Current' = w
    BY <2>1, <2>3, <2>4 DEF FaceInv, FaceTypes, Live, Current
  <2> QED BY <2>3, <2>4, <2>5, <2>6 DEF FaceInv, ListensToItsWindow, LosesItsWindow,
             NothingBefore, BuffersInAHandoff, OnlyAHandoffFreezes, Live
<1>3. CASE ~Live
  <2>1. bound = {} /\ "closing" \in Socket \ {"open"}
    BY <1>3 DEF FaceInv, ListensToItsWindow, Socket
  <2> QED BY <1>3, <2>1, WindowMoves DEF Attach
<1> QED BY <1>2, <1>3

\* A window the facade hears is its own, and it is open.
LEMMA HeardIsCurrent ==
  ASSUME FaceInv, NEW w \in Window, Heard(w)
  PROVE  Live /\ Current = w /\ sock[w] = "open"
BY DEF Heard, Open, FaceInv, ListensToItsWindow

LEMMA PrepareKeepsFace ==
  ASSUME FaceInv, NEW w \in Window, PrepareTransfer(w)
  PROVE  FaceInv'
<1>1. Live /\ Current = w /\ sock[w] = "open"
  BY HeardIsCurrent DEF PrepareTransfer
<1>2. /\ face' \in Face /\ face'.state = face.state /\ face'.current = face.current
      /\ face'.detached <=> face.detached
      /\ face'.timer <=> face.timer
      /\ face'.buffering
  BY BufferingFace DEF PrepareTransfer, FaceInv, FaceTypes
<1>3. /\ UNCHANGED <<sock, bound, session>> /\ preparing' = preparing \union {w}
  BY DEF PrepareTransfer
<1>4. FaceTypes' /\ Live' /\ Current' = w
  BY <1>1, <1>2, <1>3 DEF FaceInv, FaceTypes, Live, Current
<1> QED BY <1>1, <1>2, <1>3, <1>4 DEF FaceInv, ListensToItsWindow, LosesItsWindow,
           NothingBefore, BuffersInAHandoff, OnlyAHandoffFreezes, Live

LEMMA CancelKeepsFace ==
  ASSUME FaceInv, NEW w \in Window, CancelTransfer(w)
  PROVE  FaceInv'
<1>1. Live /\ Current = w /\ sock[w] = "open"
  BY HeardIsCurrent DEF CancelTransfer
<1>2. /\ face' \in Face /\ face'.state = face.state /\ face'.current = face.current
      /\ face'.detached <=> face.detached
      /\ face'.timer <=> face.timer
      /\ ~face'.buffering /\ face'.buffer = <<>>
  BY FlushedFace DEF CancelTransfer, FaceInv, FaceTypes
<1>3. /\ UNCHANGED <<sock, bound, session>> /\ preparing' = preparing \ {w}
  BY DEF CancelTransfer
<1>4. FaceTypes' /\ Live' /\ Current' = w
  BY <1>1, <1>2, <1>3 DEF FaceInv, FaceTypes, Live, Current
<1> QED BY <1>1, <1>2, <1>3, <1>4 DEF FaceInv, ListensToItsWindow, LosesItsWindow,
           NothingBefore, BuffersInAHandoff, OnlyAHandoffFreezes, Live

\* The buffer that holds one more chunk, or the newest of a full one.
LEMMA TailedIsSeq ==
  ASSUME NEW b \in Seq(Nat), NEW n \in Nat
  PROVE  Tailed(b, n) \in Seq(Nat)
<1>1. CASE Len(b) < BufferSize
  BY <1>1, AppendProperties DEF Tailed
<1>2. CASE ~(Len(b) < BufferSize)
  <2>1. b # <<>>
    <3>1. Len(<<>>) = 0
      BY EmptySeq
    <3> QED BY <1>2, <3>1, TerminalAssumption
  <2>2. Tail(b) \in Seq(Nat)
    BY <2>1, HeadTailProperties
  <2> QED BY <1>2, <2>2, AppendProperties DEF Tailed
<1> QED BY <1>1, <1>2

LEMMA ProducesKeepsFace ==
  ASSUME FaceInv, made \in Nat, Produces
  PROVE  FaceInv'
<1> DEFINE direct == Open(Current) /\ ~face.buffering /\ ~face.detached
           s == Tailed(face.buffer, made + 1)
<1>1. /\ Live /\ UNCHANGED <<sock, bound, session, preparing>>
      /\ face' = IF direct THEN face ELSE [face EXCEPT !.buffer = s]
  BY DEF Produces
<1>2. CASE direct
  BY <1>1, <1>2 DEF FaceInv, FaceTypes, ListensToItsWindow, LosesItsWindow, NothingBefore,
                    BuffersInAHandoff, OnlyAHandoffFreezes, Live, Open, Current
<1>3. CASE ~direct
  <2>1. face.buffer \in Seq(Nat)
    BY DEF FaceInv, FaceTypes, Face
  <2>2. s \in Seq(Nat)
    BY <2>1, TailedIsSeq
  <2> HIDE DEF s
  <2>3. /\ face' \in Face /\ face'.state = face.state /\ face'.current = face.current
        /\ face'.detached <=> face.detached
        /\ face'.timer <=> face.timer
        /\ face'.buffering <=> face.buffering
    BY <1>1, <1>3, <2>2, BufferedFace DEF FaceInv, FaceTypes
  <2>4. FaceTypes' /\ Live' /\ Current' = Current /\ (Open(Current)' <=> Open(Current))
    BY <1>1, <2>3 DEF FaceInv, FaceTypes, Live, Current, Open
  <2>5. Open(Current) => face.buffering
    BY <1>1, <1>3, LiveFacts DEF Open
  <2> QED BY <1>1, <2>3, <2>4, <2>5 DEF FaceInv, ListensToItsWindow, LosesItsWindow,
             NothingBefore, BuffersInAHandoff, OnlyAHandoffFreezes, Live
<1> QED BY <1>2, <1>3
LEMMA FaceNext ==
  ASSUME FaceInv, made \in Nat, [Next]_vars
  PROVE  FaceInv'
<1> USE DEF prompts, output
<1> DEFINE Same == UNCHANGED <<sock, face, bound, preparing>>
<1>1. ASSUME Same, session' \in {"none", "login", "up", "over"},
             face.state = "none" => session' = session
      PROVE  FaceInv'
  BY <1>1 DEF FaceInv, FaceTypes, ListensToItsWindow, LosesItsWindow, NothingBefore,
              BuffersInAHandoff, OnlyAHandoffFreezes, Live, Open, Current
<1>2. ASSUME Same, session' = session
      PROVE  FaceInv'
  BY <1>1, <1>2 DEF FaceInv, FaceTypes
<1>3. ASSUME NEW w \in Window, Opens(w)
      PROVE  FaceInv'
  <2>1. sock[w] # "none" \/ w \notin bound
    BY DEF FaceInv, ListensToItsWindow, LosesItsWindow
  <2>2. "new" \in Socket \ {"open"}
    BY DEF Socket
  <2> QED BY <1>3, <2>1, <2>2, WindowMoves DEF Opens
<1>4. ASSUME NEW w \in Window, TimesOut(w)
      PROVE  FaceInv'
  <2>1. sock[w] # "new" \/ w \notin bound
    BY DEF FaceInv, ListensToItsWindow, LosesItsWindow
  <2>2. "expired" \in Socket \ {"open"}
    BY DEF Socket
  <2> QED BY <1>4, <2>1, <2>2, WindowMoves DEF TimesOut
<1>5. ASSUME NEW w \in Window, Leaves(w)
      PROVE  FaceInv'
  <2>1. PICK how \in {"ending", "closing"} : sock' = [sock EXCEPT ![w] = how]
    BY <1>5 DEF Leaves
  <2>2. how \in Socket \ {"open"} /\ sock[w] # "closed"
    BY <1>5, <2>1 DEF Socket, Leaves
  <2>3. UNCHANGED <<face, bound, session, preparing>>
    BY <1>5 DEF Leaves
  <2> QED BY <2>1, <2>2, <2>3, WindowMoves
<1>6. ASSUME NEW w \in Window, Connect(w) \/ Attach(w) \/ Closes(w)
      PROVE  FaceInv'
  BY <1>6, ConnectKeepsFace, AttachKeepsFace, ClosesKeepsFace
<1>7. ASSUME NEW w \in Window, PrepareTransfer(w) \/ CancelTransfer(w)
      PROVE  FaceInv'
  BY <1>7, PrepareKeepsFace, CancelKeepsFace
<1>8. ASSUME NEW w \in Window, Resize(w) \/ Break(w) \/ \E k \in Kind : Answer(w, k)
      PROVE  FaceInv'
  <2>1. Same /\ session' = session
    BY <1>8 DEF Resize, Break, Answer
  <2> QED BY <1>2, <2>1
<1>9. ASSUME GraceExpires
      PROVE  FaceInv'
  BY <1>9, FinishKeeps DEF GraceExpires, FaceInv, FaceTypes, LosesItsWindow
<1>10. ASSUME (\E k \in Kind : LoginAsks(k)) \/ VaultAsks
       PROVE  FaceInv'
  <2>1. Same /\ session' = session
    BY <1>10 DEF LoginAsks, VaultAsks, Asks
  <2> QED BY <1>2, <2>1
<1>11. session \in {"login", "up"} => face.state # "none"
  BY DEF FaceInv, NothingBefore
<1>12. ASSUME LoginSucceeds
       PROVE  FaceInv'
  <2>1. Same /\ session' \in {"none", "login", "up", "over"} /\ face.state # "none"
    BY <1>11, <1>12 DEF LoginSucceeds, Established
  <2> QED BY <1>1, <2>1
<1>13. ASSUME LoginFails \/ TransportEnds
       PROVE  FaceInv'
  BY <1>11, <1>13, EndKeeps DEF LoginFails, TransportEnds
<1>14. ASSUME Produces
       PROVE  FaceInv'
  BY <1>14, ProducesKeepsFace
<1>15. ASSUME UNCHANGED vars
       PROVE  FaceInv'
  <2>1. Same /\ session' = session
    BY <1>15 DEF vars
  <2> QED BY <1>2, <2>1
<1> HIDE DEF Same
<1> QED BY <1>3, <1>4, <1>5, <1>6, <1>7, <1>8, <1>9, <1>10, <1>12, <1>13, <1>14, <1>15
        DEF Next, Login

LEMMA PromptNext ==
  ASSUME PromptInv, [Next]_vars
  PROVE  PromptInv'
<1> USE DEF prompts, output
<1>1. Len(asked) \in Nat
  BY PromptsAreTyped DEF PromptInv
<1>2. ASSUME Queue', Len(asked') = Len(asked), kept' \in [Kind -> 0 .. Len(asked)]
      PROVE  PromptInv'
  BY <1>2 DEF PromptInv, KeptWasAsked
<1>3. NoDialog \in [Kind -> 0 .. Len(asked)]
  BY <1>1 DEF NoDialog
<1>4. ASSUME UNCHANGED <<asked, waiters>>, kept' = kept \/ kept' = NoDialog
      PROVE  PromptInv'
  BY <1>2, <1>3, <1>4 DEF PromptInv, Queue, KeptWasAsked
<1>5. ASSUME CloseControl, UNCHANGED kept
      PROVE  PromptInv'
  BY <1>2, <1>5, CloseControlKeeps DEF PromptInv, KeptWasAsked
<1>6. ASSUME NEW i, NEW op, Push(i, op), kept' \in [Kind -> 0 .. Len(asked)]
      PROVE  PromptInv'
  BY <1>2, <1>6, PushKeeps DEF PromptInv
<1>7. kept \in [Kind -> 0 .. Len(asked)]
  BY DEF PromptInv, KeptWasAsked
<1>8. ASSUME NEW w \in Window, Opens(w) \/ TimesOut(w) \/ Connect(w) \/ Leaves(w)
                               \/ PrepareTransfer(w) \/ CancelTransfer(w)
      PROVE  PromptInv'
  <2>1. UNCHANGED <<asked, waiters, kept>>
    BY <1>8 DEF Opens, TimesOut, Connect, Leaves, PrepareTransfer, CancelTransfer
  <2> QED BY <1>4, <2>1
<1>9. ASSUME NEW w \in Window, Attach(w)
      PROVE  PromptInv'
  <2>1. CASE Live
    <3>1. Push(0, "resize") /\ kept' = kept
      BY <1>9, <2>1 DEF Attach
    <3> QED BY <1>6, <1>7, <3>1
  <2>2. CASE ~Live
    BY <1>4, <1>9, <2>2 DEF Attach
  <2> QED BY <2>1, <2>2
<1>10. ASSUME NEW w \in Window, Closes(w)
       PROVE  PromptInv'
  <2>1. (CloseControl /\ UNCHANGED kept) \/ UNCHANGED <<asked, waiters, kept>>
    BY <1>10 DEF Closes, HandleClose, Finish
  <2> QED BY <1>4, <1>5, <2>1
<1>11. ASSUME NEW w \in Window, Resize(w) \/ Break(w)
       PROVE  PromptInv'
  <2>1. (Push(0, "resize") \/ Push(0, "send-break")) /\ kept' = kept
    BY <1>11 DEF Resize, Break
  <2> QED BY <1>6, <1>7, <2>1
<1>12. ASSUME NEW w \in Window, NEW k \in Kind, Answer(w, k)
       PROVE  PromptInv'
  <2>1. Push(dialog[w][k], k) /\ kept' = [kept EXCEPT ![k] = 0]
    BY <1>12 DEF Answer
  <2>2. kept' \in [Kind -> 0 .. Len(asked)]
    BY <1>1, <1>7, <2>1
  <2> QED BY <1>6, <2>1, <2>2
<1>13. ASSUME GraceExpires
       PROVE  PromptInv'
  BY <1>5, <1>13 DEF GraceExpires, Finish
<1>14. ASSUME NEW k \in Kind, LoginAsks(k)
       PROVE  PromptInv'
  BY <1>14, AsksKeeps DEF LoginAsks
<1>15. ASSUME VaultAsks
       PROVE  PromptInv'
  <2>1. "auth-prompt" \in Kind
    BY DEF Kind
  <2> QED BY <1>15, <2>1, AsksKeeps DEF VaultAsks
<1>16. ASSUME LoginSucceeds \/ Produces
       PROVE  PromptInv'
  <2>1. UNCHANGED <<asked, waiters>> /\ (kept' = kept \/ kept' = NoDialog)
    BY <1>16 DEF LoginSucceeds, Produces
  <2> QED BY <1>4, <2>1
<1>17. ASSUME LoginFails \/ TransportEnds
       PROVE  PromptInv'
  <2>1. (CloseControl /\ UNCHANGED kept) \/ UNCHANGED <<asked, waiters, kept>>
    BY <1>17 DEF LoginFails, TransportEnds, End
  <2> QED BY <1>4, <1>5, <2>1
<1>18. ASSUME UNCHANGED vars
       PROVE  PromptInv'
  <2>1. UNCHANGED <<asked, waiters, kept>>
    BY <1>18 DEF vars
  <2> QED BY <1>4, <2>1
<1> QED BY <1>8, <1>9, <1>10, <1>11, <1>12, <1>13, <1>14, <1>15, <1>16, <1>17, <1>18
        DEF Next, Login

-----------------------------------------------------------------------------
(* The output. *)

LEMMA BufferFacts ==
  ASSUME FaceInv, OutInv
  PROVE  /\ face.buffer \in Seq(Nat) /\ Len(face.buffer) \in Nat
         /\ DOMAIN face.buffer = 1 .. Len(face.buffer)
         /\ BufferSize \in Nat \ {0} /\ made \in Nat
         /\ Len(sent) \in Nat /\ DOMAIN sent = 1 .. Len(sent)
         /\ \A i \in 1 .. Len(sent) : sent[i] \in Nat
<1>1. face.buffer \in Seq(Nat)
  BY DEF FaceInv, FaceTypes, Face
<1> QED BY <1>1, LenProperties, ElementOfSeq, TerminalAssumption DEF OutInv

LEMMA NothingIsProduced ==
  ASSUME OutInv, UNCHANGED output, face'.buffer = face.buffer,
         face'.state = "closed" <=> face.state = "closed"
  PROVE  OutInv'
BY DEF OutInv, output

\* A closed session keeps no buffer.
LEMMA ClosedIsEmpty ==
  ASSUME FaceInv, OutInv, UNCHANGED output, face'.buffer = <<>>, face'.state = "closed"
  PROVE  OutInv'
<1>1. Len(face'.buffer) = 0 /\ DOMAIN face'.buffer = {}
  BY EmptySeq
<1>2. \A i \in DOMAIN sent : sent[i] <= made
  <2>1. SUFFICES ASSUME NEW i \in DOMAIN sent
                 PROVE  sent[i] <= made
    OBVIOUS
  <2>2. sent[i] \in Nat /\ sent[i] <= made - Len(face.buffer) /\ Len(face.buffer) \in Nat
    BY BufferFacts DEF OutInv
  <2> QED BY <2>2, BufferFacts
<1> QED BY <1>1, <1>2, BufferFacts DEF OutInv, NewestUpTo, output

\* A flush sends the buffer behind what was sent, or drops it.
LEMMA FlushKeeps ==
  ASSUME FaceInv, OutInv, NEW open \in BOOLEAN, Flush(open), face'.buffer = <<>>,
         face'.state = face.state
  PROVE  OutInv'
<1> DEFINE b == face.buffer
           n == Len(b)
           m == Len(sent)
<1>1. /\ b \in Seq(Nat) /\ n \in Nat /\ DOMAIN b = 1 .. n /\ made \in Nat
      /\ m \in Nat /\ DOMAIN sent = 1 .. m /\ \A i \in 1 .. m : sent[i] \in Nat
      /\ n <= made /\ BufferSize \in Nat \ {0}
  BY BufferFacts DEF OutInv
<1>2. /\ \A i \in 1 .. n : b[i] = made - n + i
      /\ \A i \in 1 .. m : sent[i] <= made - n
      /\ \A i, j \in 1 .. m : i < j => sent[i] < sent[j]
  BY <1>1 DEF OutInv, NewestUpTo
<1>3. made' = made
  BY DEF Flush
<1>4. Len(face'.buffer) = 0 /\ DOMAIN face'.buffer = {} /\ Range(face'.buffer) = {}
  BY EmptySeq DEF Range
<1>5. sent \in Seq(Nat) /\ lost \in [full : SUBSET Nat, late : SUBSET Nat]
  BY DEF OutInv
<1>6. CASE ~open
  <2>1. sent' = sent /\ lost' = [lost EXCEPT !.late = @ \union Range(b)]
    BY <1>6 DEF Flush
  <2>2. Range(b) \subseteq Nat
    BY <1>1, RangeOfSeq
  <2>3. /\ lost' \in [full : SUBSET Nat, late : SUBSET Nat]
        /\ lost'.full = lost.full /\ lost'.late = lost.late \union Range(b)
    BY <1>5, <2>1, <2>2
  <2>4. \A i \in 1 .. m : sent[i] <= made
    BY <1>1, <1>2
  <2>5. face.state # "closed" =>
          1 .. made = Range(sent) \union Range(face'.buffer) \union lost'.full \union lost'.late
    BY <1>4, <2>3 DEF OutInv
  <2>6. \A k \in lost'.full : k + BufferSize <= made
    BY <2>3 DEF OutInv
  <2>7. \A i \in 1 .. m : sent[i] <= made - 0
    BY <1>1, <2>4
  <2>8. /\ made' \in Nat /\ sent' \in Seq(Nat) /\ lost' \in [full : SUBSET Nat, late : SUBSET Nat]
    BY <1>1, <1>3, <1>5, <2>1, <2>3
  <2>9. Len(face'.buffer) <= BufferSize /\ Len(face'.buffer) <= made'
    BY <1>1, <1>3, <1>4
  <2>10. /\ \A i, j \in DOMAIN sent' : i < j => sent'[i] < sent'[j]
        /\ \A i \in DOMAIN sent' : sent'[i] <= made' - Len(face'.buffer)
    BY <1>1, <1>2, <1>3, <1>4, <2>1, <2>7
  <2>11. NewestUpTo(face'.buffer, made')
    BY <1>4 DEF NewestUpTo
  <2>12. face'.state # "closed" =>
          1 .. made' = Range(sent') \union Range(face'.buffer) \union lost'.full \union lost'.late
    BY <1>3, <2>1, <2>5
  <2> QED BY <1>3, <2>6, <2>8, <2>9, <2>10, <2>11, <2>12 DEF OutInv
<1>7. CASE open
  <2> DEFINE s == sent \o b
  <2>1. sent' = s /\ lost' = lost
    BY <1>7 DEF Flush
  <2>2. /\ s \in Seq(Nat) /\ Len(s) = m + n
        /\ \A i \in 1 .. m + n : s[i] = IF i <= m THEN sent[i] ELSE b[i - m]
    BY <1>1, <1>5, ConcatProperties
  <2>3. DOMAIN s = 1 .. m + n
    BY <2>2, LenProperties
  <2>4. Range(s) = Range(sent) \union Range(b)
    BY <1>1, <1>5, RangeConcatenation
  <2> HIDE DEF s, b, n, m
  <2>5. \A i \in 1 .. m + n : i > m => s[i] = made - n + (i - m)
    <3>1. SUFFICES ASSUME NEW i \in 1 .. m + n, i > m
                   PROVE  s[i] = made - n + (i - m)
      OBVIOUS
    <3>2. i - m \in 1 .. n
      BY <1>1, <3>1
    <3>3. b[i - m] = made - n + (i - m)
      BY <1>2, <3>2
    <3>4. ~(i <= m)
      BY <1>1, <3>1
    <3> QED BY <2>2, <3>3, <3>4
  <2>6. \A i \in 1 .. m + n : i <= m => s[i] \in Nat /\ s[i] <= made - n /\ s[i] = sent[i]
    <3>1. SUFFICES ASSUME NEW i \in 1 .. m + n, i <= m
                   PROVE  s[i] \in Nat /\ s[i] <= made - n /\ s[i] = sent[i]
      OBVIOUS
    <3>2. i \in 1 .. m
      BY <1>1, <3>1
    <3>3. sent[i] \in Nat /\ sent[i] <= made - n
      BY <1>1, <1>2, <3>2
    <3>4. s[i] = sent[i]
      BY <2>2, <3>1
    <3> QED BY <3>3, <3>4
  <2>7. \A i \in 1 .. m + n : s[i] <= made
    BY <1>1, <2>5, <2>6, SMTT(30)
  <2>8. \A i, j \in 1 .. m + n : i < j => s[i] < s[j]
    <3>1. SUFFICES ASSUME NEW i \in 1 .. m + n, NEW j \in 1 .. m + n, i < j
                   PROVE  s[i] < s[j]
      OBVIOUS
    <3>2. CASE j <= m
      <4>1. i \in 1 .. m /\ j \in 1 .. m
        BY <1>1, <3>1, <3>2
      <4>2. sent[i] < sent[j]
        BY <1>2, <3>1, <4>1
      <4>3. s[i] = sent[i] /\ s[j] = sent[j]
        BY <2>6, <4>1
      <4> QED BY <4>2, <4>3
    <3>3. CASE i <= m /\ j > m
      BY <1>1, <2>5, <2>6, <3>1, <3>3
    <3>4. CASE i > m
      <4>1. i \in Nat /\ j \in Nat /\ j > m /\ m \in Nat /\ n \in Nat /\ made \in Nat
        BY <1>1, <3>1, <3>4
      <4>2. s[i] = made - n + (i - m) /\ s[j] = made - n + (j - m)
        BY <2>5, <3>1, <3>4, <4>1
      <4> QED BY <3>1, <4>1, <4>2
    <3> QED BY <1>1, <3>1, <3>2, <3>3, <3>4
  <2>9. face.state # "closed" =>
          1 .. made = Range(s) \union Range(face'.buffer) \union lost.full \union lost.late
    BY <1>4, <2>4 DEF OutInv, b
  <2> QED BY <1>1, <1>3, <1>4, <1>5, <2>1, <2>2, <2>3, <2>7, <2>8, <2>9
        DEF OutInv, NewestUpTo
<1> QED BY <1>6, <1>7
\* The buffer takes the chunk n, and gives up its oldest when it is full.
LEMMA TailedKeeps ==
  ASSUME NEW b \in Seq(Nat), NEW n \in Nat, Len(b) <= BufferSize, Len(b) < n,
         NewestUpTo(b, n - 1)
  PROVE  LET s == Tailed(b, n)
         IN  /\ s \in Seq(Nat) /\ Len(s) <= BufferSize /\ Len(s) <= Len(b) + 1
             /\ NewestUpTo(s, n)
             /\ Len(b) # BufferSize => Range(s) = Range(b) \union {n}
             /\ Len(b) = BufferSize =>
                  /\ Head(b) \in Nat /\ Head(b) + BufferSize <= n
                  /\ Range(s) \union {Head(b)} = Range(b) \union {n}
<1> DEFINE s == Tailed(b, n)
<1>1. Len(b) \in Nat /\ DOMAIN b = 1 .. Len(b) /\ BufferSize \in Nat \ {0}
  BY LenProperties, TerminalAssumption
<1>2. \A i \in 1 .. Len(b) : b[i] = n - 1 - Len(b) + i
  BY <1>1 DEF NewestUpTo
<1>3. CASE Len(b) # BufferSize
  <2>1. Len(b) < BufferSize
    <3>1. Len(b) \in Nat /\ BufferSize \in Nat
      BY <1>1
    <3> QED BY <1>3, <3>1
  <2>2. s = Append(b, n)
    BY <2>1 DEF Tailed
  <2>3. /\ s \in Seq(Nat) /\ Len(s) = Len(b) + 1
        /\ \A i \in 1 .. Len(b) : s[i] = b[i]
        /\ s[Len(b) + 1] = n
    BY <2>2, AppendProperties
  <2>4. Range(s) = Range(b) \union {n}
    BY <2>2, RangeOfAppend
  <2>5. DOMAIN s = 1 .. Len(b) + 1
    BY <2>3, LenProperties
  <2> HIDE DEF s
  <2>6. ASSUME NEW i \in DOMAIN s
        PROVE  s[i] = n - Len(s) + i
    <3>1. CASE i = Len(b) + 1
      BY <1>1, <2>3, <3>1
    <3>2. CASE i # Len(b) + 1
      <4>1. i \in 1 .. Len(b)
        BY <1>1, <2>5, <3>2
      <4>2. b[i] = n - 1 - Len(b) + i
        BY <1>2, <4>1
      <4> QED BY <1>1, <2>3, <4>1, <4>2
    <3> QED BY <3>1, <3>2
  <2>7. Len(s) <= BufferSize /\ Len(s) <= Len(b) + 1
    BY <1>1, <2>1, <2>3
  <2>8. NewestUpTo(s, n)
    BY <2>6 DEF NewestUpTo
  <2> QED BY <1>3, <2>3, <2>4, <2>7, <2>8 DEF s
<1>4. CASE Len(b) = BufferSize
  <2> DEFINE r == Tail(b)
  <2>1. b # <<>>
    <3>1. Len(<<>>) = 0
      BY EmptySeq
    <3> QED BY <1>1, <1>4, <3>1
  <2>2. s = Append(r, n)
    BY <1>1, <1>4 DEF Tailed
  <2>3. /\ r \in Seq(Nat) /\ Len(r) = Len(b) - 1
        /\ \A i \in 1 .. Len(r) : r[i] = b[i + 1]
    BY <2>1, HeadTailProperties
  <2>4. \A i, j \in DOMAIN b : i < j => b[i] < b[j]
    BY <1>1, <1>2
  <2>5. /\ Head(b) \in Range(b)
        /\ Range(r) = Range(b) \ {Head(b)}
    BY <2>1, <2>4, TailOfIncreasing
  <2>6. Head(b) = b[1] /\ b[1] = n - Len(b)
    <3>1. Head(b) = b[1]
      BY <2>1
    <3>2. 1 \in 1 .. Len(b)
      BY <1>1, <1>4
    <3>3. b[1] = n - 1 - Len(b) + 1
      BY <1>2, <3>2
    <3> QED BY <1>1, <3>1, <3>3
  <2> HIDE DEF r
  <2>7. /\ s \in Seq(Nat) /\ Len(s) = Len(b)
        /\ \A i \in 1 .. Len(b) - 1 : s[i] = r[i]
        /\ s[Len(b)] = n
    <3>1. /\ s \in Seq(Nat) /\ Len(s) = Len(r) + 1
          /\ \A i \in 1 .. Len(r) : s[i] = r[i]
          /\ s[Len(r) + 1] = n
      BY <2>2, <2>3, AppendProperties
    <3>2. Len(r) + 1 = Len(b)
      BY <1>1, <2>3
    <3> HIDE DEF s
    <3> QED BY <2>3, <3>1, <3>2
  <2>8. Range(s) = Range(r) \union {n}
    <3>1. Range(Append(r, n)) = Range(r) \union {n}
      BY <2>3, RangeOfAppend
    <3> HIDE DEF s
    <3> QED BY <2>2, <3>1
  <2>9. DOMAIN s = 1 .. Len(b)
    BY <2>7, LenProperties
  <2> HIDE DEF s
  <2>10. ASSUME NEW i \in DOMAIN s
         PROVE  s[i] = n - Len(s) + i
    <3>1. CASE i = Len(b)
      BY <1>1, <2>7, <3>1
    <3>2. CASE i # Len(b)
      <4>1. i \in 1 .. Len(b) - 1 /\ i + 1 \in 1 .. Len(b)
        BY <1>1, <2>9, <3>2
      <4>2. b[i + 1] = n - 1 - Len(b) + (i + 1)
        BY <1>2, <4>1
      <4>3. s[i] = b[i + 1]
        BY <2>3, <2>7, <4>1
      <4> QED BY <1>1, <2>7, <4>1, <4>2, <4>3
    <3> QED BY <3>1, <3>2
  <2>11. Head(b) \in Nat /\ Head(b) + BufferSize <= n
    BY <1>1, <1>4, <2>6
  <2>12. Range(s) \union {Head(b)} = Range(b) \union {n}
    BY <2>5, <2>8
  <2>13. Len(s) <= BufferSize /\ Len(s) <= Len(b) + 1
    BY <1>1, <1>4, <2>7
  <2>14. NewestUpTo(s, n)
    BY <2>10 DEF NewestUpTo
  <2> QED BY <1>4, <2>7, <2>11, <2>12, <2>13, <2>14 DEF s
<1> HIDE DEF s
<1> QED BY <1>3, <1>4 DEF s

LEMMA ProducesKeepsOut ==
  ASSUME FaceInv, OutInv, Produces
  PROVE  OutInv'
<1> DEFINE b == face.buffer
           n == made + 1
           m == Len(sent)
           direct == Open(Current) /\ ~face.buffering /\ ~face.detached
<1>1. /\ b \in Seq(Nat) /\ Len(b) \in Nat /\ DOMAIN b = 1 .. Len(b) /\ made \in Nat
      /\ m \in Nat /\ DOMAIN sent = 1 .. m /\ \A i \in 1 .. m : sent[i] \in Nat
      /\ Len(b) <= made /\ Len(b) <= BufferSize /\ BufferSize \in Nat \ {0}
  BY BufferFacts DEF OutInv
<1>2. /\ Live /\ made' = n
      /\ sent' = IF direct THEN Append(sent, n) ELSE sent
      /\ lost' = IF ~direct /\ Len(b) = BufferSize
                   THEN [lost EXCEPT !.full = @ \union {Head(b)}] ELSE lost
      /\ face' = IF direct THEN face ELSE [face EXCEPT !.buffer = Tailed(b, n)]
  BY DEF Produces
<1>3. /\ sent \in Seq(Nat) /\ lost \in [full : SUBSET Nat, late : SUBSET Nat]
      /\ \A i, j \in 1 .. m : i < j => sent[i] < sent[j]
      /\ \A i \in 1 .. m : sent[i] <= made - Len(b)
      /\ \A k \in lost.full : k + BufferSize <= made
      /\ 1 .. made = Range(sent) \union Range(b) \union lost.full \union lost.late
  BY <1>1, <1>2 DEF OutInv, Live
<1>4. n \in Nat /\ 1 .. n = (1 .. made) \union {n}
  BY <1>1
<1>5. \A k \in lost.full : k + BufferSize <= n
  <2>1. SUFFICES ASSUME NEW k \in lost.full
                 PROVE  k + BufferSize <= n
    OBVIOUS
  <2>2. k \in Nat /\ k + BufferSize <= made
    BY <1>3
  <2> QED BY <1>1, <2>2
<1>6. CASE direct
  <2>1. b = <<>> /\ Len(b) = 0 /\ DOMAIN b = {} /\ Range(b) = {}
    <3>1. b = <<>>
      BY <1>2, <1>6 DEF FaceInv, BuffersInAHandoff
    <3> QED BY <3>1, EmptySeq DEF Range
  <2>2. sent' = Append(sent, n) /\ lost' = lost /\ face' = face
    BY <1>2, <1>6
  <2>3. /\ sent' \in Seq(Nat) /\ Len(sent') = m + 1
        /\ \A i \in 1 .. m : sent'[i] = sent[i]
        /\ sent'[m + 1] = n
    BY <1>3, <1>4, <2>2, AppendProperties
  <2>4. DOMAIN sent' = 1 .. m + 1
    BY <2>3, LenProperties
  <2>5. Range(sent') = Range(sent) \union {n}
    BY <1>3, <1>4, <2>2, RangeOfAppend
  <2>6. \A i \in 1 .. m : sent[i] < n
    BY <1>1, <1>3, <2>1
  <2>7. ASSUME NEW i \in 1 .. m + 1, NEW j \in 1 .. m + 1, i < j
        PROVE  sent'[i] < sent'[j]
    <3>1. i \in 1 .. m
      BY <1>1, <2>7
    <3>2. CASE j = m + 1
      BY <2>3, <2>6, <3>1, <3>2
    <3>3. CASE j # m + 1
      <4>1. j \in 1 .. m
        BY <1>1, <3>3
      <4>2. sent[i] < sent[j]
        BY <1>3, <2>7, <3>1, <4>1
      <4> QED BY <2>3, <3>1, <4>1, <4>2
    <3> QED BY <3>2, <3>3
  <2>8. ASSUME NEW i \in 1 .. m + 1
        PROVE  sent'[i] <= n - 0
    <3>1. CASE i = m + 1
      BY <1>4, <2>3, <3>1
    <3>2. CASE i # m + 1
      <4>1. i \in 1 .. m
        BY <1>1, <3>2
      <4>2. sent[i] \in Nat /\ sent[i] < n /\ sent'[i] = sent[i]
        BY <1>1, <2>3, <2>6, <4>1
      <4> QED BY <1>4, <4>2
    <3> QED BY <3>1, <3>2
  <2>9. 1 .. n = Range(sent') \union Range(b) \union lost.full \union lost.late
    BY <1>3, <1>4, <2>5
  <2>10. Len(b) <= BufferSize /\ Len(b) <= n
    BY <1>1, <2>1
  <2>11. face'.buffer = b /\ made' = n
    BY <1>2, <2>2
  <2> HIDE DEF b, n, m, direct
  <2> QED BY <1>3, <1>4, <1>5, <2>1, <2>2, <2>3, <2>4, <2>7, <2>8, <2>9, <2>10, <2>11
        DEF OutInv, NewestUpTo
<1>7. CASE ~direct
  <2> DEFINE s == Tailed(b, n)
  <2>1. NewestUpTo(b, n - 1)
    <3>1. n - 1 = made
      BY <1>1
    <3>2. NewestUpTo(b, made)
      BY DEF OutInv
    <3> HIDE DEF n
    <3> QED BY <3>1, <3>2
  <2>2. Len(b) < n
    BY <1>1
  <2> HIDE DEF n, b
  <2>3. /\ s \in Seq(Nat) /\ Len(s) <= BufferSize /\ Len(s) <= Len(b) + 1
        /\ NewestUpTo(s, n)
        /\ Len(b) # BufferSize => Range(s) = Range(b) \union {n}
        /\ Len(b) = BufferSize =>
             /\ Head(b) \in Nat /\ Head(b) + BufferSize <= n
             /\ Range(s) \union {Head(b)} = Range(b) \union {n}
    BY <1>1, <1>4, <2>1, <2>2, TailedKeeps
  <2> HIDE DEF s
  <2>4. face'.buffer = s
    <3>1. face \in Face
      BY DEF FaceInv, FaceTypes
    <3>2. face' = [face EXCEPT !.buffer = s]
      BY <1>2, <1>7 DEF s
    <3> QED BY <2>3, <3>1, <3>2, BufferedFace
  <2>5. sent' = sent
    BY <1>2, <1>7
  <2>6. /\ lost' \in [full : SUBSET Nat, late : SUBSET Nat]
        /\ \A k \in lost'.full : k + BufferSize <= n
        /\ 1 .. n = Range(sent) \union Range(s) \union lost'.full \union lost'.late
    <3>1. CASE Len(b) = BufferSize
      <4>1. lost' = [lost EXCEPT !.full = @ \union {Head(b)}]
        BY <1>2, <1>7, <3>1
      <4>2. /\ lost' \in [full : SUBSET Nat, late : SUBSET Nat]
            /\ lost'.full = lost.full \union {Head(b)} /\ lost'.late = lost.late
        BY <1>3, <2>3, <3>1, <4>1
      <4>3. \A k \in lost'.full : k + BufferSize <= n
        BY <1>5, <2>3, <3>1, <4>2
      <4>4. Range(s) \union {Head(b)} = Range(b) \union {n}
        BY <2>3, <3>1
      <4> QED BY <1>3, <1>4, <4>2, <4>3, <4>4
    <3>2. CASE Len(b) # BufferSize
      <4>1. lost' = lost /\ Range(s) = Range(b) \union {n}
        BY <1>2, <1>7, <2>3, <3>2
      <4> QED BY <1>3, <1>4, <1>5, <4>1
    <3> QED BY <3>1, <3>2
  <2>7. Len(s) \in Nat
    BY <2>3, LenProperties
  <2>8. Len(s) <= n
    <3>1. Len(b) \in Nat
      BY <1>1
    <3>2. Len(b) + 1 <= n
      BY <1>4, <2>2, <3>1
    <3>3. Len(s) <= Len(b) + 1
      BY <2>3
    <3> QED BY <1>4, <2>7, <3>1, <3>2, <3>3
  <2>9. n - Len(s) >= made - Len(b)
    <3>1. Len(s) <= Len(b) + 1 /\ n = made + 1
      BY <2>3 DEF n
    <3> QED BY <1>1, <1>4, <2>7, <3>1
  <2>10. ASSUME NEW i \in 1 .. m
         PROVE  sent[i] <= n - Len(s)
    <3>1. sent[i] \in Nat /\ sent[i] <= made - Len(b)
      BY <1>1, <1>3
    <3> QED BY <1>1, <1>4, <2>7, <2>9, <3>1
  <2>11. made' = n
    BY <1>2
  <2> HIDE DEF m, direct
  <2> QED BY <1>1, <1>3, <1>4, <2>3, <2>4, <2>5, <2>6, <2>8, <2>10, <2>11 DEF OutInv
<1> QED BY <1>6, <1>7
LEMMA OutNext ==
  ASSUME FaceInv, OutInv, [Next]_vars
  PROVE  OutInv'
<1> DEFINE Still == UNCHANGED output /\ face' = face
<1>1. ASSUME Still
      PROVE  OutInv'
  BY <1>1, NothingIsProduced
<1>2. face \in Face
  BY DEF FaceInv, FaceTypes
<1>3. ASSUME Finish
      PROVE  OutInv'
  BY <1>2, <1>3, ClosedFace, ClosedIsEmpty DEF Finish
<1>4. ASSUME NEW w \in Window, Opens(w) \/ TimesOut(w) \/ Leaves(w) \/ Resize(w) \/ Break(w)
      PROVE  OutInv'
  <2>1. Still
    BY <1>4 DEF Opens, TimesOut, Leaves, Resize, Break
  <2> QED BY <1>1, <2>1
<1>5. ASSUME NEW w \in Window, NEW k \in Kind, Answer(w, k)
      PROVE  OutInv'
  <2>1. Still
    BY <1>5 DEF Answer
  <2> QED BY <1>1, <2>1
<1>6. ASSUME NEW w \in Window, Connect(w)
      PROVE  OutInv'
  <2> DEFINE b == sock[w] = "new"
  <2>1. b \in BOOLEAN
    OBVIOUS
  <2>2. /\ face' = [face EXCEPT !.state = "live", !.current = w, !.known = b]
        /\ face.state = "none" /\ UNCHANGED output
    BY <1>6 DEF Connect
  <2> HIDE DEF b
  <2>3. face'.state = "live" /\ face'.buffer = face.buffer
    BY <1>2, <2>1, <2>2, ConnectedFace, ZenonT(40)
  <2> QED BY <2>2, <2>3, NothingIsProduced
<1>7. ASSUME NEW w \in Window, Attach(w)
      PROVE  OutInv'
  <2>1. CASE Live
    <3> DEFINE open == sock[w] = "new"
    <3>1. open \in BOOLEAN
      OBVIOUS
    <3>2. face' = Attached(w) /\ Flush(open)
      BY <1>7, <2>1 DEF Attach
    <3> HIDE DEF open
    <3>3. face'.state = face.state /\ face'.buffer = <<>>
      BY <1>2, <3>2, AttachedFace
    <3> QED BY <3>1, <3>2, <3>3, FlushKeeps
  <2>2. CASE ~Live
    <3>1. Still
      BY <1>7, <2>2 DEF Attach
    <3> QED BY <1>1, <3>1
  <2> QED BY <2>1, <2>2
<1>8. ASSUME NEW w \in Window, Closes(w)
      PROVE  OutInv'
  <2>1. CASE Still
    BY <1>1, <2>1
  <2>2. CASE Finish
    BY <1>3, <2>2
  <2>3. CASE face' = [face EXCEPT !.detached = TRUE, !.timer = TRUE] /\ UNCHANGED output
    <3>1. face'.state = face.state /\ face'.buffer = face.buffer
      BY <1>2, <2>3, DetachedFace
    <3> QED BY <2>3, <3>1, NothingIsProduced
  <2>4. \/ Still \/ Finish
        \/ face' = [face EXCEPT !.detached = TRUE, !.timer = TRUE] /\ UNCHANGED output
    BY <1>8 DEF Closes, HandleClose
  <2> QED BY <2>1, <2>2, <2>3, <2>4
<1>9. ASSUME NEW w \in Window, PrepareTransfer(w)
      PROVE  OutInv'
  <2>1. face' = [face EXCEPT !.buffering = TRUE] /\ UNCHANGED output
    BY <1>9 DEF PrepareTransfer
  <2>2. face'.state = face.state /\ face'.buffer = face.buffer
    BY <1>2, <2>1, BufferingFace
  <2> QED BY <2>1, <2>2, NothingIsProduced
<1>10. ASSUME NEW w \in Window, CancelTransfer(w)
       PROVE  OutInv'
  <2> DEFINE open == Open(Current)
  <2>1. open \in BOOLEAN
    BY DEF Open
  <2>2. face' = [face EXCEPT !.buffering = FALSE, !.buffer = <<>>] /\ Flush(open)
    BY <1>10 DEF CancelTransfer
  <2> HIDE DEF open
  <2>3. face'.state = face.state /\ face'.buffer = <<>>
    BY <1>2, <2>2, FlushedFace
  <2> QED BY <2>1, <2>2, <2>3, FlushKeeps
<1>11. ASSUME GraceExpires
       PROVE  OutInv'
  BY <1>3, <1>11 DEF GraceExpires
<1>12. ASSUME (\E k \in Kind : LoginAsks(k)) \/ VaultAsks \/ LoginSucceeds \/ UNCHANGED vars
       PROVE  OutInv'
  <2>1. Still
    BY <1>12 DEF LoginAsks, VaultAsks, Asks, LoginSucceeds, vars
  <2> QED BY <1>1, <2>1
<1>13. ASSUME LoginFails \/ TransportEnds
       PROVE  OutInv'
  <2>1. End /\ UNCHANGED output
    BY <1>13 DEF LoginFails, TransportEnds
  <2>2. CASE Live
    BY <1>2, <2>1, <2>2, ClosedFace, ClosedIsEmpty DEF End
  <2>3. CASE ~Live
    <3>1. Still
      BY <2>1, <2>3 DEF End
    <3> QED BY <1>1, <3>1
  <2> QED BY <2>2, <2>3
<1>14. ASSUME Produces
       PROVE  OutInv'
  BY <1>14, ProducesKeepsOut
<1> HIDE DEF Still
<1> QED BY <1>4, <1>5, <1>6, <1>7, <1>8, <1>9, <1>10, <1>11, <1>12, <1>13, <1>14
        DEF Next, Login

-----------------------------------------------------------------------------
LEMMA InitInv == Init => TerminalInv
<1> SUFFICES ASSUME Init
             PROVE  TerminalInv
  OBVIOUS
<1>1. PromptInv
  <2>1. asked = <<>> /\ waiters = <<>> /\ kept = NoDialog
    BY DEF Init
  <2>2. /\ asked \in Seq(Prompt) /\ waiters \in Seq(Nat) /\ Len(asked) = 0
        /\ DOMAIN asked = {} /\ DOMAIN waiters = {} /\ Range(waiters) = {}
    BY <2>1, EmptySeq DEF Range
  <2>3. kept \in [Kind -> 0 .. 0]
    BY <2>1 DEF NoDialog
  <2> QED BY <2>2, <2>3 DEF PromptInv, Queue, KeptWasAsked
<1>2. /\ face.state = "none" /\ face.current = NoWindow /\ face.buffer = <<>>
      /\ ~face.detached /\ ~face.timer /\ ~face.buffering
  BY DEF Init
<1>3. FaceInv
  <2>1. <<>> \in Seq(Nat) /\ FALSE \in BOOLEAN
    BY EmptySeq
  <2>2. FaceTypes
    BY <2>1 DEF Init, FaceTypes, Face, Socket
  <2> QED BY <1>2, <2>2, TerminalAssumption DEF Init, FaceInv, ListensToItsWindow,
             LosesItsWindow, NothingBefore, BuffersInAHandoff, OnlyAHandoffFreezes, Live, Current
<1>4. OutInv
  <2>1. made = 0 /\ sent = <<>> /\ lost = [full |-> {}, late |-> {}]
    BY DEF Init
  <2>2. /\ sent \in Seq(Nat) /\ Len(face.buffer) = 0 /\ DOMAIN sent = {}
        /\ DOMAIN face.buffer = {} /\ Range(sent) = {} /\ Range(face.buffer) = {}
    BY <1>2, <2>1, EmptySeq DEF Range
  <2>3. 1 .. made = {} /\ made \in Nat
    BY <2>1
  <2>4. /\ lost \in [full : SUBSET Nat, late : SUBSET Nat]
        /\ lost.full = {} /\ lost.late = {}
    BY <2>1
  <2>5. Len(face.buffer) <= BufferSize /\ Len(face.buffer) <= made
    BY <2>1, <2>2, TerminalAssumption
  <2> QED BY <2>2, <2>3, <2>4, <2>5 DEF OutInv, NewestUpTo
<1> QED BY <1>1, <1>3, <1>4 DEF TerminalInv

LEMMA NextInv ==
  ASSUME TerminalInv, [Next]_vars
  PROVE  TerminalInv'
<1>1. PromptInv /\ FaceInv /\ OutInv /\ made \in Nat
  BY DEF TerminalInv, OutInv
<1> QED BY <1>1, PromptNext, FaceNext, OutNext DEF TerminalInv

THEOREM TerminalInvHolds == Spec => []TerminalInv
<1>1. TerminalInv /\ [Next]_vars => TerminalInv'
  BY NextInv
<1> QED BY <1>1, InitInv, PTL DEF Spec

\* The sequences, sets and records of a terminal session stay well-formed in
\* every state: above all, the waiters of its control channel are exactly the
\* prompts without an answer, oldest first, and the facade listens to no
\* window but its current one (push, close and next, terminal-socket.ts:328-360).
THEOREM TerminalTypesHold == Spec => []TerminalTypeOK
<1>1. TerminalInv => TerminalTypeOK
  <2> SUFFICES ASSUME TerminalInv
               PROVE  TerminalTypeOK
    OBVIOUS
  <2>1. Current \in Window \union {NoWindow} /\ bound \subseteq {Current}
    BY DEF TerminalInv, FaceInv, FaceTypes, Face, ListensToItsWindow, Current
  <2>2. \A i \in DOMAIN asked : asked[i].kind \in Kind /\ asked[i].reply \in Replies
    BY PromptsAreTyped DEF TerminalInv, PromptInv, Prompt
  <2> QED BY <2>1, <2>2 DEF TerminalTypeOK, TerminalInv, PromptInv, Queue, KeptWasAsked,
             FaceInv, FaceTypes, Socket, OutInv
<1> QED BY <1>1, TerminalInvHolds, PTL

\* The windows are sent the output in order, each chunk once, over any number
\* of handoffs, losses and cancelled transfers; while the session lives, a
\* chunk not sent is buffered or was given up for BufferSize newer ones or for
\* a window that had timed out (send, flushTransferBuffer and
\* bufferTransferData, terminal-socket.ts:136-147, 214-238).
THEOREM OutputStaysKept == Spec => []OutputIsKept
<1>1. TerminalInv => OutputIsKept
  <2> SUFFICES ASSUME TerminalInv
               PROVE  OutputIsKept
    OBVIOUS
  <2>1. FaceInv /\ OutInv
    BY DEF TerminalInv
  <2>2. \A i \in 1 .. Len(sent) - 1 : sent[i] < sent[i + 1]
    <3>1. SUFFICES ASSUME NEW i \in 1 .. Len(sent) - 1
                   PROVE  sent[i] < sent[i + 1]
      OBVIOUS
    <3>2. Len(sent) \in Nat /\ DOMAIN sent = 1 .. Len(sent)
      BY <2>1, BufferFacts
    <3>3. i \in DOMAIN sent /\ i + 1 \in DOMAIN sent /\ i < i + 1
      BY <3>2
    <3> QED BY <2>1, <3>3 DEF OutInv
  <2>3. face.buffer # <<>> => Last(face.buffer) = made
    <3>1. SUFFICES ASSUME face.buffer # <<>>
                   PROVE  Last(face.buffer) = made
      OBVIOUS
    <3>2. Len(face.buffer) \in Nat \ {0} /\ DOMAIN face.buffer = 1 .. Len(face.buffer)
      BY <2>1, <3>1, BufferFacts, EmptySeq
    <3>3. Len(face.buffer) \in DOMAIN face.buffer
      BY <3>2
    <3>4. face.buffer[Len(face.buffer)] = made - Len(face.buffer) + Len(face.buffer)
      BY <2>1, <3>3 DEF OutInv, NewestUpTo
    <3>5. made \in Nat
      BY <2>1 DEF OutInv
    <3> QED BY <3>2, <3>4, <3>5 DEF Last
  <2> QED BY <2>1, <2>2, <2>3 DEF OutputIsKept, OutInv, Live
<1> QED BY <1>1, TerminalInvHolds, PTL

\* A window that shows the session is sent its output at once but in a handoff
\* it asked for itself, and the grace timer runs exactly while the session's
\* window is gone (attach, handleMessage and handleClose,
\* terminal-socket.ts:95-117, 165-202).
THEOREM WindowStaysServed == Spec => []WindowIsServed
<1>1. TerminalInv => WindowIsServed
  BY DEF TerminalInv, FaceInv, LosesItsWindow, WindowIsServed, GraceRuns
<1> QED BY <1>1, TerminalInvHolds, PTL
-----------------------------------------------------------------------------
(* The paste queue (PastePacer) *)

Controllers == {"none", "live", "aborted"}
PacerState ==
  [queue : Seq(Paste), controller : Controllers, closed : BOOLEAN, sent : Nat,
   total : Int, linesDone : Nat, lines : Int, reported : BOOLEAN]
RunState ==
  [at : {"idle", "write", "wait", "end"}, paste : Paste \union {NoPaste}, step : Nat,
   bracketOpen : BOOLEAN, answering : BOOLEAN]
Marks == [kind : {"start", "step", "end"}, paste : Paste, step : Nat]

LineEnd(p, i) == IF Text[p].steps[i].lineEnd THEN 1 ELSE 0
LastIsOpen(p) == IF Text[p].steps[Length(p)].lineEnd THEN 0 ELSE 1

\* The lines of p from step i on.
LinesFrom(p, i) ==
  Cardinality({k \in i .. Length(p) : Text[p].steps[k].lineEnd}) + LastIsOpen(p)

\* The locals of a run that goes on.
RunOK(r) ==
  /\ r \in RunState
  /\ r.at = "idle" => r = Idle
  /\ r.at # "idle" => r.paste \in Paste /\ r.step \in 1 .. Length(r.paste)
  /\ r.at \in {"write", "wait"} =>
       (r.bracketOpen <=> Text[r.paste].bracketed /\ r.step < Length(r.paste))
  /\ r.at = "end" => ~r.bracketOpen
  /\ r.answering => r.at # "idle" /\ Text[r.paste].prompt

\* What is still to be sent of the paste of a run, and how many lines of it.
StepsLeft(r) ==
  CASE r.at = "write" -> Length(r.paste) - r.step + 1
    [] r.at = "wait"  -> Length(r.paste) - r.step
    [] OTHER          -> 0

LinesLeft(r) ==
  CASE r.at = "write" -> LinesFrom(r.paste, r.step)
    [] r.at = "wait"  -> LinesFrom(r.paste, r.step + 1)
    [] OTHER          -> 0

\* The pacer adds up while its run is at r; of one that winds down only the lines
\* still matter.
AddsUp(c, r) ==
  /\ c.total = c.sent + Total(c.queue) + StepsLeft(r)
  /\ c.linesDone + TotalLines(c.queue) + LinesLeft(r) <= c.lines

LinesFit(c, r) ==
  /\ c.linesDone <= c.lines
  /\ r.at = "write" => c.linesDone + LineEnd(r.paste, r.step) <= c.lines

\* The pacer and its run agree.
CountsOK(c, r) ==
  /\ c \in PacerState /\ RunOK(r)
  /\ c.controller = "none" <=> r.at = "idle"
  /\ r.at = "end" => c.controller = "aborted"
  /\ c.controller = "none" => c.queue = <<>>
  /\ c.closed => c.queue = <<>> /\ c.controller # "live"
  /\ c.controller # "aborted" => AddsUp(c, r)
  /\ LinesFit(c, r)

(* Pastes and their sums *)

LEMMA TextFacts ==
  ASSUME NEW p \in Paste
  PROVE  /\ Text[p].steps \in Seq(Step) /\ Length(p) \in Nat /\ Length(p) >= 1
         /\ \A i \in 1 .. Length(p) : Text[p].steps[i].lineEnd \in BOOLEAN
         /\ Text[p].bracketed \in BOOLEAN /\ Text[p].prompt \in BOOLEAN
         /\ Text[p].bracketed => ~Text[p].prompt
         /\ p # NoPaste
<1>1. Text[p].steps \in Seq(Step) /\ Text[p].steps # <<>>
  BY TextAssumption
<1>2. Length(p) \in Nat /\ Length(p) # 0
  BY <1>1, LenProperties, EmptySeq DEF Length
<1>3. \A i \in 1 .. Length(p) : Text[p].steps[i] \in Step
  BY <1>1, ElementOfSeq DEF Length
<1> QED BY <1>1, <1>2, <1>3, TextAssumption DEF Step

LEMMA LinesFromFacts ==
  ASSUME NEW p \in Paste, NEW i \in 1 .. Length(p) + 1
  PROVE  /\ LinesFrom(p, i) \in Nat
         /\ i <= Length(p) => LinesFrom(p, i) = LineEnd(p, i) + LinesFrom(p, i + 1)
<1>0. Length(p) \in Nat
  BY TextFacts
<1> DEFINE Ends(n) == {k \in n .. Length(p) : Text[p].steps[k].lineEnd}
<1>1. \A n \in 1 .. Length(p) + 2 : IsFiniteSet(Ends(n)) /\ Cardinality(Ends(n)) \in Nat
  <2>1. ASSUME NEW n \in 1 .. Length(p) + 2
        PROVE  IsFiniteSet(Ends(n)) /\ Cardinality(Ends(n)) \in Nat
    <3>1. n \in Int /\ Length(p) \in Int
      BY <1>0
    <3>2. IsFiniteSet(n .. Length(p))
      BY <3>1, FS_Interval
    <3>3. IsFiniteSet(Ends(n))
      BY <3>2, FS_Subset
    <3> QED BY <3>3, FS_CardinalityType
  <2> QED BY <2>1
<1>2. LinesFrom(p, i) = Cardinality(Ends(i)) + LastIsOpen(p) /\ LastIsOpen(p) \in Nat
  BY DEF LinesFrom, LastIsOpen
<1>3. LinesFrom(p, i + 1) = Cardinality(Ends(i + 1)) + LastIsOpen(p)
  BY DEF LinesFrom
<1>4. ASSUME i <= Length(p)
      PROVE  Cardinality(Ends(i)) = LineEnd(p, i) + Cardinality(Ends(i + 1))
  <2>1. i \in 1 .. Length(p) + 2 /\ i + 1 \in 1 .. Length(p) + 2
    BY <1>0, <1>4
  <2>2. IsFiniteSet(Ends(i + 1)) /\ Cardinality(Ends(i + 1)) \in Nat
    BY <1>1, <2>1
  <2>3. CASE Text[p].steps[i].lineEnd
    <3>1. Ends(i) = Ends(i + 1) \union {i} /\ i \notin Ends(i + 1)
      BY <1>0, <1>4, <2>3
    <3>2. Cardinality(Ends(i)) = Cardinality(Ends(i + 1)) + 1
      <4> HIDE DEF Ends
      <4> QED BY <2>2, <3>1, FS_AddElement
    <3> QED BY <2>2, <2>3, <3>2 DEF LineEnd
  <2>4. CASE ~Text[p].steps[i].lineEnd
    <3>1. Ends(i) = Ends(i + 1)
      BY <1>0, <1>4, <2>4
    <3>2. LineEnd(p, i) = 0
      BY <2>4 DEF LineEnd
    <3> HIDE DEF Ends
    <3> QED BY <2>2, <3>1, <3>2
  <2> QED BY <2>3, <2>4
<1> HIDE DEF Ends
<1>5. Cardinality(Ends(i)) \in Nat
  <2>1. i \in 1 .. Length(p) + 2
    BY <1>0
  <2> QED BY <1>1, <2>1
<1>6. i <= Length(p) => Cardinality(Ends(i + 1)) \in Nat
  <2>1. i <= Length(p) => i + 1 \in 1 .. Length(p) + 2
    BY <1>0
  <2> QED BY <1>1, <2>1
<1>7. LinesFrom(p, i) \in Nat
  BY <1>2, <1>5
<1>8. i <= Length(p) => LinesFrom(p, i) = LineEnd(p, i) + LinesFrom(p, i + 1)
  BY <1>2, <1>3, <1>4, <1>5, <1>6 DEF LineEnd
<1> QED BY <1>7, <1>8

LEMMA LinesFacts ==
  ASSUME NEW p \in Paste
  PROVE  Lines(p) = LinesFrom(p, 1) /\ Lines(p) \in Nat
<1>1. Lines(p) = LinesFrom(p, 1)
  BY DEF Lines, LinesFrom, LastIsOpen
<1>2. 1 \in 1 .. Length(p) + 1
  BY TextFacts
<1> QED BY <1>1, <1>2, LinesFromFacts

\* The totals of a queue, and of one that is longer at either end.
LEMMA TotalFacts ==
  ASSUME NEW q \in Seq(Paste)
  PROVE  /\ Total(q) \in Nat /\ TotalLines(q) \in Nat
         /\ q = <<>> => Total(q) = 0 /\ TotalLines(q) = 0
<1> DEFINE s == [i \in 1 .. Len(q) |-> Length(q[i])]
           t == [i \in 1 .. Len(q) |-> Lines(q[i])]
<1>0. Len(q) \in Nat /\ \A i \in 1 .. Len(q) : q[i] \in Paste
  BY LenProperties, ElementOfSeq
<1>1. \A i \in 1 .. Len(q) : s[i] \in Nat /\ t[i] \in Nat
  BY <1>0, TextFacts, LinesFacts
<1>2. s \in Seq(Int) /\ t \in Seq(Int) /\ Len(s) = Len(q) /\ Len(t) = Len(q)
  BY <1>0, <1>1
<1>3. Total(q) = SumOf(s) /\ TotalLines(q) = SumOf(t)
  BY DEF Total, TotalLines
<1> HIDE DEF s, t
<1>4. SumOf(s) \in Nat /\ SumOf(t) \in Nat
  BY <1>1, <1>2, SumIsNat
<1>5. q = <<>> => Len(q) = 0
  OBVIOUS
<1>6. q = <<>> => SumOf(s) = 0 /\ SumOf(t) = 0
  BY <1>2, <1>5, SumOfNone
<1> QED BY <1>3, <1>4, <1>6

LEMMA TotalOfLonger ==
  ASSUME NEW q \in Seq(Paste), NEW p \in Paste
  PROVE  /\ Total(Append(q, p)) = Total(q) + Length(p)
         /\ TotalLines(Append(q, p)) = TotalLines(q) + Lines(p)
<1> DEFINE r == Append(q, p)
           s(u) == [i \in 1 .. Len(u) |-> Length(u[i])]
           t(u) == [i \in 1 .. Len(u) |-> Lines(u[i])]
<1>1. /\ Len(q) \in Nat /\ r \in Seq(Paste) /\ Len(r) = Len(q) + 1
      /\ r[Len(r)] = p /\ \A i \in 1 .. Len(q) : r[i] = q[i]
  OBVIOUS
<1> HIDE DEF r
<1>2. ASSUME NEW u \in Seq(Paste)
      PROVE  /\ s(u) \in Seq(Int) /\ t(u) \in Seq(Int) /\ Len(s(u)) = Len(u) /\ Len(t(u)) = Len(u)
             /\ \A i \in 1 .. Len(u) : s(u)[i] = Length(u[i]) /\ t(u)[i] = Lines(u[i])
             /\ Total(u) = SumOf(s(u)) /\ TotalLines(u) = SumOf(t(u))
  <2>1. Len(u) \in Nat /\ \A i \in 1 .. Len(u) : u[i] \in Paste
    BY LenProperties, ElementOfSeq
  <2>2. \A i \in 1 .. Len(u) : Length(u[i]) \in Int /\ Lines(u[i]) \in Int
    BY <2>1, TextFacts, LinesFacts
  <2> QED BY <2>1, <2>2 DEF Total, TotalLines
<1> HIDE DEF s, t
<1>3. /\ s(r) \in Seq(Int) /\ t(r) \in Seq(Int) /\ Len(s(r)) = Len(r) /\ Len(t(r)) = Len(r)
      /\ \A i \in 1 .. Len(r) : s(r)[i] = Length(r[i]) /\ t(r)[i] = Lines(r[i])
      /\ Total(r) = SumOf(s(r)) /\ TotalLines(r) = SumOf(t(r))
  BY <1>1, <1>2
<1>4. /\ s(q) \in Seq(Int) /\ t(q) \in Seq(Int) /\ Len(s(q)) = Len(q) /\ Len(t(q)) = Len(q)
      /\ \A i \in 1 .. Len(q) : s(q)[i] = Length(q[i]) /\ t(q)[i] = Lines(q[i])
      /\ Total(q) = SumOf(s(q)) /\ TotalLines(q) = SumOf(t(q))
  BY <1>2
<1>5. \A i \in 1 .. Len(q) : s(r)[i] = s(q)[i] /\ t(r)[i] = t(q)[i]
  <2>1. SUFFICES ASSUME NEW i \in 1 .. Len(q)
                 PROVE  s(r)[i] = s(q)[i] /\ t(r)[i] = t(q)[i]
    OBVIOUS
  <2>2. i \in 1 .. Len(r)
    BY <1>1
  <2> QED BY <1>1, <1>3, <1>4, <2>2
<1>6. SumOf(s(r)) = SumOf(s(q)) + s(r)[Len(s(r))]
  <2>1. Len(s(r)) = Len(s(q)) + 1 /\ \A i \in 1 .. Len(s(q)) : s(r)[i] = s(q)[i]
    BY <1>1, <1>3, <1>4, <1>5
  <2> QED BY <1>3, <1>4, <2>1, SumGrows
<1>7. SumOf(t(r)) = SumOf(t(q)) + t(r)[Len(t(r))]
  <2>1. Len(t(r)) = Len(t(q)) + 1 /\ \A i \in 1 .. Len(t(q)) : t(r)[i] = t(q)[i]
    BY <1>1, <1>3, <1>4, <1>5
  <2> QED BY <1>3, <1>4, <2>1, SumGrows
<1>8. Len(r) \in 1 .. Len(r)
  BY <1>1
<1>9. s(r)[Len(s(r))] = Length(p) /\ t(r)[Len(t(r))] = Lines(p)
  BY <1>1, <1>3, <1>8
<1>10. Total(r) = Total(q) + Length(p) /\ TotalLines(r) = TotalLines(q) + Lines(p)
  BY <1>3, <1>4, <1>6, <1>7, <1>9
<1> QED BY <1>10 DEF r

LEMMA TotalOfTail ==
  ASSUME NEW q \in Seq(Paste), q # <<>>
  PROVE  /\ Total(q) = Length(Head(q)) + Total(Tail(q))
         /\ TotalLines(q) = Lines(Head(q)) + TotalLines(Tail(q))
<1> DEFINE r == Tail(q)
           s(u) == [i \in 1 .. Len(u) |-> Length(u[i])]
           t(u) == [i \in 1 .. Len(u) |-> Lines(u[i])]
<1>1. /\ Len(q) \in Nat /\ Len(q) # 0 /\ r \in Seq(Paste) /\ Len(q) = Len(r) + 1
      /\ q[1] = Head(q) /\ \A i \in 1 .. Len(r) : r[i] = q[i + 1]
  OBVIOUS
<1> HIDE DEF r
<1>2. ASSUME NEW u \in Seq(Paste)
      PROVE  /\ s(u) \in Seq(Int) /\ t(u) \in Seq(Int) /\ Len(s(u)) = Len(u) /\ Len(t(u)) = Len(u)
             /\ \A i \in 1 .. Len(u) : s(u)[i] = Length(u[i]) /\ t(u)[i] = Lines(u[i])
             /\ Total(u) = SumOf(s(u)) /\ TotalLines(u) = SumOf(t(u))
  <2>1. Len(u) \in Nat /\ \A i \in 1 .. Len(u) : u[i] \in Paste
    BY LenProperties, ElementOfSeq
  <2>2. \A i \in 1 .. Len(u) : Length(u[i]) \in Int /\ Lines(u[i]) \in Int
    BY <2>1, TextFacts, LinesFacts
  <2> QED BY <2>1, <2>2 DEF Total, TotalLines
<1> HIDE DEF s, t
<1>3. /\ s(r) \in Seq(Int) /\ t(r) \in Seq(Int) /\ Len(s(r)) = Len(r) /\ Len(t(r)) = Len(r)
      /\ \A i \in 1 .. Len(r) : s(r)[i] = Length(r[i]) /\ t(r)[i] = Lines(r[i])
      /\ Total(r) = SumOf(s(r)) /\ TotalLines(r) = SumOf(t(r))
  BY <1>1, <1>2
<1>4. /\ s(q) \in Seq(Int) /\ t(q) \in Seq(Int) /\ Len(s(q)) = Len(q) /\ Len(t(q)) = Len(q)
      /\ \A i \in 1 .. Len(q) : s(q)[i] = Length(q[i]) /\ t(q)[i] = Lines(q[i])
      /\ Total(q) = SumOf(s(q)) /\ TotalLines(q) = SumOf(t(q))
  BY <1>2
<1>5. \A i \in 1 .. Len(r) : s(r)[i] = s(q)[i + 1] /\ t(r)[i] = t(q)[i + 1]
  <2>1. SUFFICES ASSUME NEW i \in 1 .. Len(r)
                 PROVE  s(r)[i] = s(q)[i + 1] /\ t(r)[i] = t(q)[i + 1]
    OBVIOUS
  <2>2. i + 1 \in 1 .. Len(q)
    BY <1>1
  <2> QED BY <1>1, <1>3, <1>4, <2>2
<1>6. SumOf(s(q)) = s(q)[1] + SumOf(s(r))
  <2>1. Len(s(q)) = Len(s(r)) + 1 /\ \A i \in 1 .. Len(s(r)) : s(r)[i] = s(q)[i + 1]
    BY <1>1, <1>3, <1>4, <1>5
  <2> QED BY <1>3, <1>4, <2>1, SumOfRest
<1>7. SumOf(t(q)) = t(q)[1] + SumOf(t(r))
  <2>1. Len(t(q)) = Len(t(r)) + 1 /\ \A i \in 1 .. Len(t(r)) : t(r)[i] = t(q)[i + 1]
    BY <1>1, <1>3, <1>4, <1>5
  <2> QED BY <1>3, <1>4, <2>1, SumOfRest
<1>8. 1 \in 1 .. Len(q)
  BY <1>1
<1>9. s(q)[1] = Length(q[1]) /\ t(q)[1] = Lines(q[1])
  BY <1>4, <1>8
<1>10. Total(q) = Length(q[1]) + Total(r) /\ TotalLines(q) = Lines(q[1]) + TotalLines(r)
  BY <1>3, <1>4, <1>6, <1>7, <1>9
<1> QED BY <1>1, <1>10 DEF r

(* The counts *)

Ready(c) ==
  /\ c \in PacerState /\ c.queue # <<>> /\ ~c.closed
  /\ c.total = c.sent + Total(c.queue)
  /\ c.linesDone + TotalLines(c.queue) <= c.lines

\* One step of r.paste has just ended.
Midway(c, r) ==
  /\ c \in PacerState /\ RunOK(r) /\ r.at \in {"write", "wait"} /\ c.controller # "none"
  /\ c.closed => c.queue = <<>> /\ c.controller # "live"
  /\ c.linesDone <= c.lines
  /\ c.controller # "aborted" =>
       /\ c.total = c.sent + Total(c.queue) + (Length(r.paste) - r.step)
       /\ c.linesDone + TotalLines(c.queue) + LinesFrom(r.paste, r.step + 1) <= c.lines

LEMMA PacerFields ==
  ASSUME NEW c \in PacerState
  PROVE  /\ c.queue \in Seq(Paste) /\ c.controller \in Controllers /\ c.closed \in BOOLEAN
         /\ c.sent \in Nat /\ c.total \in Int /\ c.linesDone \in Nat /\ c.lines \in Int
         /\ c.reported \in BOOLEAN
         /\ Total(c.queue) \in Nat /\ TotalLines(c.queue) \in Nat
         /\ c.queue = <<>> => Total(c.queue) = 0 /\ TotalLines(c.queue) = 0
<1>1. c.queue \in Seq(Paste)
  BY DEF PacerState
<1> QED BY <1>1, TotalFacts DEF PacerState

LEMMA RecountedCounts ==
  ASSUME NEW c \in PacerState, c.closed => c.queue = <<>>
  PROVE  /\ Recounted(c) \in PacerState
         /\ Recounted(c).queue = c.queue /\ Recounted(c).closed = c.closed
         /\ Recounted(c).controller = "none"
         /\ c.queue # <<>> => Ready(Recounted(c))
         /\ c.queue = <<>> => CountsOK(Recounted(c), Idle)
<1>0. "none" \in Controllers /\ FALSE \in BOOLEAN /\ 0 \in Nat
  BY DEF Controllers
<1>1. /\ c.queue \in Seq(Paste) /\ c.closed \in BOOLEAN
      /\ Total(c.queue) \in Nat /\ TotalLines(c.queue) \in Nat
      /\ c.queue = <<>> => Total(c.queue) = 0 /\ TotalLines(c.queue) = 0
  BY PacerFields
<1>2. PICK d : d = Recounted(c)
  OBVIOUS
<1>3. /\ d.queue = c.queue /\ d.closed = c.closed /\ d.controller = "none" /\ d.sent = 0
      /\ d.linesDone = 0 /\ ~d.reported /\ d.total = Total(c.queue)
      /\ d.lines = TotalLines(c.queue)
  BY <1>2 DEF Recounted, PacerState
<1>4. d \in PacerState
  <2>1. Total(c.queue) \in Int /\ TotalLines(c.queue) \in Int
    BY <1>1
  <2>2. d = [c EXCEPT !.controller = "none", !.sent = 0, !.linesDone = 0, !.reported = FALSE,
                      !.total = Total(c.queue), !.lines = TotalLines(c.queue)]
    BY <1>2 DEF Recounted
  <2> QED BY <1>0, <2>1, <2>2 DEF PacerState
<1>5. ASSUME c.queue # <<>>
      PROVE  Ready(d)
  BY <1>1, <1>3, <1>4, <1>5 DEF Ready
<1>6. ASSUME c.queue = <<>>
      PROVE  CountsOK(d, Idle)
  <2>1. RunOK(Idle)
    BY DEF RunOK, RunState, Idle
  <2>2. Idle.at = "idle"
    BY DEF Idle
  <2>3. StepsLeft(Idle) = 0 /\ LinesLeft(Idle) = 0
    BY <2>2 DEF StepsLeft, LinesLeft
  <2>4. Total(d.queue) = 0 /\ TotalLines(d.queue) = 0
    BY <1>1, <1>3, <1>6
  <2>5. AddsUp(d, Idle) /\ LinesFit(d, Idle)
    BY <1>1, <1>3, <1>6, <2>2, <2>3, <2>4 DEF AddsUp, LinesFit
  <2> QED BY <1>3, <1>4, <1>6, <2>1, <2>2, <2>5 DEF CountsOK
<1> QED BY <1>2, <1>3, <1>4, <1>5, <1>6

\* The first write of a step, by a run that goes on or starts.
LEMMA WriteCounts ==
  ASSUME NEW c \in PacerState, NEW r \in RunState, NEW p \in Paste, NEW i \in 1 .. Length(p),
         c.controller = "live", ~c.closed, WriteStep(c, r, p, i),
         r.answering => Text[p].prompt,
         c.total = c.sent + Total(c.queue) + (Length(p) - i + 1),
         c.linesDone + TotalLines(c.queue) + LinesFrom(p, i) <= c.lines
  PROVE  CountsOK(pacer', run')
<1>1. /\ Length(p) \in Nat /\ Text[p].bracketed \in BOOLEAN
      /\ i \in 1 .. Length(p) + 1
  BY TextFacts
<1>2. /\ LinesFrom(p, i) \in Nat
      /\ LinesFrom(p, i) = LineEnd(p, i) + LinesFrom(p, i + 1)
  BY <1>1, LinesFromFacts
<1>3. LinesFrom(p, i + 1) \in Nat
  <2>1. i + 1 \in 1 .. Length(p) + 1
    BY <1>1
  <2> QED BY <2>1, LinesFromFacts
<1>4. LineEnd(p, i) \in Nat
  BY DEF LineEnd
<1>5. /\ c.sent \in Nat /\ c.total \in Int /\ c.linesDone \in Nat /\ c.lines \in Int
      /\ Total(c.queue) \in Nat /\ TotalLines(c.queue) \in Nat
  BY PacerFields
<1>6. PICK s : s = [r EXCEPT !.at = "write", !.paste = p, !.step = i,
                             !.bracketOpen = Text[p].bracketed /\ i < Length(p)]
  OBVIOUS
<1>7. pacer' = c /\ run' = s
  BY <1>6 DEF WriteStep
<1>8. /\ s.at = "write" /\ s.paste = p /\ s.step = i /\ s.answering = r.answering
      /\ s.bracketOpen <=> Text[p].bracketed /\ i < Length(p)
  BY <1>6 DEF RunState
<1>9. s \in RunState
  <2>1. "write" \in {"idle", "write", "wait", "end"} /\ p \in Paste \union {NoPaste} /\ i \in Nat
        /\ (Text[p].bracketed /\ i < Length(p)) \in BOOLEAN
    BY <1>1
  <2> QED BY <1>6, <2>1 DEF RunState
<1>10. RunOK(s)
  BY <1>8, <1>9 DEF RunOK
<1>11. StepsLeft(s) = Length(p) - i + 1 /\ LinesLeft(s) = LinesFrom(p, i)
  BY <1>8 DEF StepsLeft, LinesLeft
<1>12. AddsUp(c, s)
  BY <1>11 DEF AddsUp
<1>13. LinesFit(c, s)
  <2>1. c.linesDone <= c.lines /\ c.linesDone + LineEnd(p, i) <= c.lines
    BY <1>2, <1>3, <1>4, <1>5
  <2> QED BY <1>8, <2>1 DEF LinesFit
<1> QED BY <1>7, <1>8, <1>10, <1>12, <1>13 DEF CountsOK

LEMMA NextPasteCounts ==
  ASSUME NEW c, Ready(c), NEW said, NextPaste(c, said)
  PROVE  CountsOK(pacer', run')
<1> DEFINE p == Head(c.queue)
<1>0. /\ c \in PacerState /\ c.queue # <<>> /\ ~c.closed
      /\ c.total = c.sent + Total(c.queue)
      /\ c.linesDone + TotalLines(c.queue) <= c.lines
  BY DEF Ready
<1>1. /\ c.queue \in Seq(Paste) /\ c.sent \in Nat /\ c.linesDone \in Nat
      /\ c.total \in Int /\ c.lines \in Int
  BY <1>0, PacerFields
<1>2. p \in Paste /\ Tail(c.queue) \in Seq(Paste)
  BY <1>0, <1>1
<1>3. /\ Length(p) \in Nat /\ Length(p) >= 1 /\ Lines(p) = LinesFrom(p, 1) /\ Lines(p) \in Nat
  BY <1>2, TextFacts, LinesFacts
<1>4. /\ Total(c.queue) = Length(p) + Total(Tail(c.queue))
      /\ TotalLines(c.queue) = Lines(p) + TotalLines(Tail(c.queue))
      /\ Total(Tail(c.queue)) \in Nat /\ TotalLines(Tail(c.queue)) \in Nat
  BY <1>0, <1>1, <1>2, TotalOfTail, TotalFacts
<1>5. CASE Text[p].compiles
  <2>1. PICK d : d = [c EXCEPT !.queue = Tail(@), !.controller = "live"]
    OBVIOUS
  <2>2. WriteStep(d, Idle, p, 1)
    BY <1>5, <2>1 DEF NextPaste
  <2>3. /\ d.queue = Tail(c.queue) /\ d.controller = "live" /\ d.closed = c.closed
        /\ d.sent = c.sent /\ d.total = c.total /\ d.linesDone = c.linesDone
        /\ d.lines = c.lines
    BY <1>0, <2>1 DEF PacerState
  <2>4. d \in PacerState
    <3>1. "live" \in Controllers
      BY DEF Controllers
    <3> QED BY <1>0, <1>2, <2>1, <3>1 DEF PacerState
  <2>5. Idle \in RunState /\ ~Idle.answering
    BY DEF Idle, RunState
  <2>6. 1 \in 1 .. Length(p)
    BY <1>3
  <2>7. d.total = d.sent + Total(d.queue) + (Length(p) - 1 + 1)
    BY <1>0, <1>1, <1>3, <1>4, <2>3
  <2>8. d.linesDone + TotalLines(d.queue) + LinesFrom(p, 1) <= d.lines
    BY <1>0, <1>1, <1>3, <1>4, <2>3
  <2> HIDE DEF p
  <2> QED BY <1>0, <1>2, <2>2, <2>3, <2>4, <2>5, <2>6, <2>7, <2>8, WriteCounts
<1>6. CASE ~Text[p].compiles
  <2>1. PICK d : d = [c EXCEPT !.queue = <<>>]
    OBVIOUS
  <2>2. pacer' = Recounted(d) /\ run' = Idle
    BY <1>6, <2>1 DEF NextPaste
  <2>3. d \in PacerState /\ d.queue = <<>>
    <3>1. <<>> \in Seq(Paste)
      OBVIOUS
    <3> QED BY <1>0, <2>1, <3>1 DEF PacerState
  <2> QED BY <2>2, <2>3, RecountedCounts
<1> QED BY <1>5, <1>6

LEMMA WrapCounts ==
  ASSUME NEW c \in PacerState, c.closed => c.queue = <<>>, NEW state, Wrap(c, state)
  PROVE  CountsOK(pacer', run')
<1>1. CASE c.closed \/ c.queue = <<>>
  <2>1. c.queue = <<>> /\ pacer' = Recounted(c) /\ run' = Idle
    BY <1>1 DEF Wrap, RunEnds
  <2> QED BY <2>1, RecountedCounts
<1>2. CASE ~(c.closed \/ c.queue = <<>>)
  <2>1. NextPaste(Recounted(c), Report(c, state))
    BY <1>2 DEF Wrap
  <2>2. Ready(Recounted(c))
    BY <1>2, RecountedCounts
  <2> QED BY <2>1, <2>2, NextPasteCounts
<1> QED BY <1>1, <1>2

LEMMA FinishCounts ==
  ASSUME NEW c, NEW r, Midway(c, r), c.controller = "aborted", FinishRun(c, r)
  PROVE  CountsOK(pacer', run')
<1>0. /\ c \in PacerState /\ RunOK(r) /\ r.at \in {"write", "wait"}
      /\ c.closed => c.queue = <<>>
      /\ c.linesDone <= c.lines
  BY DEF Midway
<1>1. CASE r.bracketOpen /\ ~c.closed
  <2>1. PICK s : s = [r EXCEPT !.at = "end", !.bracketOpen = FALSE]
    OBVIOUS
  <2>2. pacer' = c /\ run' = s
    BY <1>1, <2>1 DEF FinishRun, CloseBracket
  <2>3. r \in RunState
    BY <1>0 DEF RunOK
  <2>4. /\ s.at = "end" /\ ~s.bracketOpen /\ s.paste = r.paste /\ s.step = r.step
        /\ s.answering = r.answering
    BY <2>1, <2>3 DEF RunState
  <2>5. s \in RunState
    <3>1. "end" \in {"idle", "write", "wait", "end"} /\ FALSE \in BOOLEAN
      OBVIOUS
    <3> QED BY <2>1, <2>3, <3>1 DEF RunState
  <2>6. /\ r.paste \in Paste /\ r.step \in 1 .. Length(r.paste)
        /\ r.answering => Text[r.paste].prompt
    BY <1>0 DEF RunOK
  <2>7. RunOK(s)
    BY <2>4, <2>5, <2>6 DEF RunOK
  <2>8. LinesFit(c, s)
    BY <1>0, <2>4 DEF LinesFit
  <2> QED BY <1>0, <1>1, <2>2, <2>4, <2>7, <2>8 DEF CountsOK
<1>2. CASE ~(r.bracketOpen /\ ~c.closed)
  <2>1. Wrap(c, "cancelled")
    BY <1>2 DEF FinishRun
  <2> QED BY <1>0, <2>1, WrapCounts
<1> QED BY <1>1, <1>2

\* After the last step of a paste that was not cancelled, the next may be taken.
LEMMA MidwayIsReady ==
  ASSUME NEW c, NEW r, Midway(c, r), c.controller # "aborted", ~(r.step < Length(r.paste)),
         c.queue # <<>>
  PROVE  Ready(c)
<1>0. /\ c \in PacerState /\ RunOK(r) /\ r.at \in {"write", "wait"} /\ c.controller # "none"
      /\ c.closed => c.controller # "live"
      /\ c.total = c.sent + Total(c.queue) + (Length(r.paste) - r.step)
      /\ c.linesDone + TotalLines(c.queue) + LinesFrom(r.paste, r.step + 1) <= c.lines
  BY DEF Midway
<1>1. r.paste \in Paste /\ r.step \in 1 .. Length(r.paste)
  BY <1>0 DEF RunOK
<1>2. Length(r.paste) \in Nat
  BY <1>1, TextFacts
<1>3. ~c.closed
  BY <1>0 DEF PacerState, Controllers
<1>4. Length(r.paste) - r.step = 0 /\ r.step + 1 \in 1 .. Length(r.paste) + 1
  BY <1>1, <1>2
<1>5. LinesFrom(r.paste, r.step + 1) \in Nat
  BY <1>1, <1>4, LinesFromFacts
<1>6. /\ Total(c.queue) \in Nat /\ c.sent \in Nat /\ TotalLines(c.queue) \in Nat
      /\ c.linesDone \in Nat /\ c.lines \in Int
  BY <1>0, PacerFields
<1>7. c.total = c.sent + Total(c.queue)
  BY <1>0, <1>4, <1>6
<1>8. c.linesDone + TotalLines(c.queue) <= c.lines
  BY <1>0, <1>5, <1>6
<1> QED BY <1>0, <1>3, <1>7, <1>8 DEF Ready

LEMMA AdvanceCounts ==
  ASSUME NEW c, NEW r, Midway(c, r), Advance(c, r)
  PROVE  CountsOK(pacer', run')
<1>0. /\ c \in PacerState /\ RunOK(r) /\ r.at \in {"write", "wait"} /\ c.controller # "none"
      /\ c.closed => c.queue = <<>> /\ c.controller # "live"
      /\ c.controller # "aborted" =>
           /\ c.total = c.sent + Total(c.queue) + (Length(r.paste) - r.step)
           /\ c.linesDone + TotalLines(c.queue) + LinesFrom(r.paste, r.step + 1) <= c.lines
  BY DEF Midway
<1>1. /\ r \in RunState /\ r.paste \in Paste /\ r.step \in 1 .. Length(r.paste)
      /\ r.answering => Text[r.paste].prompt
  BY <1>0 DEF RunOK
<1>2. Length(r.paste) \in Nat
  BY <1>1, TextFacts
<1>3. CASE c.controller = "aborted"
  BY <1>3, FinishCounts DEF Advance
<1>4. CASE c.controller # "aborted"
  <2>0. c.controller = "live" /\ ~c.closed
    BY <1>0, <1>4 DEF PacerState, Controllers
  <2>1. CASE r.step < Length(r.paste)
    <3>1. WriteStep(c, r, r.paste, r.step + 1)
      BY <1>4, <2>1 DEF Advance
    <3>2. r.step + 1 \in 1 .. Length(r.paste)
      BY <1>1, <1>2, <2>1
    <3>3. Total(c.queue) \in Nat /\ c.sent \in Nat
      BY <1>0, PacerFields
    <3>4. c.total = c.sent + Total(c.queue) + (Length(r.paste) - (r.step + 1) + 1)
      BY <1>0, <1>1, <1>2, <1>4, <3>3
    <3> QED BY <1>0, <1>1, <1>4, <2>0, <3>1, <3>2, <3>4, WriteCounts
  <2>2. CASE ~(r.step < Length(r.paste)) /\ c.queue # <<>>
    <3>1. NextPaste(c, report)
      BY <1>4, <2>2 DEF Advance
    <3>2. Ready(c)
      BY <1>4, <2>2, MidwayIsReady
    <3> QED BY <3>1, <3>2, NextPasteCounts
  <2>3. CASE ~(r.step < Length(r.paste)) /\ c.queue = <<>>
    <3>1. Wrap(c, "done")
      BY <1>4, <2>3 DEF Advance
    <3> QED BY <1>0, <2>3, <3>1, WrapCounts
  <2> QED BY <2>1, <2>2, <2>3
<1> QED BY <1>3, <1>4

CountsInv == CountsOK(pacer, run)

LEMMA CountedFacts ==
  ASSUME CountsInv, run.at = "write"
  PROVE  /\ Midway(Counted(pacer), run)
         /\ Counted(pacer).queue = pacer.queue
         /\ Counted(pacer).controller = pacer.controller
         /\ Counted(pacer).closed = pacer.closed
<1>1. /\ pacer \in PacerState /\ RunOK(run) /\ pacer.controller # "none"
      /\ pacer.closed => pacer.queue = <<>> /\ pacer.controller # "live"
      /\ pacer.controller # "aborted" => AddsUp(pacer, run)
      /\ LinesFit(pacer, run)
  BY DEF CountsInv, CountsOK
<1>2. run.paste \in Paste /\ run.step \in 1 .. Length(run.paste)
  BY <1>1 DEF RunOK
<1>3. Length(run.paste) \in Nat /\ Text[run.paste].steps[run.step].lineEnd \in BOOLEAN
  BY <1>2, TextFacts
<1>4. PICK c : c = Counted(pacer)
  OBVIOUS
<1>5. c = [pacer EXCEPT !.sent = @ + 1,
                        !.linesDone = IF CurrentStep.lineEnd THEN @ + 1 ELSE @]
  BY <1>4 DEF Counted
<1>6. /\ pacer.sent \in Nat /\ pacer.linesDone \in Nat /\ pacer.lines \in Int
      /\ pacer.total \in Int /\ Total(pacer.queue) \in Nat /\ TotalLines(pacer.queue) \in Nat
  BY <1>1, PacerFields
<1>7. /\ c.queue = pacer.queue /\ c.controller = pacer.controller /\ c.closed = pacer.closed
      /\ c.total = pacer.total /\ c.lines = pacer.lines /\ c.sent = pacer.sent + 1
      /\ c.linesDone = IF CurrentStep.lineEnd THEN pacer.linesDone + 1 ELSE pacer.linesDone
  BY <1>1, <1>5 DEF PacerState
<1>8. LineEnd(run.paste, run.step) = IF CurrentStep.lineEnd THEN 1 ELSE 0
  BY DEF LineEnd, CurrentStep
<1>9. c.linesDone = pacer.linesDone + LineEnd(run.paste, run.step)
  BY <1>6, <1>7, <1>8
<1>10. c \in PacerState
  <2>1. pacer.sent + 1 \in Nat /\ (IF CurrentStep.lineEnd THEN pacer.linesDone + 1
                                   ELSE pacer.linesDone) \in Nat
    BY <1>6
  <2> QED BY <1>1, <1>5, <2>1 DEF PacerState
<1>11. c.linesDone <= c.lines
  BY <1>1, <1>7, <1>9 DEF LinesFit
<1>12. ASSUME c.controller # "aborted"
       PROVE  /\ c.total = c.sent + Total(c.queue) + (Length(run.paste) - run.step)
              /\ c.linesDone + TotalLines(c.queue) + LinesFrom(run.paste, run.step + 1) <= c.lines
  <2>1. AddsUp(pacer, run)
    BY <1>1, <1>7, <1>12
  <2>2. /\ StepsLeft(run) = Length(run.paste) - run.step + 1
        /\ LinesLeft(run) = LinesFrom(run.paste, run.step)
    BY DEF StepsLeft, LinesLeft
  <2>3. /\ run.step \in 1 .. Length(run.paste) + 1 /\ run.step <= Length(run.paste)
        /\ run.step + 1 \in 1 .. Length(run.paste) + 1
    BY <1>2, <1>3
  <2>4. /\ LinesFrom(run.paste, run.step)
             = LineEnd(run.paste, run.step) + LinesFrom(run.paste, run.step + 1)
        /\ LinesFrom(run.paste, run.step + 1) \in Nat
    BY <1>2, <2>3, LinesFromFacts
  <2>5. LineEnd(run.paste, run.step) \in Nat
    BY DEF LineEnd
  <2>6. c.total = c.sent + Total(c.queue) + (Length(run.paste) - run.step)
    BY <1>2, <1>3, <1>6, <1>7, <2>1, <2>2 DEF AddsUp
  <2>7. c.linesDone + TotalLines(c.queue) + LinesFrom(run.paste, run.step + 1) <= c.lines
    BY <1>6, <1>7, <1>9, <2>1, <2>2, <2>4, <2>5 DEF AddsUp
  <2> QED BY <2>6, <2>7
<1>13. Midway(c, run)
  BY <1>1, <1>7, <1>10, <1>11, <1>12 DEF Midway
<1> QED BY <1>4, <1>7, <1>13

LEMMA WaitedFacts ==
  ASSUME CountsInv, run.at = "wait"
  PROVE  Midway(pacer, run)
<1>1. /\ pacer \in PacerState /\ RunOK(run) /\ pacer.controller # "none"
      /\ pacer.closed => pacer.queue = <<>> /\ pacer.controller # "live"
      /\ pacer.controller # "aborted" => AddsUp(pacer, run)
      /\ LinesFit(pacer, run)
  BY DEF CountsInv, CountsOK
<1>2. /\ StepsLeft(run) = Length(run.paste) - run.step
      /\ LinesLeft(run) = LinesFrom(run.paste, run.step + 1)
  BY DEF StepsLeft, LinesLeft
<1> QED BY <1>1, <1>2 DEF Midway, AddsUp, LinesFit

LEMMA WriteDoneCounts ==
  ASSUME CountsInv, WriteDone
  PROVE  CountsInv'
<1>0. run.at = "write"
  BY DEF WriteDone
<1>1. PICK c : c = Counted(pacer)
  OBVIOUS
<1>2. /\ Midway(c, run) /\ c.queue = pacer.queue /\ c.controller = pacer.controller
      /\ c.closed = pacer.closed
  BY <1>0, <1>1, CountedFacts
<1>3. CASE ~Aborted /\ (AwaitsAnswer \/ CurrentStep.delay)
  <2>1. /\ run' = [run EXCEPT !.at = "wait", !.answering = @ \/ AwaitsAnswer]
        /\ pacer' = [c EXCEPT !.reported = TRUE]
    BY <1>1, <1>3 DEF WriteDone
  <2>2. /\ c \in PacerState /\ RunOK(run) /\ c.controller # "none"
        /\ c.closed => c.queue = <<>> /\ c.controller # "live"
        /\ c.linesDone <= c.lines
    BY <1>2 DEF Midway
  <2>3. c.controller # "aborted"
    BY <1>2, <1>3 DEF Aborted
  <2>4. /\ c.total = c.sent + Total(c.queue) + (Length(run.paste) - run.step)
        /\ c.linesDone + TotalLines(c.queue) + LinesFrom(run.paste, run.step + 1) <= c.lines
    BY <1>2, <2>3 DEF Midway
  <2>5. PICK d : d = [c EXCEPT !.reported = TRUE]
    OBVIOUS
  <2>6. /\ d.queue = c.queue /\ d.controller = c.controller /\ d.closed = c.closed
        /\ d.sent = c.sent /\ d.total = c.total /\ d.linesDone = c.linesDone
        /\ d.lines = c.lines
    BY <2>2, <2>5 DEF PacerState
  <2>7. d \in PacerState
    <3>1. TRUE \in BOOLEAN
      OBVIOUS
    <3> QED BY <2>2, <2>5, <3>1 DEF PacerState
  <2>8. PICK s : s = [run EXCEPT !.at = "wait", !.answering = @ \/ AwaitsAnswer]
    OBVIOUS
  <2>9. /\ run \in RunState /\ run.paste \in Paste /\ run.step \in 1 .. Length(run.paste)
        /\ run.bracketOpen <=> Text[run.paste].bracketed /\ run.step < Length(run.paste)
        /\ run.answering => Text[run.paste].prompt
    BY <1>0, <2>2 DEF RunOK
  <2>10. /\ s.at = "wait" /\ s.paste = run.paste /\ s.step = run.step
         /\ s.bracketOpen = run.bracketOpen
         /\ s.answering <=> run.answering \/ AwaitsAnswer
    BY <2>8, <2>9 DEF RunState
  <2>11. s \in RunState
    <3>1. "wait" \in {"idle", "write", "wait", "end"} /\ (run.answering \/ AwaitsAnswer) \in BOOLEAN
      OBVIOUS
    <3> QED BY <2>8, <2>9, <3>1 DEF RunState
  <2>12. AwaitsAnswer => Text[run.paste].prompt
    BY DEF AwaitsAnswer
  <2>13. RunOK(s)
    <3>0. Text[run.paste].bracketed \in BOOLEAN /\ Text[run.paste].prompt \in BOOLEAN
      BY <2>9, TextFacts
    <3>1. s.bracketOpen <=> Text[s.paste].bracketed /\ s.step < Length(s.paste)
      BY <2>9, <2>10, <3>0
    <3>2. s.answering => Text[s.paste].prompt
      <4>1. s.answering <=> (run.answering \/ AwaitsAnswer)
        BY <2>10
      <4>2. s.paste = run.paste
        BY <2>10
      <4> QED BY <2>9, <2>12, <3>0, <4>1, <4>2
    <3>3. s.paste \in Paste /\ s.step \in 1 .. Length(s.paste)
      BY <2>9, <2>10
    <3>4. s.at # "idle" /\ s.at # "end"
      BY <2>10
    <3> QED BY <2>11, <3>1, <3>2, <3>3, <3>4 DEF RunOK
  <2>14. /\ StepsLeft(s) = Length(run.paste) - run.step
         /\ LinesLeft(s) = LinesFrom(run.paste, run.step + 1)
    BY <2>10 DEF StepsLeft, LinesLeft
  <2>15. AddsUp(d, s) /\ LinesFit(d, s)
    BY <2>2, <2>4, <2>6, <2>10, <2>14 DEF AddsUp, LinesFit
  <2>16. CountsOK(d, s)
    BY <2>2, <2>6, <2>7, <2>10, <2>13, <2>15 DEF CountsOK
  <2> QED BY <2>1, <2>5, <2>8, <2>16 DEF CountsInv
<1>4. CASE ~(~Aborted /\ (AwaitsAnswer \/ CurrentStep.delay))
  <2>1. Advance(c, run)
    BY <1>1, <1>4 DEF WriteDone
  <2> QED BY <1>2, <2>1, AdvanceCounts DEF CountsInv
<1> QED BY <1>3, <1>4

LEMMA TurnCounts ==
  ASSUME CountsInv, Turn
  PROVE  CountsInv'
<1>0. pacer \in PacerState /\ (pacer.closed => pacer.queue = <<>>)
  BY DEF CountsInv, CountsOK
<1>1. CASE WriteDone
  BY <1>1, WriteDoneCounts
<1>2. CASE WriteFails
  BY <1>0, <1>2, WrapCounts DEF WriteFails, CountsInv
<1>3. CASE WaitDone
  BY <1>3, WaitedFacts, AdvanceCounts DEF WaitDone, CountsInv
<1>4. CASE Rejected
  <2>1. PICK d : d = [pacer EXCEPT !.queue = <<>>]
    OBVIOUS
  <2>2. pacer' = Recounted(d) /\ run' = Idle
    BY <1>4, <2>1 DEF Rejected
  <2>3. d \in PacerState /\ d.queue = <<>>
    <3>1. <<>> \in Seq(Paste)
      OBVIOUS
    <3> QED BY <1>0, <2>1, <3>1 DEF PacerState
  <2> QED BY <2>2, <2>3, RecountedCounts DEF CountsInv
<1>5. CASE BracketClosed
  BY <1>0, <1>5, WrapCounts DEF BracketClosed, CountsInv
<1> QED BY <1>1, <1>2, <1>3, <1>4, <1>5 DEF Turn

LEMMA CancelledCounts ==
  ASSUME CountsInv, NEW shut \in BOOLEAN,
         pacer' = [Cancelled(pacer) EXCEPT !.closed = @ \/ shut], run' = run
  PROVE  CountsInv'
<1>1. /\ pacer \in PacerState /\ RunOK(run)
      /\ pacer.controller = "none" <=> run.at = "idle"
      /\ run.at = "end" => pacer.controller = "aborted"
      /\ pacer.controller = "none" => pacer.queue = <<>>
      /\ pacer.closed => pacer.controller # "live"
      /\ pacer.controller # "aborted" => AddsUp(pacer, run)
      /\ LinesFit(pacer, run)
  BY DEF CountsInv, CountsOK
<1>2. pacer.controller \in Controllers /\ pacer.closed \in BOOLEAN /\ pacer.queue \in Seq(Paste)
  BY <1>1, PacerFields
<1>3. PICK b : b = Cancelled(pacer)
  OBVIOUS
<1>4. b = [pacer EXCEPT !.queue = <<>>,
                        !.controller = IF @ = "live" THEN "aborted" ELSE @]
  BY <1>3 DEF Cancelled
<1>5. /\ b.queue = <<>> /\ b.closed = pacer.closed /\ b.sent = pacer.sent
      /\ b.total = pacer.total /\ b.linesDone = pacer.linesDone /\ b.lines = pacer.lines
      /\ b.controller = IF pacer.controller = "live" THEN "aborted" ELSE pacer.controller
  BY <1>1, <1>4 DEF PacerState
<1>6. b \in PacerState
  <2>1. <<>> \in Seq(Paste)
    OBVIOUS
  <2>2. (IF pacer.controller = "live" THEN "aborted" ELSE pacer.controller) \in Controllers
    BY <1>2 DEF Controllers
  <2> QED BY <1>1, <1>4, <2>1, <2>2 DEF PacerState
<1>7. PICK c : c = [b EXCEPT !.closed = @ \/ shut]
  OBVIOUS
<1>8. /\ c.queue = <<>> /\ c.sent = pacer.sent /\ c.controller = b.controller
      /\ c.total = pacer.total /\ c.linesDone = pacer.linesDone /\ c.lines = pacer.lines
  BY <1>5, <1>6, <1>7 DEF PacerState
<1>9. c \in PacerState
  <2>1. (b.closed \/ shut) \in BOOLEAN
    OBVIOUS
  <2> QED BY <1>6, <1>7, <2>1 DEF PacerState
<1>10. c.controller # "live" /\ (c.controller = "none" <=> pacer.controller = "none")
  BY <1>5, <1>8
<1>11. c.controller # "aborted" => AddsUp(c, run)
  <2>1. SUFFICES ASSUME c.controller # "aborted"
                 PROVE  AddsUp(c, run)
    OBVIOUS
  <2>2. pacer.controller = "none"
    BY <1>2, <1>5, <1>8, <2>1 DEF Controllers
  <2>3. pacer.queue = <<>> /\ AddsUp(pacer, run)
    BY <1>1, <2>2
  <2> QED BY <1>8, <2>3 DEF AddsUp
<1>12. LinesFit(c, run)
  BY <1>1, <1>8 DEF LinesFit
<1>13. run.at = "end" => c.controller = "aborted"
  BY <1>1, <1>5, <1>8
<1>14. CountsOK(c, run)
  BY <1>1, <1>8, <1>9, <1>10, <1>11, <1>12, <1>13 DEF CountsOK
<1> QED BY <1>3, <1>7, <1>14 DEF CountsInv

LEMMA CancelCounts ==
  ASSUME CountsInv, Cancel \/ Close
  PROVE  CountsInv'
<1>1. pacer \in PacerState
  BY DEF CountsInv, CountsOK
<1>2. PICK b : b = Cancelled(pacer)
  OBVIOUS
<1>3. b = [pacer EXCEPT !.queue = <<>>,
                        !.controller = IF @ = "live" THEN "aborted" ELSE @]
  BY <1>2 DEF Cancelled
<1>4. b.closed \in BOOLEAN
  BY <1>1, <1>3 DEF PacerState
<1>5. CASE Cancel
  <2>1. pacer' = b /\ run' = run
    BY <1>2, <1>5 DEF Cancel
  <2>2. b = [b EXCEPT !.closed = @ \/ FALSE]
    BY <1>1, <1>3, <1>4 DEF PacerState
  <2>3. FALSE \in BOOLEAN
    OBVIOUS
  <2> QED BY <1>2, <2>1, <2>2, <2>3, CancelledCounts
<1>6. CASE Close
  <2>1. pacer' = [b EXCEPT !.closed = TRUE] /\ run' = run
    BY <1>2, <1>6 DEF Close
  <2>2. [b EXCEPT !.closed = TRUE] = [b EXCEPT !.closed = @ \/ TRUE]
    OBVIOUS
  <2>3. TRUE \in BOOLEAN
    OBVIOUS
  <2> QED BY <1>2, <2>1, <2>2, <2>3, CancelledCounts
<1> QED BY <1>5, <1>6

\* A paste starts a run, or is queued behind the one that there is.
LEMMA EnqueueMoves ==
  ASSUME CountsInv, NEW p \in Paste, Enqueue(p)
  PROVE  \/ /\ pacer.controller = "none"
            /\ \E d : Ready(d) /\ NextPaste(d, report) /\ d.queue = Append(pacer.queue, p)
         \/ /\ pacer.controller # "none" /\ pacer'.queue = Append(pacer.queue, p)
            /\ pacer'.controller = pacer.controller /\ pacer'.closed = pacer.closed
            /\ UNCHANGED <<run, out, report, dropped>>
            /\ CountsOK(pacer', run)
<1>1. /\ pacer \in PacerState /\ RunOK(run)
      /\ pacer.controller = "none" <=> run.at = "idle"
      /\ run.at = "end" => pacer.controller = "aborted"
      /\ pacer.controller = "none" => pacer.queue = <<>>
      /\ pacer.controller # "aborted" => AddsUp(pacer, run)
      /\ LinesFit(pacer, run)
  BY DEF CountsInv, CountsOK
<1>2. /\ pacer.queue \in Seq(Paste) /\ pacer.controller \in Controllers
      /\ pacer.sent \in Nat /\ pacer.total \in Int /\ pacer.linesDone \in Nat
      /\ pacer.lines \in Int /\ Total(pacer.queue) \in Nat /\ TotalLines(pacer.queue) \in Nat
  BY <1>1, PacerFields
<1>3. Length(p) \in Nat /\ Lines(p) \in Nat
  BY TextFacts, LinesFacts
<1>4. /\ Total(Append(pacer.queue, p)) = Total(pacer.queue) + Length(p)
      /\ TotalLines(Append(pacer.queue, p)) = TotalLines(pacer.queue) + Lines(p)
  BY <1>2, TotalOfLonger
<1>5. Append(pacer.queue, p) \in Seq(Paste) /\ Append(pacer.queue, p) # <<>>
  <2>1. Append(pacer.queue, p) \in Seq(Paste) /\ Len(pacer.queue) \in Nat
    BY <1>2, LenProperties
  <2>2. Len(Append(pacer.queue, p)) = Len(pacer.queue) + 1
    BY <1>2
  <2>3. Len(Append(pacer.queue, p)) # 0
    BY <2>1, <2>2
  <2> QED BY <2>1, <2>3
<1>6. PICK c : c = Queued(pacer, p)
  OBVIOUS
<1>7. c = [pacer EXCEPT !.queue = Append(@, p)]
  BY <1>6 DEF Queued
<1>8. /\ c.queue = Append(pacer.queue, p) /\ c.controller = pacer.controller
      /\ c.closed = pacer.closed /\ c.sent = pacer.sent /\ c.total = pacer.total
      /\ c.linesDone = pacer.linesDone /\ c.lines = pacer.lines
  BY <1>1, <1>7 DEF PacerState
<1>9. c \in PacerState
  BY <1>1, <1>5, <1>7 DEF PacerState
<1>10. PICK d : d = [c EXCEPT !.total = @ + Length(p), !.lines = @ + Lines(p)]
  OBVIOUS
<1>11. /\ d.queue = c.queue /\ d.controller = c.controller /\ d.closed = c.closed
       /\ d.sent = c.sent /\ d.total = c.total + Length(p)
       /\ d.linesDone = c.linesDone /\ d.lines = c.lines + Lines(p)
  BY <1>9, <1>10 DEF PacerState
<1>12. d \in PacerState
  <2>1. c.total + Length(p) \in Int /\ c.lines + Lines(p) \in Int
    BY <1>2, <1>3, <1>8
  <2> QED BY <1>9, <1>10, <2>1 DEF PacerState
<1>13. ~pacer.closed
  BY DEF Enqueue
<1>17. /\ d.sent = pacer.sent /\ d.total = pacer.total + Length(p)
       /\ d.linesDone = pacer.linesDone /\ d.lines = pacer.lines + Lines(p)
       /\ Total(d.queue) = Total(pacer.queue) + Length(p)
       /\ TotalLines(d.queue) = TotalLines(pacer.queue) + Lines(p)
  BY <1>4, <1>8, <1>11
<1>14. CASE pacer.controller = "none"
  <2>1. NextPaste(d, report)
    BY <1>6, <1>10, <1>14 DEF Enqueue, Aborted
  <2>2. AddsUp(pacer, run) /\ run.at = "idle"
    BY <1>1, <1>14
  <2>3. StepsLeft(run) = 0 /\ LinesLeft(run) = 0
    BY <2>2 DEF StepsLeft, LinesLeft
  <2>4. d.total = d.sent + Total(d.queue)
    <3>1. pacer.total = pacer.sent + Total(pacer.queue)
      BY <1>2, <2>2, <2>3 DEF AddsUp
    <3> QED BY <1>2, <1>3, <1>17, <3>1
  <2>5. d.linesDone + TotalLines(d.queue) <= d.lines
    <3>1. pacer.linesDone + TotalLines(pacer.queue) <= pacer.lines
      BY <1>2, <2>2, <2>3 DEF AddsUp
    <3> QED BY <1>2, <1>3, <1>17, <3>1
  <2>6. Ready(d)
    BY <1>5, <1>8, <1>11, <1>12, <1>13, <2>4, <2>5 DEF Ready
  <2> QED BY <1>8, <1>11, <1>14, <2>1, <2>6
<1>15. CASE pacer.controller = "live"
  <2>1. pacer' = d /\ UNCHANGED <<run, out, report, dropped>>
    BY <1>6, <1>10, <1>15 DEF Enqueue, Aborted
  <2>2. AddsUp(pacer, run) /\ run.at # "idle" /\ run.at # "end"
    BY <1>1, <1>15
  <2>3. /\ run.paste \in Paste /\ run.step \in 1 .. Length(run.paste)
        /\ run.at \in {"write", "wait"}
    BY <1>1, <2>2 DEF RunOK, RunState
  <2>4. Length(run.paste) \in Nat
    BY <2>3, TextFacts
  <2>5. StepsLeft(run) \in Int
    BY <2>3, <2>4 DEF StepsLeft
  <2>6. LinesLeft(run) \in Int
    <3>1. run.step \in 1 .. Length(run.paste) + 1 /\ run.step + 1 \in 1 .. Length(run.paste) + 1
      BY <2>3, <2>4
    <3>2. LinesFrom(run.paste, run.step) \in Nat /\ LinesFrom(run.paste, run.step + 1) \in Nat
      BY <2>3, <3>1, LinesFromFacts
    <3> QED BY <2>3, <3>2 DEF LinesLeft
  <2>7. AddsUp(d, run)
    <3>1. d.total = d.sent + Total(d.queue) + StepsLeft(run)
      <4>1. pacer.total = pacer.sent + Total(pacer.queue) + StepsLeft(run)
        BY <2>2 DEF AddsUp
      <4>2. /\ d.total = pacer.total + Length(p)
            /\ d.sent + Total(d.queue) = pacer.sent + (Total(pacer.queue) + Length(p))
        BY <1>17
      <4>3. /\ pacer.sent \in Int /\ Total(pacer.queue) \in Int /\ Length(p) \in Int
            /\ StepsLeft(run) \in Int
        BY <1>2, <1>3, <2>5
      <4> QED BY ONLY <4>1, <4>2, <4>3
    <3>2. d.linesDone + TotalLines(d.queue) + LinesLeft(run) <= d.lines
      <4>1. pacer.linesDone + TotalLines(pacer.queue) + LinesLeft(run) <= pacer.lines
        BY <2>2 DEF AddsUp
      <4>2. /\ d.linesDone + TotalLines(d.queue)
                 = pacer.linesDone + (TotalLines(pacer.queue) + Lines(p))
            /\ d.lines = pacer.lines + Lines(p)
        BY <1>17
      <4>3. /\ pacer.linesDone \in Int /\ TotalLines(pacer.queue) \in Int /\ Lines(p) \in Int
            /\ pacer.lines \in Int /\ LinesLeft(run) \in Int
        BY <1>2, <1>3, <2>6
      <4> QED BY ONLY <4>1, <4>2, <4>3
    <3> QED BY <3>1, <3>2 DEF AddsUp
  <2>8. LinesFit(d, run)
    <3>1. LineEnd(run.paste, run.step) \in Nat
      BY DEF LineEnd
    <3>2. pacer.linesDone <= pacer.lines => d.linesDone <= d.lines
      BY <1>2, <1>3, <1>17
    <3>3. pacer.linesDone + LineEnd(run.paste, run.step) <= pacer.lines =>
            d.linesDone + LineEnd(run.paste, run.step) <= d.lines
      <4>1. /\ pacer.linesDone \in Int /\ pacer.lines \in Int /\ Lines(p) \in Nat
            /\ LineEnd(run.paste, run.step) \in Int
        BY <1>2, <1>3, <3>1
      <4>2. d.linesDone = pacer.linesDone /\ d.lines = pacer.lines + Lines(p)
        BY <1>17
      <4> QED BY ONLY <4>1, <4>2
    <3> QED BY <1>1, <3>2, <3>3 DEF LinesFit
  <2>9. CountsOK(d, run)
    BY <1>1, <1>8, <1>11, <1>12, <1>13, <1>15, <2>2, <2>7, <2>8 DEF CountsOK
  <2> QED BY <1>8, <1>11, <1>15, <2>1, <2>9
<1>16. CASE pacer.controller = "aborted"
  <2>1. pacer' = c /\ UNCHANGED <<run, out, report, dropped>>
    BY <1>6, <1>16 DEF Enqueue, Aborted
  <2>2. LinesFit(c, run)
    BY <1>1, <1>8 DEF LinesFit
  <2>3. CountsOK(c, run)
    BY <1>1, <1>8, <1>9, <1>13, <1>16, <2>2 DEF CountsOK
  <2> QED BY <1>8, <1>16, <2>1, <2>3
<1> QED BY <1>2, <1>14, <1>15, <1>16 DEF Controllers

LEMMA EnqueueCounts ==
  ASSUME CountsInv, NEW p \in Paste, Enqueue(p)
  PROVE  CountsInv'
<1>1. CASE pacer.controller = "none"
  BY <1>1, EnqueueMoves, NextPasteCounts DEF CountsInv
<1>2. CASE pacer.controller # "none"
  BY <1>2, EnqueueMoves DEF CountsInv
<1> QED BY <1>1, <1>2

LEMMA CountsInit ==
  ASSUME PacerInit
  PROVE  CountsInv
<1>1. pacer \in PacerState
  <2>1. /\ <<>> \in Seq(Paste) /\ "none" \in Controllers /\ FALSE \in BOOLEAN /\ 0 \in Nat
        /\ 0 \in Int
    BY DEF Controllers
  <2> QED BY <2>1 DEF PacerInit, PacerState
<1>2. /\ pacer.queue = <<>> /\ pacer.controller = "none" /\ ~pacer.closed /\ pacer.sent = 0
      /\ pacer.total = 0 /\ pacer.linesDone = 0 /\ pacer.lines = 0 /\ run = Idle
  BY DEF PacerInit
<1>3. RunOK(Idle) /\ Idle.at = "idle"
  BY DEF RunOK, RunState, Idle
<1>4. StepsLeft(Idle) = 0 /\ LinesLeft(Idle) = 0
  BY <1>3 DEF StepsLeft, LinesLeft
<1>5. Total(pacer.queue) = 0 /\ TotalLines(pacer.queue) = 0
  BY <1>1, <1>2, PacerFields
<1>6. AddsUp(pacer, Idle) /\ LinesFit(pacer, Idle)
  BY <1>2, <1>3, <1>4, <1>5 DEF AddsUp, LinesFit
<1> QED BY <1>1, <1>2, <1>3, <1>6 DEF CountsInv, CountsOK

LEMMA CountsStep == CountsInv /\ [PacerNext]_pacerVars => CountsInv'
<1>1. SUFFICES ASSUME CountsInv, [PacerNext]_pacerVars
               PROVE  CountsInv'
  OBVIOUS
<1>2. CASE UNCHANGED pacerVars
  BY <1>1, <1>2 DEF pacerVars, CountsInv
<1>3. CASE PacerNext
  BY <1>1, <1>3, EnqueueCounts, CancelCounts, TurnCounts DEF PacerNext
<1> QED BY <1>1, <1>2, <1>3

LEMMA CountsHold == PacerSpec => []CountsInv
  BY CountsInit, CountsStep, PTL DEF PacerSpec

\* The pacer and the locals of its run keep their types and agree, and no line is
\* counted that is not there, for every set of pastes (PastePacer,
\* paste-pacer.ts:51-64, 135-155).
THEOREM PacerTypesHold == PacerSpec => []PacerTypeOK
<1>1. CountsInv => PacerTypeOK
  <2>1. SUFFICES ASSUME CountsInv
                 PROVE  PacerTypeOK
    OBVIOUS
  <2>2. /\ pacer \in PacerState /\ RunOK(run)
        /\ pacer.controller = "none" <=> run.at = "idle"
        /\ LinesFit(pacer, run)
    BY <2>1 DEF CountsInv, CountsOK
  <2>3. pacer.linesDone \in 0 .. pacer.lines
    BY <2>2, PacerFields DEF LinesFit
  <2> QED BY <2>2, <2>3, PacerFields DEF PacerTypeOK, RunOK, Controllers
<1> QED BY <1>1, CountsHold, PTL

\* What a run reports as sent, and what is left of its paste and of the queue, add up
\* to its total whatever was cancelled, stopped or queued before (enqueue and run,
\* paste-pacer.ts:91-95, 222-228).
THEOREM ProgressStaysRight == PacerSpec => []ProgressAddsUp
<1>1. CountsInv => ProgressAddsUp
  <2>1. SUFFICES ASSUME CountsInv, pacer.controller # "aborted"
                 PROVE  ProgressAddsUp
    BY DEF ProgressAddsUp
  <2>2. /\ AddsUp(pacer, run) /\ run.at # "end"
        /\ run.at \in {"idle", "write", "wait", "end"}
    BY <2>1 DEF CountsInv, CountsOK, RunOK, RunState
  <2> QED BY <2>2 DEF ProgressAddsUp, AddsUp, StepsLeft
<1> QED BY <1>1, CountsHold, PTL

(* The writes of a run, and the brackets *)

\* The last marker of s before position i opens a bracket.
Opened(s, i) ==
  \E j \in 1 .. i - 1 : s[j].kind = "start" /\ \A k \in j + 1 .. i - 1 : s[k].kind # "end"

\* Text is in a bracket of its own where it asks for one, and open says whether one
\* is open at the end of s.
Bracketed(s, open) ==
  /\ \A i \in 1 .. Len(s) :
       /\ s[i].kind = "step" => (Opened(s, i) <=> Text[s[i].paste].bracketed)
       /\ s[i].kind = "start" => ~Opened(s, i)
  /\ Opened(s, Len(s) + 1) <=> open

\* Nothing is left open by a run that ended, unless the session is gone.
BracketsAre(c, r, s) ==
  /\ \E open \in BOOLEAN : Bracketed(s, open)
  /\ ~c.closed \/ r.at # "idle" => Bracketed(s, r.bracketOpen)

BracketsInv == out \in Seq(Marks) /\ (~broken => BracketsAre(pacer, run, out))

LEMMA OneMore ==
  ASSUME NEW s \in Seq(Marks), NEW m \in Marks, NEW t, t = Append(s, m)
  PROVE  /\ t \in Seq(Marks) /\ Len(s) \in Nat /\ Len(t) = Len(s) + 1
         /\ t[Len(s) + 1] = m /\ \A i \in 1 .. Len(s) : t[i] = s[i]
  BY LenProperties

LEMMA OpenedAfter ==
  ASSUME NEW s \in Seq(Marks), NEW m \in Marks, NEW t, t = Append(s, m)
  PROVE  /\ \A i \in 1 .. Len(s) + 1 : Opened(t, i) <=> Opened(s, i)
         /\ Opened(t, Len(t) + 1) <=>
              m.kind = "start" \/ (Opened(s, Len(s) + 1) /\ m.kind # "end")
<1>1. /\ Len(s) \in Nat /\ Len(t) = Len(s) + 1
      /\ t[Len(s) + 1] = m /\ \A i \in 1 .. Len(s) : t[i] = s[i]
  BY OneMore
<1>2. ASSUME NEW i \in 1 .. Len(s) + 1
      PROVE  Opened(t, i) <=> Opened(s, i)
  <2>1. \A j \in 1 .. i - 1 : t[j] = s[j] /\ \A k \in j + 1 .. i - 1 : t[k] = s[k]
    BY <1>1
  <2> QED BY <2>1 DEF Opened
<1>3. ASSUME m.kind = "start"
      PROVE  Opened(t, Len(t) + 1)
  <2>1. Len(t) \in 1 .. Len(t) + 1 - 1 /\ t[Len(t)].kind = "start"
    BY <1>1, <1>3
  <2>2. \A k \in Len(t) + 1 .. Len(t) + 1 - 1 : t[k].kind # "end"
    BY <1>1
  <2> QED BY <2>1, <2>2 DEF Opened
<1>4. ASSUME Opened(s, Len(s) + 1), m.kind # "end"
      PROVE  Opened(t, Len(t) + 1)
  <2>1. PICK j \in 1 .. Len(s) : s[j].kind = "start" /\ \A k \in j + 1 .. Len(s) : s[k].kind # "end"
    BY <1>1, <1>4 DEF Opened
  <2>2. j \in 1 .. Len(t) + 1 - 1 /\ t[j].kind = "start"
    BY <1>1, <2>1
  <2>3. \A k \in j + 1 .. Len(t) + 1 - 1 : t[k].kind # "end"
    <3>1. SUFFICES ASSUME NEW k \in j + 1 .. Len(t) + 1 - 1
                   PROVE  t[k].kind # "end"
      OBVIOUS
    <3>2. k \in j + 1 .. Len(s) \/ k = Len(s) + 1
      BY <1>1
    <3> QED BY <1>1, <1>4, <2>1, <3>2
  <2> QED BY <2>2, <2>3 DEF Opened
<1>5. ASSUME Opened(t, Len(t) + 1), m.kind # "start"
      PROVE  Opened(s, Len(s) + 1) /\ m.kind # "end"
  <2>1. PICK j \in 1 .. Len(s) + 1 :
          t[j].kind = "start" /\ \A k \in j + 1 .. Len(s) + 1 : t[k].kind # "end"
    BY <1>1, <1>5 DEF Opened
  <2>2. j \in 1 .. Len(s)
    BY <1>1, <1>5, <2>1
  <2>3. Len(s) + 1 \in j + 1 .. Len(s) + 1
    BY <1>1, <2>2
  <2>4. \A k \in j + 1 .. Len(s) : k \in j + 1 .. Len(s) + 1 /\ t[k] = s[k]
    BY <1>1, <2>2
  <2>5. m.kind # "end"
    BY <1>1, <2>1, <2>3
  <2>6. s[j].kind = "start" /\ \A k \in j + 1 .. Len(s) : s[k].kind # "end"
    BY <1>1, <2>1, <2>2, <2>4
  <2>7. j \in 1 .. (Len(s) + 1) - 1 /\ \A k \in j + 1 .. (Len(s) + 1) - 1 : s[k].kind # "end"
    BY <1>1, <2>2, <2>6
  <2> QED BY <2>5, <2>6, <2>7 DEF Opened
<1> QED BY <1>2, <1>3, <1>4, <1>5

LEMMA BracketedAfter ==
  ASSUME NEW s \in Seq(Marks), NEW m \in Marks, NEW t, t = Append(s, m), NEW open \in BOOLEAN,
         Bracketed(s, open),
         m.kind = "start" => ~open,
         m.kind = "step" => (open <=> Text[m.paste].bracketed)
  PROVE  Bracketed(t, m.kind = "start" \/ (open /\ m.kind # "end"))
<1>1. /\ Len(s) \in Nat /\ Len(t) = Len(s) + 1
      /\ t[Len(s) + 1] = m /\ \A i \in 1 .. Len(s) : t[i] = s[i]
  BY OneMore
<1>2. /\ \A i \in 1 .. Len(s) + 1 : Opened(t, i) <=> Opened(s, i)
      /\ Opened(t, Len(t) + 1) <=>
           m.kind = "start" \/ (Opened(s, Len(s) + 1) /\ m.kind # "end")
  BY OpenedAfter
<1>3. /\ \A i \in 1 .. Len(s) :
           /\ s[i].kind = "step" => (Opened(s, i) <=> Text[s[i].paste].bracketed)
           /\ s[i].kind = "start" => ~Opened(s, i)
      /\ Opened(s, Len(s) + 1) <=> open
  BY DEF Bracketed
<1>4. ASSUME NEW i \in 1 .. Len(t)
      PROVE  /\ t[i].kind = "step" => (Opened(t, i) <=> Text[t[i].paste].bracketed)
             /\ t[i].kind = "start" => ~Opened(t, i)
  <2>1. CASE i \in 1 .. Len(s)
    <3>1. t[i] = s[i] /\ (Opened(t, i) <=> Opened(s, i))
      BY <1>1, <1>2, <2>1
    <3> QED BY <1>3, <2>1, <3>1
  <2>2. CASE i = Len(s) + 1
    <3>1. t[i] = m /\ (Opened(t, i) <=> open)
      BY <1>1, <1>2, <1>3, <2>2
    <3> QED BY <3>1
  <2> QED BY <1>1, <2>1, <2>2
<1>5. Opened(t, Len(t) + 1) <=> m.kind = "start" \/ (open /\ m.kind # "end")
  BY <1>2, <1>3
<1> QED BY <1>4, <1>5 DEF Bracketed

\* A write of one step adds at most three marks: s1 and s2 are what is written before
\* and with the text.
Writes(s, s1, s2, t, p, i, open) ==
  /\ IF Text[p].bracketed /\ ~open THEN s1 = Append(s, Mark("start", p, 0)) ELSE s1 = s
  /\ s2 = Append(s1, Mark("step", p, i))
  /\ IF Text[p].bracketed /\ i = Length(p) THEN t = Append(s2, Mark("end", p, 0)) ELSE t = s2

LEMMA MarksOf ==
  ASSUME NEW p \in Paste, NEW i \in 1 .. Length(p)
  PROVE  /\ Mark("start", p, 0) \in Marks /\ Mark("step", p, i) \in Marks
         /\ Mark("end", p, 0) \in Marks
         /\ Mark("start", p, 0).kind = "start" /\ Mark("end", p, 0).kind = "end"
         /\ Mark("step", p, i).kind = "step" /\ Mark("step", p, i).paste = p
         /\ Mark("step", p, i).step = i
<1>1. Length(p) \in Nat
  BY TextFacts
<1> QED BY <1>1 DEF Mark, Marks

LEMMA WritesMarks ==
  ASSUME NEW s \in Seq(Marks), NEW c, NEW r \in RunState, NEW p \in Paste,
         NEW i \in 1 .. Length(p), out = s, WriteStep(c, r, p, i)
  PROVE  \E s1, s2 \in Seq(Marks) :
           Writes(s, s1, s2, out', p, i, r.bracketOpen) /\ out' \in Seq(Marks)
<1>1. PICK a, b, e : /\ a = Mark("start", p, 0) /\ a \in Marks
                     /\ b = Mark("step", p, i) /\ b \in Marks
                     /\ e = Mark("end", p, 0) /\ e \in Marks
  BY MarksOf
<1>2. out' = s \o (IF Text[p].bracketed /\ ~r.bracketOpen THEN <<a>> ELSE <<>>)
               \o <<b>>
               \o (IF Text[p].bracketed /\ i = Length(p) THEN <<e>> ELSE <<>>)
  BY <1>1 DEF WriteStep
<1>3. \A u \in Seq(Marks) : \A m \in Marks :
        /\ u \o <<m>> = Append(u, m) /\ u \o <<>> = u /\ Append(u, m) \in Seq(Marks)
  OBVIOUS
<1>4. PICK s1 : s1 = s \o (IF Text[p].bracketed /\ ~r.bracketOpen THEN <<a>> ELSE <<>>)
  OBVIOUS
<1>5. /\ IF Text[p].bracketed /\ ~r.bracketOpen THEN s1 = Append(s, a) ELSE s1 = s
      /\ s1 \in Seq(Marks)
  BY <1>1, <1>3, <1>4
<1>6. PICK s2 : s2 = s1 \o <<b>>
  OBVIOUS
<1>7. s2 = Append(s1, b) /\ s2 \in Seq(Marks)
  BY <1>1, <1>3, <1>5, <1>6
<1>8. out' = s2 \o (IF Text[p].bracketed /\ i = Length(p) THEN <<e>> ELSE <<>>)
  BY <1>2, <1>4, <1>6
<1>9. /\ IF Text[p].bracketed /\ i = Length(p) THEN out' = Append(s2, e) ELSE out' = s2
      /\ out' \in Seq(Marks)
  BY <1>1, <1>3, <1>7, <1>8
<1>10. Writes(s, s1, s2, out', p, i, r.bracketOpen)
  BY <1>1, <1>5, <1>7, <1>9 DEF Writes
<1> QED BY <1>5, <1>7, <1>9, <1>10

LEMMA WriteBrackets ==
  ASSUME NEW s \in Seq(Marks), NEW c, NEW r \in RunState, NEW p \in Paste,
         NEW i \in 1 .. Length(p), out = s, WriteStep(c, r, p, i),
         Bracketed(s, r.bracketOpen), r.bracketOpen => Text[p].bracketed
  PROVE  Bracketed(out', run'.bracketOpen) /\ run'.at = "write"
<1>1. PICK s1 \in Seq(Marks), s2 \in Seq(Marks) : Writes(s, s1, s2, out', p, i, r.bracketOpen)
  BY WritesMarks
<1>2. Text[p].bracketed \in BOOLEAN /\ r.bracketOpen \in BOOLEAN /\ Length(p) \in Nat
  BY TextFacts DEF RunState
<1>3. PICK a, b, e : /\ a = Mark("start", p, 0) /\ a \in Marks /\ a.kind = "start"
                     /\ b = Mark("step", p, i) /\ b \in Marks /\ b.kind = "step" /\ b.paste = p
                     /\ e = Mark("end", p, 0) /\ e \in Marks /\ e.kind = "end"
  BY MarksOf
<1>4. Bracketed(s1, Text[p].bracketed)
  <2>1. CASE Text[p].bracketed /\ ~r.bracketOpen
    <3>1. s1 = Append(s, a)
      BY <1>1, <1>3, <2>1 DEF Writes
    <3>2. a.kind # "step" /\ a \in Marks /\ FALSE \in BOOLEAN
      BY <1>3
    <3>3. Bracketed(s1, a.kind = "start" \/ (FALSE /\ a.kind # "end"))
      <4>1. Bracketed(s, FALSE)
        BY <2>1 DEF Bracketed
      <4> QED BY <3>1, <3>2, <4>1, BracketedAfter
    <3> QED BY <1>3, <2>1, <3>3 DEF Bracketed
  <2>2. CASE ~(Text[p].bracketed /\ ~r.bracketOpen)
    <3>1. s1 = s
      BY <1>1, <2>2 DEF Writes
    <3>2. r.bracketOpen <=> Text[p].bracketed
      BY <1>2, <2>2
    <3> QED BY <3>1, <3>2 DEF Bracketed
  <2> QED BY <2>1, <2>2
<1>5. Bracketed(s2, Text[p].bracketed)
  <2>1. s2 = Append(s1, b)
    BY <1>1, <1>3 DEF Writes
  <2>2. b.kind # "start" /\ (Text[p].bracketed <=> Text[b.paste].bracketed)
    BY <1>3
  <2>3. Bracketed(s2, b.kind = "start" \/ (Text[p].bracketed /\ b.kind # "end"))
    <3>1. Text[p].bracketed \in BOOLEAN /\ b \in Marks
      BY <1>2, <1>3
    <3> QED BY <1>4, <2>1, <2>2, <3>1, BracketedAfter
  <2> QED BY <1>3, <2>3 DEF Bracketed
<1>6. /\ run'.bracketOpen <=> Text[p].bracketed /\ i < Length(p)
      /\ run'.at = "write"
  BY DEF WriteStep, RunState
<1>7. Bracketed(out', run'.bracketOpen)
  <2>1. CASE Text[p].bracketed /\ i = Length(p)
    <3>1. out' = Append(s2, e)
      BY <1>1, <1>3, <2>1 DEF Writes
    <3>2. e.kind # "start" /\ e.kind # "step"
      BY <1>3
    <3>3. Bracketed(out', e.kind = "start" \/ (Text[p].bracketed /\ e.kind # "end"))
      <4>1. Text[p].bracketed \in BOOLEAN /\ e \in Marks
        BY <1>2, <1>3
      <4> QED BY <1>5, <3>1, <3>2, <4>1, BracketedAfter
    <3>4. ~run'.bracketOpen
      BY <1>2, <1>6, <2>1
    <3> QED BY <1>3, <3>3, <3>4 DEF Bracketed
  <2>2. CASE ~(Text[p].bracketed /\ i = Length(p))
    <3>1. out' = s2
      BY <1>1, <1>3, <2>2 DEF Writes
    <3>2. run'.bracketOpen <=> Text[p].bracketed
      BY <1>2, <1>6, <2>2
    <3> QED BY <1>5, <3>1, <3>2 DEF Bracketed
  <2> QED BY <2>1, <2>2
<1> QED BY <1>6, <1>7

\* In what follows good says that the transport has not failed.
LEMMA NextPasteBrackets ==
  ASSUME NEW c, Ready(c), NEW said, NextPaste(c, said), NEW s \in Seq(Marks), out = s,
         NEW good \in BOOLEAN, good => Bracketed(s, FALSE)
  PROVE  /\ out' \in Seq(Marks)
         /\ good => BracketsAre(pacer', run', out')
<1> DEFINE p == Head(c.queue)
<1>1. c \in PacerState /\ c.queue # <<>> /\ c.queue \in Seq(Paste)
  BY PacerFields DEF Ready
<1>2. p \in Paste
  BY <1>1
<1>3. Idle \in RunState /\ ~Idle.bracketOpen
  BY DEF Idle, RunState
<1>4. CASE Text[p].compiles
  <2>1. PICK d : d = [c EXCEPT !.queue = Tail(@), !.controller = "live"]
    OBVIOUS
  <2>2. WriteStep(d, Idle, p, 1)
    BY <1>4, <2>1 DEF NextPaste
  <2>3. 1 \in 1 .. Length(p)
    BY <1>2, TextFacts
  <2> HIDE DEF p
  <2>4. out' \in Seq(Marks)
    BY <1>2, <1>3, <2>2, <2>3, WritesMarks
  <2>5. ASSUME good
        PROVE  Bracketed(out', run'.bracketOpen)
    <3>1. Bracketed(s, Idle.bracketOpen)
      BY <1>3, <2>5 DEF Bracketed
    <3> QED BY <1>2, <1>3, <2>2, <2>3, <3>1, WriteBrackets
  <2>6. run'.bracketOpen \in BOOLEAN
    <3>1. run'.bracketOpen <=> Text[p].bracketed /\ 1 < Length(p)
      BY <2>2 DEF WriteStep, Idle
    <3>2. run'.bracketOpen = (Text[p].bracketed /\ 1 < Length(p))
      BY <2>2 DEF WriteStep, Idle
    <3> QED BY <3>2
  <2> QED BY <2>4, <2>5, <2>6 DEF BracketsAre
<1>5. CASE ~Text[p].compiles
  <2>1. out' = s /\ run' = Idle
    BY <1>5 DEF NextPaste
  <2>2. good => Bracketed(s, FALSE) /\ Bracketed(s, Idle.bracketOpen)
    BY <1>3 DEF Bracketed
  <2>3. FALSE \in BOOLEAN
    OBVIOUS
  <2> QED BY <2>1, <2>2, <2>3 DEF BracketsAre
<1> QED BY <1>4, <1>5

LEMMA WrapBrackets ==
  ASSUME NEW c \in PacerState, c.closed => c.queue = <<>>, NEW state, Wrap(c, state),
         NEW s \in Seq(Marks), out = s, NEW good \in BOOLEAN,
         good => \E open \in BOOLEAN : Bracketed(s, open),
         good /\ ~c.closed => Bracketed(s, FALSE)
  PROVE  /\ out' \in Seq(Marks)
         /\ good => BracketsAre(pacer', run', out')
<1>1. CASE c.closed \/ c.queue = <<>>
  <2>1. pacer' = Recounted(c) /\ run' = Idle /\ out' = s
    BY <1>1 DEF Wrap, RunEnds
  <2>2. Recounted(c).closed = c.closed
    BY RecountedCounts
  <2>3. Idle.at = "idle" /\ ~Idle.bracketOpen
    BY DEF Idle
  <2>4. good /\ ~c.closed => Bracketed(s, Idle.bracketOpen)
    BY <2>3 DEF Bracketed
  <2> QED BY <2>1, <2>2, <2>3, <2>4 DEF BracketsAre
<1>2. CASE ~(c.closed \/ c.queue = <<>>)
  <2>1. NextPaste(Recounted(c), Report(c, state))
    BY <1>2 DEF Wrap
  <2>2. Ready(Recounted(c))
    BY <1>2, RecountedCounts
  <2> QED BY <1>2, <2>1, <2>2, NextPasteBrackets
<1> QED BY <1>1, <1>2

LEMMA FinishBrackets ==
  ASSUME NEW c, NEW r, Midway(c, r), c.controller = "aborted", FinishRun(c, r),
         NEW s \in Seq(Marks), out = s, NEW good \in BOOLEAN,
         good => Bracketed(s, r.bracketOpen)
  PROVE  /\ out' \in Seq(Marks)
         /\ good => BracketsAre(pacer', run', out')
<1>0. /\ c \in PacerState /\ RunOK(r) /\ r.at \in {"write", "wait"}
      /\ c.closed => c.queue = <<>>
  BY DEF Midway
<1>1. r \in RunState /\ r.bracketOpen \in BOOLEAN /\ r.paste \in Paste /\ FALSE \in BOOLEAN
  BY <1>0 DEF RunOK, RunState
<1>2. CASE r.bracketOpen /\ ~c.closed
  <2>1. PICK m : m = Mark("end", r.paste, 0)
    OBVIOUS
  <2>2. m \in Marks /\ m.kind = "end"
    BY <1>1, <2>1 DEF Mark, Marks
  <2>3. out' = Append(s, m) /\ ~run'.bracketOpen
    BY <1>1, <1>2, <2>1 DEF FinishRun, CloseBracket, RunState
  <2>4. out' \in Seq(Marks)
    BY <2>2, <2>3, OneMore
  <2>5. ASSUME good
        PROVE  Bracketed(out', FALSE)
    <3>1. Bracketed(s, TRUE) /\ TRUE \in BOOLEAN
      BY <1>2, <2>5 DEF Bracketed
    <3>2. m.kind # "start" /\ m.kind # "step"
      BY <2>2
    <3>3. Bracketed(out', m.kind = "start" \/ (TRUE /\ m.kind # "end"))
      BY <2>2, <2>3, <3>1, <3>2, BracketedAfter
    <3> QED BY <2>2, <3>3 DEF Bracketed
  <2>6. good => Bracketed(out', run'.bracketOpen)
    BY <2>3, <2>5 DEF Bracketed
  <2> QED BY <1>1, <2>4, <2>5, <2>6 DEF BracketsAre
<1>3. CASE ~(r.bracketOpen /\ ~c.closed)
  <2>1. Wrap(c, "cancelled")
    BY <1>3 DEF FinishRun
  <2>2. good /\ ~c.closed => Bracketed(s, FALSE)
    BY <1>3 DEF Bracketed
  <2>3. good => \E open \in BOOLEAN : Bracketed(s, open)
    BY <1>1
  <2> QED BY <1>0, <2>1, <2>2, <2>3, WrapBrackets
<1> QED BY <1>2, <1>3

LEMMA AdvanceBrackets ==
  ASSUME NEW c, NEW r, Midway(c, r), Advance(c, r),
         NEW s \in Seq(Marks), out = s, NEW good \in BOOLEAN,
         good => Bracketed(s, r.bracketOpen)
  PROVE  /\ out' \in Seq(Marks)
         /\ good => BracketsAre(pacer', run', out')
<1>0. /\ c \in PacerState /\ RunOK(r) /\ r.at \in {"write", "wait"} /\ c.controller # "none"
      /\ c.closed => c.queue = <<>> /\ c.controller # "live"
  BY DEF Midway
<1>1. /\ r \in RunState /\ r.paste \in Paste /\ r.step \in 1 .. Length(r.paste)
      /\ r.bracketOpen <=> Text[r.paste].bracketed /\ r.step < Length(r.paste)
  BY <1>0 DEF RunOK
<1>2. /\ Length(r.paste) \in Nat /\ r.bracketOpen \in BOOLEAN
      /\ Text[r.paste].bracketed \in BOOLEAN
  BY <1>1, TextFacts DEF RunState
<1>3. CASE c.controller = "aborted"
  <2>1. FinishRun(c, r)
    BY <1>3 DEF Advance
  <2> QED BY <1>3, <2>1, FinishBrackets
<1>4. CASE c.controller # "aborted" /\ r.step < Length(r.paste)
  <2>1. WriteStep(c, r, r.paste, r.step + 1)
    BY <1>4 DEF Advance
  <2>2. r.step + 1 \in 1 .. Length(r.paste)
    BY <1>1, <1>2, <1>4
  <2>3. out' \in Seq(Marks)
    BY <1>1, <2>1, <2>2, WritesMarks
  <2>4. r.bracketOpen => Text[r.paste].bracketed
    BY <1>1
  <2>5. good => Bracketed(out', run'.bracketOpen)
    BY <1>1, <2>1, <2>2, <2>4, WriteBrackets
  <2>6. run'.bracketOpen \in BOOLEAN
    <3>1. run'.bracketOpen = (Text[r.paste].bracketed /\ r.step + 1 < Length(r.paste))
      BY <1>1, <2>1 DEF WriteStep, RunState
    <3> QED BY <3>1
  <2> QED BY <2>3, <2>5, <2>6 DEF BracketsAre
<1>5. CASE c.controller # "aborted" /\ ~(r.step < Length(r.paste))
  <2>1. good => Bracketed(s, FALSE)
    BY <1>1, <1>5 DEF Bracketed
  <2>2. CASE c.queue # <<>>
    <3>1. NextPaste(c, report)
      BY <1>5, <2>2 DEF Advance
    <3>2. Ready(c)
      BY <1>5, <2>2, MidwayIsReady
    <3> QED BY <2>1, <3>1, <3>2, NextPasteBrackets
  <2>3. CASE c.queue = <<>>
    <3>1. Wrap(c, "done")
      BY <1>5, <2>3 DEF Advance
    <3>2. FALSE \in BOOLEAN
      OBVIOUS
    <3> QED BY <1>0, <2>1, <3>1, <3>2, WrapBrackets
  <2> QED BY <2>2, <2>3
<1> QED BY <1>3, <1>4, <1>5

LEMMA TurnBrackets ==
  ASSUME CountsInv, BracketsInv, Turn
  PROVE  BracketsInv'
<1>0. /\ pacer \in PacerState /\ (pacer.closed => pacer.queue = <<>>) /\ RunOK(run)
      /\ run \in RunState
  BY DEF CountsInv, CountsOK, RunOK
<1>1. PICK s \in Seq(Marks), good \in BOOLEAN : out = s /\ good = ~broken
  BY DEF BracketsInv
<1>2. /\ good => \E open \in BOOLEAN : Bracketed(s, open)
      /\ good /\ (~pacer.closed \/ run.at # "idle") => Bracketed(s, run.bracketOpen)
  BY <1>1 DEF BracketsInv, BracketsAre
<1>3. CASE WriteDone
  <2>1. PICK c : c = Counted(pacer)
    OBVIOUS
  <2>2. run.at = "write" /\ broken' = broken
    BY <1>3 DEF WriteDone
  <2>3. Midway(c, run) /\ c.closed = pacer.closed /\ c \in PacerState
    BY <2>1, <2>2, CountedFacts DEF Midway
  <2>4. good => Bracketed(s, run.bracketOpen)
    BY <1>2, <2>2
  <2>5. CASE ~Aborted /\ (AwaitsAnswer \/ CurrentStep.delay)
    <3>1. /\ run' = [run EXCEPT !.at = "wait", !.answering = @ \/ AwaitsAnswer]
          /\ pacer' = [c EXCEPT !.reported = TRUE] /\ out' = s
      BY <1>1, <1>3, <2>1, <2>5 DEF WriteDone
    <3>2. run'.bracketOpen = run.bracketOpen
      BY <1>0, <3>1 DEF RunState
    <3> QED BY <1>1, <1>2, <2>2, <2>4, <3>1, <3>2 DEF BracketsInv, BracketsAre
  <2>6. CASE ~(~Aborted /\ (AwaitsAnswer \/ CurrentStep.delay))
    <3>1. Advance(c, run)
      BY <1>3, <2>1, <2>6 DEF WriteDone
    <3>2. out' \in Seq(Marks) /\ (good => BracketsAre(pacer', run', out'))
      BY <1>1, <2>3, <2>4, <3>1, AdvanceBrackets
    <3> QED BY <1>1, <2>2, <3>2 DEF BracketsInv
  <2> QED BY <2>5, <2>6
<1>4. CASE WriteFails
  <2>1. Wrap(pacer, "cancelled") /\ broken' /\ FALSE \in BOOLEAN
    BY <1>4 DEF WriteFails
  <2>2. out' \in Seq(Marks)
    BY <1>0, <1>1, <2>1, WrapBrackets
  <2> QED BY <2>1, <2>2 DEF BracketsInv
<1>5. CASE WaitDone
  <2>1. run.at = "wait" /\ broken' = broken /\ Advance(pacer, run)
    BY <1>5 DEF WaitDone
  <2>2. Midway(pacer, run)
    BY <2>1, WaitedFacts
  <2>3. good => Bracketed(s, run.bracketOpen)
    BY <1>2, <2>1
  <2>4. out' \in Seq(Marks) /\ (good => BracketsAre(pacer', run', out'))
    BY <1>1, <2>1, <2>2, <2>3, AdvanceBrackets
  <2> QED BY <1>1, <2>1, <2>4 DEF BracketsInv
<1>6. CASE Rejected
  <2>1. /\ run.at = "wait" /\ run.answering /\ run' = Idle /\ out' = s /\ broken' = broken
    BY <1>1, <1>6 DEF Rejected
  <2>2. run.paste \in Paste /\ Text[run.paste].prompt
        /\ (run.bracketOpen <=> Text[run.paste].bracketed /\ run.step < Length(run.paste))
    BY <1>0, <2>1 DEF RunOK
  <2>3. ~run.bracketOpen
    BY <2>2, TextFacts
  <2>4. ~Idle.bracketOpen
    BY DEF Idle
  <2>5. good => Bracketed(s, Idle.bracketOpen)
    BY <1>2, <2>1, <2>3, <2>4 DEF Bracketed
  <2> QED BY <1>1, <1>2, <2>1, <2>5 DEF BracketsInv, BracketsAre
<1>7. CASE BracketClosed
  <2>1. run.at = "end" /\ broken' = broken /\ Wrap(pacer, "cancelled")
    BY <1>7 DEF BracketClosed
  <2>2. ~run.bracketOpen
    BY <1>0, <2>1 DEF RunOK
  <2>3. good => Bracketed(s, FALSE)
    BY <1>2, <2>1, <2>2 DEF Bracketed
  <2>4. FALSE \in BOOLEAN
    OBVIOUS
  <2>5. out' \in Seq(Marks) /\ (good => BracketsAre(pacer', run', out'))
    BY <1>0, <1>1, <2>1, <2>3, <2>4, WrapBrackets
  <2> QED BY <1>1, <2>1, <2>5 DEF BracketsInv
<1> QED BY <1>3, <1>4, <1>5, <1>6, <1>7 DEF Turn

LEMMA CallBrackets ==
  ASSUME CountsInv, BracketsInv, (\E p \in Paste : Enqueue(p)) \/ Cancel \/ Close
  PROVE  BracketsInv'
<1>0. pacer \in PacerState /\ (pacer.controller = "none" <=> run.at = "idle") /\ RunOK(run)
  BY DEF CountsInv, CountsOK
<1>1. PICK s \in Seq(Marks), good \in BOOLEAN : out = s /\ good = ~broken
  BY DEF BracketsInv
<1>2. /\ good => \E open \in BOOLEAN : Bracketed(s, open)
      /\ good /\ (~pacer.closed \/ run.at # "idle") => Bracketed(s, run.bracketOpen)
  BY <1>1 DEF BracketsInv, BracketsAre
<1>3. CASE \E p \in Paste : Enqueue(p)
  <2>1. PICK p \in Paste : Enqueue(p)
    BY <1>3
  <2>2. ~pacer.closed /\ broken' = broken
    BY <2>1 DEF Enqueue
  <2>3. CASE pacer.controller = "none"
    <3>1. PICK d : Ready(d) /\ NextPaste(d, report)
      BY <2>1, <2>3, EnqueueMoves
    <3>2. run = Idle /\ ~Idle.bracketOpen
      BY <1>0, <2>3 DEF RunOK, Idle
    <3>3. good => Bracketed(s, FALSE)
      BY <1>2, <2>2, <3>2 DEF Bracketed
    <3>4. out' \in Seq(Marks) /\ (good => BracketsAre(pacer', run', out'))
      BY <1>1, <3>1, <3>3, NextPasteBrackets
    <3> QED BY <1>1, <2>2, <3>4 DEF BracketsInv
  <2>4. CASE pacer.controller # "none"
    <3>1. run' = run /\ out' = s /\ pacer'.closed = pacer.closed
      BY <1>1, <2>1, <2>4, EnqueueMoves
    <3> QED BY <1>1, <1>2, <2>2, <3>1 DEF BracketsInv, BracketsAre
  <2> QED BY <2>3, <2>4
<1>4. CASE Cancel \/ Close
  <2>1. run' = run /\ out' = s /\ broken' = broken
    BY <1>1, <1>4 DEF Cancel, Close
  <2>2. pacer'.closed \/ pacer'.closed = pacer.closed
    BY <1>0, <1>4 DEF Cancel, Close, Cancelled, PacerState
  <2> QED BY <1>1, <1>2, <2>1, <2>2 DEF BracketsInv, BracketsAre
<1> QED BY <1>3, <1>4

LEMMA BracketsStep == CountsInv /\ BracketsInv /\ [PacerNext]_pacerVars => BracketsInv'
<1>1. SUFFICES ASSUME CountsInv, BracketsInv, [PacerNext]_pacerVars
               PROVE  BracketsInv'
  OBVIOUS
<1>2. CASE UNCHANGED pacerVars
  BY <1>1, <1>2 DEF pacerVars, BracketsInv, BracketsAre
<1>3. CASE PacerNext
  BY <1>1, <1>3, CallBrackets, TurnBrackets DEF PacerNext
<1> QED BY <1>1, <1>2, <1>3

LEMMA BracketsInit == PacerInit => BracketsInv
<1>1. SUFFICES ASSUME PacerInit
               PROVE  BracketsInv
  OBVIOUS
<1>2. out = <<>> /\ run = Idle
  BY <1>1 DEF PacerInit
<1>6. <<>> \in Seq(Marks)
  OBVIOUS
<1>3. Bracketed(<<>>, FALSE)
  BY DEF Bracketed, Opened
<1>4. Bracketed(<<>>, Idle.bracketOpen)
  BY <1>3 DEF Idle
<1>5. FALSE \in BOOLEAN
  OBVIOUS
<1> QED BY <1>2, <1>3, <1>4, <1>5, <1>6 DEF BracketsInv, BracketsAre

(* The order, and what was dropped *)

Before(order, p, q) == \E i, j \in 1 .. Len(order) : i < j /\ order[i] = p /\ order[j] = q

HasTyped(s, p) == \E i \in 1 .. Len(s) : s[i].kind = "step" /\ s[i].paste = p

\* The step typed at i is the last one of s.
LastAt(s, i) ==
  /\ i \in 1 .. Len(s) /\ s[i].kind = "step"
  /\ \A k \in i + 1 .. Len(s) : s[k].kind # "step"

\* m may be typed right after n.
Follows(m, n, order) ==
  \/ m.paste = n.paste /\ m.step = n.step + 1
  \/ m.step = 1 /\ Before(order, n.paste, m.paste)

\* m may be typed at the end of s.
MayFollow(s, m, order) == \A i : LastAt(s, i) => Follows(m, s[i], order)

\* What is typed at j is the next after what is typed at i.
NextTyped(s, i, j) ==
  /\ i < j /\ s[i].kind = "step" /\ s[j].kind = "step"
  /\ \A k \in i + 1 .. j - 1 : s[k].kind # "step"

InOrder(s, order) ==
  \A i, j \in 1 .. Len(s) : NextTyped(s, i, j) => Follows(s[j], s[i], order)

\* What is queued was sent after all that is typed, in the order of the queue, and
\* none of it was dropped.
OrderOK(queue, s, order, gone) ==
  /\ s \in Seq(Marks) /\ order \in Seq(Paste) /\ gone \subseteq Range(order)
  /\ \A p : HasTyped(s, p) => p \in Range(order)
  /\ \A i \in 1 .. Len(queue) :
       /\ queue[i] \in Range(order) \ gone
       /\ \A p : HasTyped(s, p) => Before(order, p, queue[i])
       /\ \A j \in 1 .. i - 1 : Before(order, queue[j], queue[i])
  /\ InOrder(s, order)

\* The run is at the last step that was typed; while it is not cancelled its paste
\* was not dropped.
RunTyped(r, controller, s, gone) ==
  r.at # "idle" =>
    /\ \E i \in 1 .. Len(s) : LastAt(s, i) /\ s[i] = Mark("step", r.paste, r.step)
    /\ controller = "live" => r.paste \notin gone

OrderNow(c, r, s, order, gone) ==
  OrderOK(c.queue, s, order, gone) /\ RunTyped(r, c.controller, s, gone)

OrderInv == OrderNow(pacer, run, out, pasted, dropped)

\* Nothing of what t adds to s was dropped.
NoneDropped(s, t, gone) ==
  \A i \in Len(s) + 1 .. Len(t) : t[i].kind = "step" => t[i].paste \notin gone

\* A bracket changes nothing of what is typed.
LEMMA OrderAfterBracket ==
  ASSUME NEW s \in Seq(Marks), NEW m \in Marks, m.kind # "step", NEW t, t = Append(s, m),
         NEW order
  PROVE  /\ InOrder(s, order) => InOrder(t, order)
         /\ \A p : HasTyped(t, p) <=> HasTyped(s, p)
         /\ \A i : LastAt(t, i) <=> LastAt(s, i)
<1>1. /\ Len(s) \in Nat /\ Len(t) = Len(s) + 1
      /\ t[Len(s) + 1] = m /\ \A i \in 1 .. Len(s) : t[i] = s[i]
  BY OneMore
<1>2. \A i \in 1 .. Len(t) : t[i].kind = "step" => i \in 1 .. Len(s)
  BY <1>1
<1>3. ASSUME InOrder(s, order)
      PROVE  InOrder(t, order)
  <2>1. SUFFICES ASSUME NEW i \in 1 .. Len(t), NEW j \in 1 .. Len(t), NextTyped(t, i, j)
                 PROVE  Follows(t[j], t[i], order)
    BY DEF InOrder
  <2>2. i \in 1 .. Len(s) /\ j \in 1 .. Len(s) /\ t[i] = s[i] /\ t[j] = s[j]
    BY <1>1, <1>2, <2>1 DEF NextTyped
  <2>3. \A k \in i + 1 .. j - 1 : t[k] = s[k]
    BY <1>1, <2>2
  <2>4. NextTyped(s, i, j)
    BY <2>1, <2>2, <2>3 DEF NextTyped
  <2> QED BY <1>3, <2>2, <2>4 DEF InOrder
<1>4. \A p : HasTyped(t, p) <=> HasTyped(s, p)
  <2>1. \A i \in 1 .. Len(s) : i \in 1 .. Len(t)
    BY <1>1
  <2> QED BY <1>1, <1>2, <2>1 DEF HasTyped
<1>5. ASSUME NEW i
      PROVE  LastAt(t, i) <=> LastAt(s, i)
  <2>1. ASSUME LastAt(t, i)
        PROVE  LastAt(s, i)
    <3>1. i \in 1 .. Len(s)
      BY <1>2, <2>1 DEF LastAt
    <3>2. \A k \in i + 1 .. Len(s) : k \in i + 1 .. Len(t) /\ t[k] = s[k]
      BY <1>1, <3>1
    <3> QED BY <1>1, <2>1, <3>1, <3>2 DEF LastAt
  <2>2. ASSUME LastAt(s, i)
        PROVE  LastAt(t, i)
    <3>1. i \in 1 .. Len(s) /\ i \in 1 .. Len(t)
      BY <1>1, <2>2 DEF LastAt
    <3>2. \A k \in i + 1 .. Len(t) : k \in i + 1 .. Len(s) \/ k = Len(s) + 1
      BY <1>1, <3>1
    <3>3. \A k \in i + 1 .. Len(t) : t[k].kind # "step"
      <4>1. SUFFICES ASSUME NEW k \in i + 1 .. Len(t)
                     PROVE  t[k].kind # "step"
        OBVIOUS
      <4>2. CASE k \in i + 1 .. Len(s)
        <5>1. t[k] = s[k]
          BY <1>1, <3>1, <4>2
        <5> QED BY <2>2, <4>2, <5>1 DEF LastAt
      <4>3. CASE k = Len(s) + 1
        BY <1>1, <4>3
      <4> QED BY <3>2, <4>2, <4>3
    <3>4. t[i].kind = "step"
      BY <1>1, <2>2, <3>1 DEF LastAt
    <3> QED BY <3>1, <3>3, <3>4 DEF LastAt
  <2> QED BY <2>1, <2>2
<1> QED BY <1>3, <1>4, <1>5

\* t ends with the step m, and has no other than s.
EndsWith(s, t, m, order) ==
  /\ InOrder(t, order)
  /\ \A p : HasTyped(t, p) <=> HasTyped(s, p) \/ p = m.paste
  /\ LastAt(t, Len(t)) /\ t[Len(t)] = m

LEMMA OrderAfterStep ==
  ASSUME NEW s \in Seq(Marks), NEW m \in Marks, m.kind = "step", NEW t, t = Append(s, m),
         NEW order, InOrder(s, order), MayFollow(s, m, order)
  PROVE  EndsWith(s, t, m, order)
<1>1. /\ Len(s) \in Nat /\ Len(t) = Len(s) + 1
      /\ t[Len(s) + 1] = m /\ \A i \in 1 .. Len(s) : t[i] = s[i]
  BY OneMore
<1>2. SUFFICES /\ InOrder(t, order)
               /\ \A p : HasTyped(t, p) <=> HasTyped(s, p) \/ p = m.paste
  <2>1. Len(t) \in 1 .. Len(t) /\ t[Len(t)] = m /\ \A k \in Len(t) + 1 .. Len(t) : FALSE
    BY <1>1
  <2> QED BY <2>1 DEF LastAt, EndsWith
<1>3. InOrder(t, order)
  <2>1. SUFFICES ASSUME NEW i \in 1 .. Len(t), NEW j \in 1 .. Len(t), NextTyped(t, i, j)
                 PROVE  Follows(t[j], t[i], order)
    BY DEF InOrder
  <2>2. i < j /\ i \in 1 .. Len(s) /\ t[i] = s[i] /\ s[i].kind = "step"
    BY <1>1, <2>1 DEF NextTyped
  <2>3. \A k \in i + 1 .. j - 1 : k \in 1 .. Len(s) /\ t[k] = s[k] /\ s[k].kind # "step"
    BY <1>1, <2>1, <2>2 DEF NextTyped
  <2>4. CASE j \in 1 .. Len(s)
    <3>1. t[j] = s[j]
      BY <1>1, <2>4
    <3>2. NextTyped(s, i, j)
      BY <2>1, <2>2, <2>3, <3>1 DEF NextTyped
    <3> QED BY <2>2, <2>4, <3>1, <3>2 DEF InOrder
  <2>5. CASE j = Len(s) + 1
    <3>1. \A k \in i + 1 .. Len(s) : k \in i + 1 .. j - 1
      BY <1>1, <2>5
    <3>2. LastAt(s, i)
      BY <2>2, <2>3, <3>1 DEF LastAt
    <3> QED BY <1>1, <2>2, <2>5, <3>2 DEF MayFollow
  <2> QED BY <1>1, <2>4, <2>5
<1>4. ASSUME NEW p
      PROVE  HasTyped(t, p) <=> HasTyped(s, p) \/ p = m.paste
  <2>1. ASSUME HasTyped(t, p)
        PROVE  HasTyped(s, p) \/ p = m.paste
    <3>1. PICK i \in 1 .. Len(t) : t[i].kind = "step" /\ t[i].paste = p
      BY <2>1 DEF HasTyped
    <3>2. i \in 1 .. Len(s) \/ i = Len(s) + 1
      BY <1>1
    <3> QED BY <1>1, <3>1, <3>2 DEF HasTyped
  <2>2. ASSUME HasTyped(s, p)
        PROVE  HasTyped(t, p)
    <3>1. PICK i \in 1 .. Len(s) : s[i].kind = "step" /\ s[i].paste = p
      BY <2>2 DEF HasTyped
    <3>2. i \in 1 .. Len(t) /\ t[i] = s[i]
      BY <1>1
    <3> QED BY <3>1, <3>2 DEF HasTyped
  <2>3. ASSUME p = m.paste
        PROVE  HasTyped(t, p)
    <3>1. Len(t) \in 1 .. Len(t) /\ t[Len(t)] = m
      BY <1>1
    <3> QED BY <2>3, <3>1 DEF HasTyped
  <2> QED BY <2>1, <2>2, <2>3
<1> QED BY <1>3, <1>4

\* What t adds to s types step i of p, and nothing else.
Types(s, t, p, i, order) ==
  /\ t \in Seq(Marks) /\ InOrder(t, order)
  /\ \A q : HasTyped(t, q) <=> HasTyped(s, q) \/ q = p
  /\ \E k \in 1 .. Len(t) : LastAt(t, k) /\ t[k] = Mark("step", p, i)
  /\ \A k \in Len(s) + 1 .. Len(t) : t[k].kind = "step" => t[k].paste = p

LEMMA WriteOrder ==
  ASSUME NEW s \in Seq(Marks), NEW c, NEW r \in RunState, NEW p \in Paste,
         NEW i \in 1 .. Length(p), out = s, WriteStep(c, r, p, i), NEW order,
         InOrder(s, order), MayFollow(s, Mark("step", p, i), order)
  PROVE  Types(s, out', p, i, order)
<1>1. PICK s1 \in Seq(Marks), s2 \in Seq(Marks) :
        Writes(s, s1, s2, out', p, i, r.bracketOpen) /\ out' \in Seq(Marks)
  BY WritesMarks
<1>2. PICK a, b, e : /\ a = Mark("start", p, 0) /\ a \in Marks /\ a.kind = "start"
                     /\ b = Mark("step", p, i) /\ b \in Marks /\ b.kind = "step" /\ b.paste = p
                     /\ e = Mark("end", p, 0) /\ e \in Marks /\ e.kind = "end"
  BY MarksOf
<1>3. PICK t : t = out'
  OBVIOUS
<1>4. s1 = s \/ s1 = Append(s, a)
  BY <1>1, <1>2 DEF Writes
<1>5. s2 = Append(s1, b)
  BY <1>1, <1>2 DEF Writes
<1>6. t = s2 \/ t = Append(s2, e)
  BY <1>1, <1>2, <1>3 DEF Writes
<1>7. a.kind # "step" /\ e.kind # "step"
  BY <1>2
<1>8. /\ InOrder(s1, order) /\ \A q : HasTyped(s1, q) <=> HasTyped(s, q)
      /\ \A k : LastAt(s1, k) <=> LastAt(s, k)
  BY <1>2, <1>4, <1>7, OrderAfterBracket
<1>9. MayFollow(s1, b, order)
  <2>1. SUFFICES ASSUME NEW k, LastAt(s1, k)
                 PROVE  Follows(b, s1[k], order)
    BY DEF MayFollow
  <2>2. LastAt(s, k) /\ k \in 1 .. Len(s)
    BY <1>8, <2>1 DEF LastAt
  <2>3. s1[k] = s[k]
    BY <1>2, <1>4, <2>2, OneMore
  <2> QED BY <1>2, <2>2, <2>3 DEF MayFollow
<1>10. /\ InOrder(s2, order) /\ \A q : HasTyped(s2, q) <=> HasTyped(s1, q) \/ q = p
       /\ LastAt(s2, Len(s2)) /\ s2[Len(s2)] = b
  <2>1. b \in Marks /\ b.kind = "step" /\ b.paste = p /\ InOrder(s1, order)
    BY <1>2, <1>8
  <2>2. EndsWith(s1, s2, b, order)
    BY <1>5, <1>9, <2>1, OrderAfterStep
  <2> QED BY <2>1, <2>2 DEF EndsWith
<1>11. /\ InOrder(t, order) /\ \A q : HasTyped(t, q) <=> HasTyped(s2, q)
       /\ \A k : LastAt(t, k) <=> LastAt(s2, k)
  BY <1>2, <1>6, <1>7, <1>10, OrderAfterBracket
<1>12. \A q : HasTyped(t, q) <=> HasTyped(s, q) \/ q = p
  BY <1>8, <1>10, <1>11
<1>13. /\ Len(s) \in Nat /\ Len(s2) \in Nat
       /\ Len(s1) \in {Len(s), Len(s) + 1} /\ \A k \in 1 .. Len(s) : s1[k] = s[k]
       /\ Len(s1) = Len(s) + 1 => s1[Len(s) + 1] = a
  <2>1. Len(s) \in Nat /\ Len(s2) \in Nat
    BY <1>1, LenProperties
  <2> QED BY <1>2, <1>4, <2>1, OneMore
<1>14. Len(s2) = Len(s1) + 1 /\ s2[Len(s1) + 1] = b /\ \A k \in 1 .. Len(s1) : s2[k] = s1[k]
  BY <1>1, <1>2, <1>5, OneMore
<1>15. /\ Len(t) \in {Len(s2), Len(s2) + 1} /\ \A k \in 1 .. Len(s2) : t[k] = s2[k]
       /\ Len(t) = Len(s2) + 1 => t[Len(s2) + 1] = e
  BY <1>1, <1>2, <1>6, <1>13, OneMore
<1>16. \E k \in 1 .. Len(t) : LastAt(t, k) /\ t[k] = b
  <2>1. Len(s2) \in 1 .. Len(t) /\ Len(s2) \in 1 .. Len(s2)
    BY <1>13, <1>14, <1>15
  <2> QED BY <1>10, <1>11, <1>15, <2>1
<1>17. \A k \in Len(s) + 1 .. Len(t) : t[k].kind = "step" => t[k].paste = p
  <2>1. SUFFICES ASSUME NEW k \in Len(s) + 1 .. Len(t)
                 PROVE  t[k] = a \/ t[k] = b \/ t[k] = e
    BY <1>2, <1>7
  <2>2. CASE k \in 1 .. Len(s1)
    <3>1. k = Len(s) + 1 /\ Len(s1) = Len(s) + 1
      BY <1>13, <2>2
    <3>2. k \in 1 .. Len(s2)
      BY <1>13, <1>14, <2>2
    <3> QED BY <1>13, <1>14, <1>15, <2>2, <3>1, <3>2
  <2>3. CASE k = Len(s1) + 1
    <3>1. k \in 1 .. Len(s2)
      BY <1>13, <1>14, <2>3
    <3> QED BY <1>14, <1>15, <2>3, <3>1
  <2>4. CASE k = Len(s2) + 1
    <3>1. Len(t) = Len(s2) + 1
      BY <1>13, <1>15, <2>4
    <3> QED BY <1>15, <2>4, <3>1
  <2> QED BY <1>13, <1>14, <1>15, <2>2, <2>3, <2>4
<1> QED BY <1>1, <1>2, <1>3, <1>11, <1>12, <1>16, <1>17 DEF Types

LEMMA BeforeIsSent ==
  ASSUME NEW order \in Seq(Paste), NEW p, NEW q, Before(order, p, q)
  PROVE  p \in Range(order) /\ q \in Range(order)
  BY DEF Before, Range

\* The last step is one.
LEMMA LastIsOne ==
  ASSUME NEW s \in Seq(Marks), NEW i, NEW j, LastAt(s, i), LastAt(s, j)
  PROVE  i = j
<1>1. i \in 1 .. Len(s) /\ j \in 1 .. Len(s) /\ Len(s) \in Nat
  BY LenProperties DEF LastAt
<1>2. i < j => j \in i + 1 .. Len(s)
  BY <1>1
<1>3. j < i => i \in j + 1 .. Len(s)
  BY <1>1
<1>4. ~(i < j) /\ ~(j < i)
  BY <1>2, <1>3 DEF LastAt
<1> QED BY <1>1, <1>4

LEMMA NextPasteOrder ==
  ASSUME NEW c, Ready(c), NEW said, NextPaste(c, said), NEW s, out = s, NEW order,
         OrderOK(c.queue, s, order, dropped)
  PROVE  OrderNow(pacer', run', out', order, dropped') /\ NoneDropped(s, out', dropped)
<1> DEFINE p == Head(c.queue)
           rest == Tail(c.queue)
<1>1. c \in PacerState /\ c.queue # <<>> /\ c.queue \in Seq(Paste)
  BY PacerFields DEF Ready
<1>2. /\ Len(c.queue) \in Nat /\ 1 \in 1 .. Len(c.queue) /\ p = c.queue[1] /\ p \in Paste
      /\ rest \in Seq(Paste) /\ Len(rest) \in Nat /\ Len(rest) + 1 = Len(c.queue)
      /\ \A i \in 1 .. Len(rest) : rest[i] = c.queue[i + 1] /\ i + 1 \in 1 .. Len(c.queue)
  BY <1>1
<1>3. /\ s \in Seq(Marks) /\ order \in Seq(Paste) /\ dropped \subseteq Range(order)
      /\ \A q : HasTyped(s, q) => q \in Range(order)
      /\ InOrder(s, order)
  BY DEF OrderOK
<1>4. \A i \in 1 .. Len(c.queue) :
        /\ c.queue[i] \in Range(order) \ dropped
        /\ \A q : HasTyped(s, q) => Before(order, q, c.queue[i])
        /\ \A j \in 1 .. i - 1 : Before(order, c.queue[j], c.queue[i])
  BY DEF OrderOK
<1>5. p \in Range(order) \ dropped /\ \A q : HasTyped(s, q) => Before(order, q, p)
  BY <1>2, <1>4
<1>6. CASE Text[p].compiles
  <2>1. PICK d : d = [c EXCEPT !.queue = Tail(@), !.controller = "live"]
    OBVIOUS
  <2>2. WriteStep(d, Idle, p, 1) /\ dropped' = dropped
    BY <1>6, <2>1 DEF NextPaste
  <2>3. d.queue = rest
    BY <1>1, <2>1 DEF PacerState
  <2>4. Idle \in RunState
    BY DEF Idle, RunState
  <2>5. 1 \in 1 .. Length(p) /\ Mark("step", p, 1).paste = p /\ Mark("step", p, 1).step = 1
    BY <1>2, TextFacts DEF Mark
  <2>6. MayFollow(s, Mark("step", p, 1), order)
    <3>1. \A k : LastAt(s, k) => HasTyped(s, s[k].paste)
      BY DEF LastAt, HasTyped
    <3> QED BY <1>5, <2>5, <3>1 DEF MayFollow, Follows
  <2>7. pacer' = d /\ run'.paste = p /\ run'.step = 1
    BY <2>2, <2>4 DEF WriteStep, RunState
  <2> HIDE DEF p, rest
  <2>8. /\ out' \in Seq(Marks) /\ InOrder(out', order)
        /\ \A q : HasTyped(out', q) <=> HasTyped(s, q) \/ q = p
        /\ \E k \in 1 .. Len(out') : LastAt(out', k) /\ out'[k] = Mark("step", p, 1)
        /\ \A k \in Len(s) + 1 .. Len(out') : out'[k].kind = "step" => out'[k].paste = p
    <3>1. Types(s, out', p, 1, order)
      BY <1>2, <1>3, <2>2, <2>4, <2>5, <2>6, WriteOrder
    <3> QED BY <3>1 DEF Types
  <2>9. \A q : HasTyped(out', q) => q \in Range(order)
    BY <1>3, <1>5, <2>8
  <2>10. ASSUME NEW i \in 1 .. Len(rest)
         PROVE  /\ rest[i] \in Range(order) \ dropped
                /\ \A q : HasTyped(out', q) => Before(order, q, rest[i])
                /\ \A j \in 1 .. i - 1 : Before(order, rest[j], rest[i])
    <3>1. rest[i] = c.queue[i + 1] /\ i + 1 \in 1 .. Len(c.queue) /\ i \in Nat
      BY <1>2
    <3>2. 1 \in 1 .. (i + 1) - 1
      BY <3>1
    <3>3. Before(order, p, rest[i])
      BY <1>2, <1>4, <3>1, <3>2
    <3>4. \A q : HasTyped(out', q) => Before(order, q, rest[i])
      BY <1>4, <2>8, <3>1, <3>3
    <3>5. ASSUME NEW j \in 1 .. i - 1
          PROVE  Before(order, rest[j], rest[i])
      <4>0. Len(rest) \in Nat /\ i <= Len(rest)
        BY <1>2
      <4>1. j \in 1 .. Len(rest) /\ j + 1 \in 1 .. (i + 1) - 1
        BY <3>1, <4>0
      <4> QED BY <1>2, <1>4, <3>1, <4>1
    <3> QED BY <1>4, <3>1, <3>4, <3>5
  <2>11. OrderOK(pacer'.queue, out', order, dropped')
    <3>1. OrderOK(rest, out', order, dropped)
      BY <1>3, <2>8, <2>9, <2>10 DEF OrderOK
    <3> QED BY <2>2, <2>3, <2>7, <3>1
  <2>12. RunTyped(run', pacer'.controller, out', dropped')
    BY <1>5, <2>2, <2>7, <2>8 DEF RunTyped
  <2>13. NoneDropped(s, out', dropped)
    BY <1>5, <2>8 DEF NoneDropped
  <2> QED BY <2>11, <2>12, <2>13 DEF OrderNow
<1>7. CASE ~Text[p].compiles
  <2>1. PICK d : d = [c EXCEPT !.queue = <<>>]
    OBVIOUS
  <2>2. /\ pacer' = Recounted(d) /\ run' = Idle /\ out' = s
        /\ dropped' = dropped \union Range(c.queue)
    BY <1>7, <2>1 DEF NextPaste
  <2>3. d \in PacerState /\ d.queue = <<>>
    <3>1. <<>> \in Seq(Paste)
      OBVIOUS
    <3> QED BY <1>1, <2>1, <3>1 DEF PacerState
  <2>4. pacer'.queue = <<>>
    BY <2>2, <2>3, RecountedCounts
  <2>5. Range(c.queue) \subseteq Range(order)
    <3>1. DOMAIN c.queue = 1 .. Len(c.queue)
      BY <1>1
    <3>2. Range(c.queue) = {c.queue[i] : i \in 1 .. Len(c.queue)}
      BY <3>1 DEF Range
    <3> QED BY <1>4, <3>2
  <2>6. OrderOK(pacer'.queue, out', order, dropped')
    <3>1. Len(pacer'.queue) = 0
      BY <2>4
    <3>2. dropped' \subseteq Range(order)
      BY <1>3, <2>2, <2>5
    <3> QED BY <1>3, <2>2, <3>1, <3>2 DEF OrderOK
  <2>7. Idle.at = "idle"
    BY DEF Idle
  <2>8. Len(s) \in Nat
    BY <1>3, LenProperties
  <2> QED BY <2>2, <2>6, <2>7, <2>8 DEF OrderNow, RunTyped, NoneDropped
<1> QED BY <1>6, <1>7

LEMMA NothingTyped ==
  ASSUME NEW s \in Seq(Marks), NEW gone
  PROVE  NoneDropped(s, s, gone)
  BY LenProperties DEF NoneDropped

LEMMA WrapOrder ==
  ASSUME NEW c \in PacerState, c.closed => c.queue = <<>>, NEW state, Wrap(c, state),
         NEW s, out = s, NEW order, OrderOK(c.queue, s, order, dropped)
  PROVE  OrderNow(pacer', run', out', order, dropped') /\ NoneDropped(s, out', dropped)
<1>0. s \in Seq(Marks)
  BY DEF OrderOK
<1>1. CASE c.closed \/ c.queue = <<>>
  <2>1. pacer' = Recounted(c) /\ run' = Idle /\ out' = s /\ dropped' = dropped
    BY <1>1 DEF Wrap, RunEnds
  <2>2. pacer'.queue = c.queue
    BY <2>1, RecountedCounts
  <2>3. Idle.at = "idle"
    BY DEF Idle
  <2> QED BY <1>0, <2>1, <2>2, <2>3, NothingTyped DEF OrderNow, RunTyped
<1>2. CASE ~(c.closed \/ c.queue = <<>>)
  <2>1. NextPaste(Recounted(c), Report(c, state))
    BY <1>2 DEF Wrap
  <2>2. Ready(Recounted(c)) /\ Recounted(c).queue = c.queue
    BY <1>2, RecountedCounts
  <2> QED BY <2>1, <2>2, NextPasteOrder
<1> QED BY <1>1, <1>2

LEMMA FinishOrder ==
  ASSUME NEW c, NEW r, Midway(c, r), c.controller = "aborted", FinishRun(c, r),
         NEW s, out = s, NEW order, OrderNow(c, r, s, order, dropped)
  PROVE  OrderNow(pacer', run', out', order, dropped') /\ NoneDropped(s, out', dropped)
<1>0. /\ c \in PacerState /\ RunOK(r) /\ r.at \in {"write", "wait"}
      /\ c.closed => c.queue = <<>>
  BY DEF Midway
<1>1. r \in RunState /\ r.paste \in Paste /\ s \in Seq(Marks)
  BY <1>0 DEF RunOK, OrderNow, OrderOK
<1>2. CASE r.bracketOpen /\ ~c.closed
  <2>1. PICK m : m = Mark("end", r.paste, 0)
    OBVIOUS
  <2>2. m \in Marks /\ m.kind # "step"
    BY <1>1, <2>1 DEF Mark, Marks
  <2>3. /\ out' = Append(s, m) /\ run'.paste = r.paste /\ run'.step = r.step
        /\ pacer' = c /\ dropped' = dropped
    BY <1>1, <1>2, <2>1 DEF FinishRun, CloseBracket, RunState
  <2>4. PICK t : t = out'
    OBVIOUS
  <2>5. /\ InOrder(s, order) => InOrder(t, order)
        /\ \A p : HasTyped(t, p) <=> HasTyped(s, p)
        /\ \A i : LastAt(t, i) <=> LastAt(s, i)
    BY <1>1, <2>2, <2>3, <2>4, OrderAfterBracket
  <2>6. /\ t \in Seq(Marks) /\ Len(s) \in Nat /\ Len(t) = Len(s) + 1
        /\ t[Len(s) + 1] = m /\ \A i \in 1 .. Len(s) : t[i] = s[i]
    BY <1>1, <2>2, <2>3, <2>4, OneMore
  <2>7. OrderOK(c.queue, t, order, dropped)
    BY <2>5, <2>6 DEF OrderNow, OrderOK
  <2>8. RunTyped(run', c.controller, t, dropped)
    <3>1. PICK i \in 1 .. Len(s) : LastAt(s, i) /\ s[i] = Mark("step", r.paste, r.step)
      BY <1>0 DEF OrderNow, RunTyped
    <3>2. i \in 1 .. Len(t) /\ LastAt(t, i) /\ t[i] = Mark("step", r.paste, r.step)
      BY <2>5, <2>6, <3>1
    <3> QED BY <2>3, <3>2 DEF RunTyped
  <2>9. NoneDropped(s, t, dropped)
    BY <2>2, <2>6 DEF NoneDropped
  <2> QED BY <2>3, <2>4, <2>7, <2>8, <2>9 DEF OrderNow
<1>3. CASE ~(r.bracketOpen /\ ~c.closed)
  <2>1. Wrap(c, "cancelled")
    BY <1>3 DEF FinishRun
  <2> QED BY <1>0, <2>1, WrapOrder DEF OrderNow
<1> QED BY <1>2, <1>3

LEMMA AdvanceOrder ==
  ASSUME NEW c, NEW r, Midway(c, r), Advance(c, r),
         NEW s, out = s, NEW order, OrderNow(c, r, s, order, dropped)
  PROVE  OrderNow(pacer', run', out', order, dropped') /\ NoneDropped(s, out', dropped)
<1>0. /\ c \in PacerState /\ RunOK(r) /\ r.at \in {"write", "wait"} /\ c.controller # "none"
      /\ c.closed => c.queue = <<>>
  BY DEF Midway
<1>1. /\ r \in RunState /\ r.paste \in Paste /\ r.step \in 1 .. Length(r.paste)
      /\ Length(r.paste) \in Nat
  BY <1>0, TextFacts DEF RunOK
<1>2. CASE c.controller = "aborted"
  <2>1. FinishRun(c, r)
    BY <1>2 DEF Advance
  <2> QED BY <1>2, <2>1, FinishOrder
<1>3. CASE c.controller # "aborted" /\ r.step < Length(r.paste)
  <2>1. PICK n : n = r.step + 1
    OBVIOUS
  <2>2. WriteStep(c, r, r.paste, n)
    BY <1>3, <2>1 DEF Advance
  <2>3. n \in 1 .. Length(r.paste)
    BY <1>1, <1>3, <2>1
  <2>4. /\ s \in Seq(Marks) /\ order \in Seq(Paste) /\ dropped \subseteq Range(order)
        /\ \A p : HasTyped(s, p) => p \in Range(order)
        /\ InOrder(s, order)
    BY DEF OrderNow, OrderOK
  <2>5. PICK i \in 1 .. Len(s) : LastAt(s, i) /\ s[i] = Mark("step", r.paste, r.step)
    BY <1>0 DEF OrderNow, RunTyped
  <2>6. c.controller = "live"
    BY <1>0, <1>3 DEF PacerState, Controllers
  <2>7. r.paste \notin dropped
    BY <1>0, <2>6 DEF OrderNow, RunTyped
  <2>8. HasTyped(s, r.paste)
    BY <2>5 DEF HasTyped, Mark
  <2>9. MayFollow(s, Mark("step", r.paste, n), order)
    <3>1. SUFFICES ASSUME NEW k, LastAt(s, k)
                   PROVE  Follows(Mark("step", r.paste, n), s[k], order)
      BY DEF MayFollow
    <3>2. k = i
      BY <2>4, <2>5, <3>1, LastIsOne
    <3> QED BY <2>1, <2>5, <3>2 DEF Follows, Mark
  <2>10. /\ out' \in Seq(Marks) /\ InOrder(out', order)
         /\ \A q : HasTyped(out', q) <=> HasTyped(s, q) \/ q = r.paste
         /\ \E k \in 1 .. Len(out') : LastAt(out', k) /\ out'[k] = Mark("step", r.paste, n)
         /\ \A k \in Len(s) + 1 .. Len(out') : out'[k].kind = "step" => out'[k].paste = r.paste
    <3>1. Types(s, out', r.paste, n, order)
      BY <1>1, <2>2, <2>3, <2>4, <2>9, WriteOrder
    <3> QED BY <3>1 DEF Types
  <2>11. \A q : HasTyped(out', q) <=> HasTyped(s, q)
    BY <2>8, <2>10
  <2>12. /\ pacer' = c /\ run'.paste = r.paste /\ run'.step = n /\ dropped' = dropped
    <3>1. dropped' = dropped
      BY <1>3 DEF Advance
    <3> QED BY <1>1, <2>2, <3>1 DEF WriteStep, RunState
  <2>13. OrderOK(c.queue, out', order, dropped)
    BY <2>10, <2>11 DEF OrderNow, OrderOK
  <2>14. RunTyped(run', c.controller, out', dropped)
    BY <2>7, <2>10, <2>12 DEF RunTyped
  <2>15. NoneDropped(s, out', dropped)
    BY <2>7, <2>10 DEF NoneDropped
  <2> QED BY <2>12, <2>13, <2>14, <2>15 DEF OrderNow
<1>4. CASE c.controller # "aborted" /\ ~(r.step < Length(r.paste)) /\ c.queue # <<>>
  <2>1. NextPaste(c, report)
    BY <1>4 DEF Advance
  <2>2. Ready(c)
    BY <1>4, MidwayIsReady
  <2> QED BY <2>1, <2>2, NextPasteOrder DEF OrderNow
<1>5. CASE c.controller # "aborted" /\ ~(r.step < Length(r.paste)) /\ c.queue = <<>>
  <2>1. Wrap(c, "done")
    BY <1>5 DEF Advance
  <2> QED BY <1>0, <2>1, WrapOrder DEF OrderNow
<1> QED BY <1>2, <1>3, <1>4, <1>5

LEMMA QueuedWasSent ==
  ASSUME NEW queue \in Seq(Paste), NEW s, NEW order, NEW gone, OrderOK(queue, s, order, gone)
  PROVE  Range(queue) \subseteq Range(order) /\ gone \subseteq Range(order)
<1>1. DOMAIN queue = 1 .. Len(queue)
  OBVIOUS
<1>2. Range(queue) = {queue[i] : i \in 1 .. Len(queue)}
  BY <1>1 DEF Range
<1> QED BY <1>2 DEF OrderOK

LEMMA DroppedWasSent ==
  ASSUME NEW c \in PacerState, NEW r, r.at # "idle", NEW s, NEW order, NEW gone,
         OrderNow(c, r, s, order, gone)
  PROVE  gone \union Range(c.queue) \union {r.paste} \subseteq Range(order)
<1>1. c.queue \in Seq(Paste) /\ OrderOK(c.queue, s, order, gone)
  BY PacerFields DEF OrderNow
<1>2. PICK i \in 1 .. Len(s) : LastAt(s, i) /\ s[i] = Mark("step", r.paste, r.step)
  BY DEF OrderNow, RunTyped
<1>3. HasTyped(s, r.paste)
  BY <1>2 DEF HasTyped, Mark
<1>4. r.paste \in Range(order)
  BY <1>1, <1>3 DEF OrderOK
<1> QED BY <1>1, <1>4, QueuedWasSent

\* A new paste is sent after all the others.
LEMMA OrderOfLonger ==
  ASSUME NEW queue \in Seq(Paste), NEW s, NEW order, NEW gone, OrderOK(queue, s, order, gone),
         NEW p \in Paste, p \notin Range(order)
  PROVE  OrderOK(Append(queue, p), s, Append(order, p), gone)
<1> DEFINE more == Append(order, p)
           longer == Append(queue, p)
<1>1. /\ s \in Seq(Marks) /\ order \in Seq(Paste) /\ gone \subseteq Range(order)
      /\ \A q : HasTyped(s, q) => q \in Range(order)
      /\ InOrder(s, order)
  BY DEF OrderOK
<1>2. \A i \in 1 .. Len(queue) :
        /\ queue[i] \in Range(order) \ gone
        /\ \A q : HasTyped(s, q) => Before(order, q, queue[i])
        /\ \A j \in 1 .. i - 1 : Before(order, queue[j], queue[i])
  BY DEF OrderOK
<1>3. /\ more \in Seq(Paste) /\ Len(order) \in Nat /\ Len(more) = Len(order) + 1
      /\ more[Len(order) + 1] = p /\ \A i \in 1 .. Len(order) : more[i] = order[i]
      /\ DOMAIN order = 1 .. Len(order) /\ DOMAIN more = 1 .. Len(order) + 1
  BY <1>1
<1>4. /\ longer \in Seq(Paste) /\ Len(queue) \in Nat /\ Len(longer) = Len(queue) + 1
      /\ longer[Len(queue) + 1] = p /\ \A i \in 1 .. Len(queue) : longer[i] = queue[i]
  OBVIOUS
<1> HIDE DEF more, longer
<1>5. Range(order) \subseteq Range(more) /\ p \in Range(more)
  <2>1. \A i \in 1 .. Len(order) : i \in 1 .. Len(order) + 1
    BY <1>3
  <2>2. Len(order) + 1 \in 1 .. Len(order) + 1
    BY <1>3
  <2> QED BY <1>3, <2>1, <2>2 DEF Range
<1>6. \A q, r : Before(order, q, r) => Before(more, q, r)
  <2>1. \A i \in 1 .. Len(order) : i \in 1 .. Len(more)
    BY <1>3
  <2> QED BY <1>3, <2>1 DEF Before
<1>7. \A q \in Range(order) : Before(more, q, p)
  <2>1. SUFFICES ASSUME NEW q \in Range(order)
                 PROVE  Before(more, q, p)
    OBVIOUS
  <2>2. PICK i \in 1 .. Len(order) : order[i] = q
    BY <1>3 DEF Range
  <2>3. /\ i \in 1 .. Len(more) /\ Len(order) + 1 \in 1 .. Len(more) /\ i < Len(order) + 1
        /\ more[i] = q
    BY <1>3, <2>2
  <2> QED BY <1>3, <2>3 DEF Before
<1>8. ASSUME NEW i \in 1 .. Len(longer)
      PROVE  /\ longer[i] \in Range(more) \ gone
             /\ \A q : HasTyped(s, q) => Before(more, q, longer[i])
             /\ \A j \in 1 .. i - 1 : Before(more, longer[j], longer[i])
  <2>1. \A j \in 1 .. i - 1 : j \in 1 .. Len(queue) /\ longer[j] = queue[j]
    BY <1>4
  <2>2. CASE i \in 1 .. Len(queue)
    <3>1. longer[i] = queue[i]
      BY <1>4, <2>2
    <3> QED BY <1>2, <1>5, <1>6, <2>1, <2>2, <3>1
  <2>3. CASE i = Len(queue) + 1
    <3>1. longer[i] = p /\ p \notin gone
      BY <1>1, <1>4, <2>3
    <3>2. \A j \in 1 .. i - 1 : Before(more, longer[j], longer[i])
      BY <1>2, <1>7, <2>1, <3>1
    <3> QED BY <1>1, <1>5, <1>7, <3>1, <3>2
  <2> QED BY <1>4, <2>2, <2>3
<1>9. InOrder(s, more)
  BY <1>1, <1>6 DEF InOrder, Follows
<1>10. OrderOK(longer, s, more, gone)
  BY <1>1, <1>3, <1>5, <1>8, <1>9 DEF OrderOK
<1> QED BY <1>10 DEF longer, more

\* Nothing that was dropped is typed in this step.
DropStep == NoneDropped(out, out', dropped)

LEMMA TurnOrder ==
  ASSUME CountsInv, OrderInv, Turn
  PROVE  OrderInv' /\ DropStep
<1>0. /\ pacer \in PacerState /\ (pacer.closed => pacer.queue = <<>>) /\ RunOK(run)
      /\ run \in RunState
  BY DEF CountsInv, CountsOK, RunOK
<1>1. PICK s, order : out = s /\ order = pasted
  OBVIOUS
<1>2. /\ OrderNow(pacer, run, s, order, dropped)
      /\ s \in Seq(Marks) /\ order \in Seq(Paste)
  BY <1>1 DEF OrderInv, OrderNow, OrderOK
<1>3. pasted' = order
  BY <1>1 DEF Turn, WriteDone, WriteFails, WaitDone, Rejected, BracketClosed
<1>4. SUFFICES OrderNow(pacer', run', out', order, dropped') /\ NoneDropped(s, out', dropped)
  BY <1>1, <1>3 DEF OrderInv, DropStep
<1>5. CASE WriteDone
  <2>1. PICK c : c = Counted(pacer)
    OBVIOUS
  <2>2. run.at = "write"
    BY <1>5 DEF WriteDone
  <2>3. /\ Midway(c, run) /\ c.queue = pacer.queue /\ c.controller = pacer.controller
        /\ c \in PacerState
    BY <2>1, <2>2, CountedFacts DEF Midway
  <2>4. OrderNow(c, run, s, order, dropped)
    BY <1>2, <2>3 DEF OrderNow
  <2>5. CASE ~Aborted /\ (AwaitsAnswer \/ CurrentStep.delay)
    <3>1. /\ run' = [run EXCEPT !.at = "wait", !.answering = @ \/ AwaitsAnswer]
          /\ pacer' = [c EXCEPT !.reported = TRUE] /\ out' = s /\ dropped' = dropped
      BY <1>1, <1>5, <2>1, <2>5 DEF WriteDone
    <3>2. run'.at # "idle" /\ run'.paste = run.paste /\ run'.step = run.step
      BY <1>0, <3>1 DEF RunState
    <3>3. pacer'.queue = c.queue /\ pacer'.controller = c.controller
      BY <2>3, <3>1 DEF PacerState
    <3>4. RunTyped(run', pacer'.controller, s, dropped)
      BY <2>2, <2>4, <3>2, <3>3 DEF OrderNow, RunTyped
    <3> QED BY <1>2, <2>4, <3>1, <3>3, <3>4, NothingTyped DEF OrderNow
  <2>6. CASE ~(~Aborted /\ (AwaitsAnswer \/ CurrentStep.delay))
    <3>1. Advance(c, run)
      BY <1>5, <2>1, <2>6 DEF WriteDone
    <3> QED BY <1>1, <2>3, <2>4, <3>1, AdvanceOrder
  <2> QED BY <2>5, <2>6
<1>6. CASE WriteFails
  <2>1. Wrap(pacer, "cancelled")
    BY <1>6 DEF WriteFails
  <2> QED BY <1>0, <1>1, <1>2, <2>1, WrapOrder DEF OrderNow
<1>7. CASE WaitDone
  <2>1. run.at = "wait" /\ Advance(pacer, run)
    BY <1>7 DEF WaitDone
  <2>2. Midway(pacer, run)
    BY <2>1, WaitedFacts
  <2> QED BY <1>1, <1>2, <2>1, <2>2, AdvanceOrder
<1>8. CASE Rejected
  <2>1. PICK d : d = [pacer EXCEPT !.queue = <<>>]
    OBVIOUS
  <2>2. /\ run.at = "wait" /\ pacer' = Recounted(d) /\ run' = Idle /\ out' = s
        /\ dropped' = dropped \union Range(pacer.queue) \union {run.paste}
    BY <1>1, <1>8, <2>1 DEF Rejected, Unfinished
  <2>3. d \in PacerState /\ d.queue = <<>>
    <3>1. <<>> \in Seq(Paste)
      OBVIOUS
    <3> QED BY <1>0, <2>1, <3>1 DEF PacerState
  <2>4. pacer'.queue = <<>>
    BY <2>2, <2>3, RecountedCounts
  <2>5. dropped' \subseteq Range(order)
    BY <1>0, <1>2, <2>2, DroppedWasSent
  <2>6. Idle.at = "idle" /\ Len(pacer'.queue) = 0
    BY <2>4 DEF Idle
  <2>7. OrderOK(pacer'.queue, s, order, dropped')
    BY <1>2, <2>5, <2>6 DEF OrderNow, OrderOK
  <2> QED BY <1>2, <2>2, <2>6, <2>7, NothingTyped DEF OrderNow, RunTyped
<1>9. CASE BracketClosed
  <2>1. Wrap(pacer, "cancelled")
    BY <1>9 DEF BracketClosed
  <2> QED BY <1>0, <1>1, <1>2, <2>1, WrapOrder DEF OrderNow
<1> QED BY <1>5, <1>6, <1>7, <1>8, <1>9 DEF Turn

LEMMA EnqueueOrder ==
  ASSUME CountsInv, OrderInv, NEW p \in Paste, Enqueue(p)
  PROVE  OrderInv' /\ DropStep
<1>0. /\ pacer \in PacerState /\ pacer.queue \in Seq(Paste)
  BY PacerFields DEF CountsInv, CountsOK
<1>1. PICK s, order, more : out = s /\ order = pasted /\ more = pasted'
  OBVIOUS
<1>2. /\ OrderOK(pacer.queue, s, order, dropped) /\ RunTyped(run, pacer.controller, s, dropped)
      /\ s \in Seq(Marks) /\ order \in Seq(Paste)
  BY <1>1 DEF OrderInv, OrderNow, OrderOK
<1>3. more = Append(order, p) /\ p \notin Range(order)
  BY <1>1 DEF Enqueue
<1>4. OrderOK(Append(pacer.queue, p), s, more, dropped)
  BY <1>0, <1>2, <1>3, OrderOfLonger
<1>5. SUFFICES OrderNow(pacer', run', out', more, dropped') /\ NoneDropped(s, out', dropped)
  BY <1>1 DEF OrderInv, DropStep
<1>6. CASE pacer.controller = "none"
  <2>1. PICK d : Ready(d) /\ NextPaste(d, report) /\ d.queue = Append(pacer.queue, p)
    BY <1>6, EnqueueMoves
  <2> QED BY <1>1, <1>4, <2>1, NextPasteOrder
<1>7. CASE pacer.controller # "none"
  <2>1. /\ pacer'.queue = Append(pacer.queue, p) /\ pacer'.controller = pacer.controller
        /\ UNCHANGED <<run, out, report, dropped>>
    BY <1>7, EnqueueMoves
  <2> QED BY <1>1, <1>2, <1>4, <2>1, NothingTyped DEF OrderNow
<1> QED BY <1>6, <1>7

LEMMA CancelOrder ==
  ASSUME CountsInv, OrderInv, Cancel \/ Close
  PROVE  OrderInv' /\ DropStep
<1>0. pacer \in PacerState /\ RunOK(run)
  BY DEF CountsInv, CountsOK
<1>1. PICK s, order : out = s /\ order = pasted
  OBVIOUS
<1>2. /\ OrderNow(pacer, run, s, order, dropped)
      /\ s \in Seq(Marks) /\ order \in Seq(Paste)
  BY <1>1 DEF OrderInv, OrderNow, OrderOK
<1>3. /\ run' = run /\ out' = s /\ pasted' = order /\ dropped' = dropped \union Unfinished
  BY <1>1 DEF Cancel, Close
<1>4. pacer'.queue = <<>> /\ pacer'.controller # "live"
  BY <1>0 DEF Cancel, Close, Cancelled, PacerState
<1>5. dropped' \subseteq Range(order)
  <2>1. CASE run.at = "idle"
    <3>1. dropped' \subseteq dropped \union Range(pacer.queue)
      BY <1>3, <2>1 DEF Unfinished
    <3>2. Range(pacer.queue) \subseteq Range(order) /\ dropped \subseteq Range(order)
      BY <1>0, <1>2, PacerFields, QueuedWasSent DEF OrderNow
    <3> QED BY <3>1, <3>2
  <2>2. CASE run.at # "idle"
    <3>1. dropped' = dropped \union Range(pacer.queue) \union {run.paste}
      BY <1>3, <2>2 DEF Unfinished
    <3> QED BY <1>0, <1>2, <2>2, <3>1, DroppedWasSent
  <2> QED BY <2>1, <2>2
<1>6. OrderOK(pacer'.queue, s, order, dropped')
  <2>1. Len(pacer'.queue) = 0
    BY <1>4
  <2> QED BY <1>2, <1>5, <2>1 DEF OrderNow, OrderOK
<1>7. RunTyped(run, pacer'.controller, s, dropped')
  BY <1>2, <1>4 DEF OrderNow, RunTyped
<1>8. NoneDropped(s, s, dropped)
  BY <1>2, NothingTyped
<1> QED BY <1>1, <1>3, <1>6, <1>7, <1>8 DEF OrderInv, OrderNow, DropStep

LEMMA OrderStep ==
  CountsInv /\ OrderInv /\ [PacerNext]_pacerVars => OrderInv' /\ [DropStep]_pacerVars
<1>1. SUFFICES ASSUME CountsInv, OrderInv, [PacerNext]_pacerVars
               PROVE  OrderInv' /\ [DropStep]_pacerVars
  OBVIOUS
<1>2. CASE UNCHANGED pacerVars
  BY <1>1, <1>2 DEF pacerVars, OrderInv
<1>3. CASE PacerNext
  <2>1. OrderInv' /\ DropStep
    BY <1>1, <1>3, EnqueueOrder, CancelOrder, TurnOrder DEF PacerNext
  <2> QED BY <2>1
<1> QED BY <1>1, <1>2, <1>3

LEMMA OrderInit == PacerInit => OrderInv
<1>1. SUFFICES ASSUME PacerInit
               PROVE  OrderInv
  OBVIOUS
<1>2. /\ out = <<>> /\ run = Idle /\ pasted = <<>> /\ dropped = {} /\ pacer.queue = <<>>
  BY <1>1 DEF PacerInit
<1>3. <<>> \in Seq(Marks) /\ <<>> \in Seq(Paste) /\ Len(<<>>) = 0
  OBVIOUS
<1>4. \A p : ~HasTyped(<<>>, p)
  BY DEF HasTyped
<1>5. \A order : InOrder(<<>>, order)
  BY DEF InOrder
<1>6. OrderOK(<<>>, <<>>, <<>>, {})
  BY <1>3, <1>4, <1>5 DEF OrderOK
<1>7. Idle.at = "idle"
  BY DEF Idle
<1> QED BY <1>2, <1>6, <1>7 DEF OrderInv, OrderNow, RunTyped

PacerInv == CountsInv /\ BracketsInv /\ OrderInv

LEMMA PacerHolds == PacerSpec => []PacerInv
<1>1. PacerInit => PacerInv
  BY CountsInit, BracketsInit, OrderInit DEF PacerInv
<1>2. PacerInv /\ [PacerNext]_pacerVars => PacerInv'
  BY CountsStep, BracketsStep, OrderStep DEF PacerInv
<1> QED BY <1>1, <1>2, PTL DEF PacerSpec

\* What reaches the shell is in the order it was sent and in the brackets it asks for,
\* for every set of pastes and every way to cut them into steps (run,
\* paste-pacer.ts:160-206).
THEOREM TypingIsAsSent == PacerSpec => []TypedAsSent
<1>1. PacerInv => TypedAsSent
  <2>1. SUFFICES ASSUME PacerInv
                 PROVE  BracketsMatch /\ TypedInOrder
    BY DEF TypedAsSent
  <2>2. out \in Seq(Marks) /\ pasted \in Seq(Paste) /\ InOrder(out, pasted) /\ RunOK(run)
    BY <2>1 DEF PacerInv, BracketsInv, OrderInv, OrderNow, OrderOK, CountsInv, CountsOK
  <2>3. DOMAIN out = 1 .. Len(out) /\ DOMAIN pasted = 1 .. Len(pasted)
    BY <2>2
  <2>4. BracketsMatch
    <3>1. SUFFICES ASSUME ~broken
                   PROVE  /\ \A i \in DOMAIN out :
                               out[i].kind = "step" =>
                                 (OpenBefore(i) <=> Text[out[i].paste].bracketed)
                          /\ \A i \in DOMAIN out : out[i].kind = "start" => ~OpenBefore(i)
                          /\ run.at = "idle" /\ ~pacer.closed => ~OpenBefore(Len(out) + 1)
      BY DEF BracketsMatch
    <3>2. \A i : OpenBefore(i) <=> Opened(out, i)
      BY DEF OpenBefore, Opened
    <3>3. PICK open \in BOOLEAN : Bracketed(out, open)
      BY <2>1, <3>1 DEF PacerInv, BracketsInv, BracketsAre
    <3>4. run.at = "idle" /\ ~pacer.closed => Bracketed(out, run.bracketOpen)
      BY <2>1, <3>1 DEF PacerInv, BracketsInv, BracketsAre
    <3>5. run.at = "idle" => ~run.bracketOpen
      BY <2>2 DEF RunOK, Idle
    <3> QED BY <2>3, <3>2, <3>3, <3>4, <3>5 DEF Bracketed
  <2>5. TypedInOrder
    <3>1. \A i, j : TypedNext(i, j) <=> NextTyped(out, i, j)
      BY DEF TypedNext, NextTyped
    <3>2. \A p, q : SentBefore(p, q) <=> Before(pasted, p, q)
      BY <2>3 DEF SentBefore, Before
    <3> QED BY <2>2, <2>3, <3>1, <3>2 DEF TypedInOrder, InOrder, Follows
  <2> QED BY <2>4, <2>5
<1> QED BY <1>1, PacerHolds, PTL

\* The counters while the session is gone: the run that is left ends and says nothing.
SilentStep == pacer.closed => UNCHANGED <<out, report>>

LEMMA ClosedAdvance ==
  ASSUME NEW c, NEW r, c.controller = "aborted", c.closed, Advance(c, r)
  PROVE  UNCHANGED <<out, report>>
<1>1. FinishRun(c, r)
  BY DEF Advance
<1>2. Wrap(c, "cancelled")
  BY <1>1 DEF FinishRun
<1>3. RunEnds(c) /\ report' = Report(c, "cancelled")
  BY <1>2 DEF Wrap
<1> QED BY <1>3 DEF RunEnds, Report

LEMMA SilentHolds ==
  ASSUME CountsInv, [PacerNext]_pacerVars
  PROVE  [SilentStep]_pacerVars
<1>1. SUFFICES ASSUME PacerNext, pacer.closed
               PROVE  UNCHANGED <<out, report>>
  BY DEF SilentStep
<1>2. /\ pacer \in PacerState /\ RunOK(run)
      /\ pacer.controller = "none" <=> run.at = "idle"
      /\ run.at = "end" => pacer.controller = "aborted"
      /\ pacer.controller # "live" /\ pacer.controller \in Controllers
  BY <1>1, PacerFields DEF CountsInv, CountsOK
<1>3. run.at # "idle" => pacer.controller = "aborted"
  BY <1>2 DEF Controllers
<1>4. CASE \E p \in Paste : Enqueue(p)
  BY <1>1, <1>4 DEF Enqueue
<1>5. CASE Cancel \/ Close
  BY <1>5 DEF Cancel, Close
<1>6. CASE WriteDone
  <2>1. PICK c : c = Counted(pacer)
    OBVIOUS
  <2>2. Aborted
    BY <1>3, <1>6 DEF WriteDone, Aborted
  <2>3. Advance(c, run)
    BY <1>6, <2>1, <2>2 DEF WriteDone
  <2>4. c.controller = "aborted" /\ c.closed
    BY <1>1, <1>6, <2>1, <2>2, CountedFacts DEF WriteDone, Aborted
  <2> QED BY <2>3, <2>4, ClosedAdvance
<1>7. CASE WriteFails
  BY <1>3, <1>7 DEF WriteFails, Aborted
<1>8. CASE WaitDone
  BY <1>1, <1>3, <1>8, ClosedAdvance DEF WaitDone
<1>9. CASE Rejected
  BY <1>3, <1>9 DEF Rejected, Aborted
<1>10. CASE BracketClosed
  <2>1. Wrap(pacer, "cancelled")
    BY <1>10 DEF BracketClosed
  <2>2. RunEnds(pacer) /\ report' = Report(pacer, "cancelled")
    BY <1>1, <2>1 DEF Wrap
  <2> QED BY <1>1, <2>2 DEF RunEnds, Report
<1> QED BY <1>1, <1>4, <1>5, <1>6, <1>7, <1>8, <1>9, <1>10 DEF PacerNext, Turn

\* What was dropped is never typed on, and once the session is gone nothing is written
\* or reported (cancel, close and stop, paste-pacer.ts:99-134, 209-221).
THEOREM DroppedStaysSilent == PacerSpec => DroppedIsSilent
<1>1. PacerInv /\ [PacerNext]_pacerVars =>
        [\A i \in Len(out) + 1 .. Len(out') :
           out'[i].kind = "step" => out'[i].paste \notin dropped]_pacerVars
  BY OrderStep DEF PacerInv, DropStep, NoneDropped
<1>2. PacerInv /\ [PacerNext]_pacerVars => [pacer.closed => UNCHANGED <<out, report>>]_pacerVars
  BY SilentHolds DEF PacerInv, SilentStep
<1>3. PacerSpec => DroppedStaysDropped
  BY <1>1, PacerHolds, PTL DEF PacerSpec, DroppedStaysDropped
<1>4. PacerSpec => ClosedIsSilent
  BY <1>2, PacerHolds, PTL DEF PacerSpec, ClosedIsSilent
<1> QED BY <1>3, <1>4 DEF DroppedIsSilent
=============================================================================
