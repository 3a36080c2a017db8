------------------------------ MODULE TabTransfer ------------------------------
(***************************************************************************)
(* A tab on its way between windows: client/src/tab-transfer.ts with what  *)
(* TerminalViewImpl.tsx and TabStrip.tsx do for it.  There is one tab, of  *)
(* a terminal, and every transfer is of that tab.  A transfer is claimed   *)
(* by one window, and what the two windows say to each other arrives in    *)
(* order (a BroadcastChannel).  What the server does with the output of a  *)
(* window that leaves is in TerminalSocket.tla.                            *)
(***************************************************************************)
EXTENDS Integers, FiniteSets, Sequences

CONSTANTS Win, NoWin, Transfer, NoTransfer

ASSUME TransferAssumption == NoWin \notin Win /\ NoTransfer \notin Transfer

VARIABLES
  tabIn,    \* tabIn[w]: the tab in this window, "none" or how its terminal is
  carried,  \* carried[w]: the pendingTransferId of its terminal view
  terminal, \* the session: its window, whether its output is frozen, its end
  source,   \* source[x]: where the transfer started, and the TransferSource
  claim,    \* claim[x]: the window that claims it
  posted,   \* posted[x]: what the claimer posted and the source has not seen
  offer,    \* offer[x]: what the source posted
  discarded \* the user closed the tab, or a window with it (for the properties)

transferVars == <<tabIn, carried, terminal, source, claim, posted, offer, discarded>>

TransferInit ==
  \E w \in Win :
    /\ tabIn = [v \in Win |-> IF v = w THEN "live" ELSE "none"]
    /\ carried = [v \in Win |-> NoTransfer]
    /\ terminal = [window |-> w, frozen |-> FALSE, over |-> FALSE]
    /\ source = [x \in Transfer |->
                   [at |-> NoWin, state |-> "none", run |-> "none", late |-> FALSE]]
    /\ claim = [x \in Transfer |-> [by |-> NoWin, state |-> "none"]]
    /\ posted = [x \in Transfer |-> <<>>]
    /\ offer = [x \in Transfer |-> "none"]
    /\ discarded = FALSE

Post(x, message) == [posted EXCEPT ![x] = Append(@, message)]

(***************************************************************************)
(* The terminal of the source.                                             *)
(***************************************************************************)
\* The runs whose prepareTransfer() waits at a window for transfer-ready.
Freezing(w) == {x \in Transfer : source[x].at = w /\ source[x].run = "freezing"}

\* cancelTransfer(): the wait is over and the output flows, if this window is
\* still the one the terminal listens to.
CancelTransfer(src, w) ==
  /\ source' = [x \in Transfer |-> IF x \in Freezing(w) THEN [src[x] EXCEPT !.run = "refused"]
                                   ELSE src[x]]
  /\ offer' = [x \in Transfer |-> IF x \in Freezing(w) THEN "nothing" ELSE offer[x]]
  /\ terminal' = IF tabIn[w] = "live" THEN [terminal EXCEPT !.frozen = FALSE] ELSE terminal

\* close() of the tab: its socket closes as the end of the session.
CloseAt(w) ==
  /\ tabIn' = [tabIn EXCEPT ![w] = "none"]
  /\ carried' = [carried EXCEPT ![w] = NoTransfer]
  /\ terminal' = IF tabIn[w] = "live" THEN [terminal EXCEPT !.over = TRUE] ELSE terminal

(***************************************************************************)
(* The source window.                                                      *)
(***************************************************************************)
\* beginTabDrag(), or moveTabToNewWindow().
Start(x, w) ==
  /\ source[x].at = NoWin /\ tabIn[w] # "none"
  /\ source' = [source EXCEPT ![x].at = w]
  /\ UNCHANGED <<tabIn, carried, terminal, claim, posted, offer, discarded>>

\* registerTabTransferSource(), once its module is loaded.
RegisterSource(x) ==
  /\ source[x].at # NoWin /\ source[x].state = "none"
  /\ source' = [source EXCEPT ![x].state = "registered"]
  /\ UNCHANGED <<tabIn, carried, terminal, claim, posted, offer, discarded>>

\* finishLocalTabTransfer(), or SOURCE_TTL_MS has passed.  A preparation that
\* began goes on.
Retire(x) ==
  /\ source[x].state = "registered"
  /\ CancelTransfer([source EXCEPT ![x].state = "gone"], source[x].at)
  /\ UNCHANGED <<tabIn, carried, claim, posted, discarded>>

\* The preparation returns, and whoever claims is told.
Prepared(x, run, what) ==
  /\ source' = [source EXCEPT ![x].run = run]
  /\ offer' = [offer EXCEPT ![x] = what]

\* confirmDiscardRemoteEditors() asks the user only about unsaved files, and
\* then takes as long as the user does.
Abandoned(x) == source[x].state = "gone" \/ (claim[x].state # "waiting" /\ posted[x] = <<>>)

Confirm(x) ==
  LET at == source[x].at IN
  /\ source[x].run = "confirming"
  /\ \/ Prepared(x, "refused", "nothing") /\ UNCHANGED terminal
     \/ /\ tabIn[at] = "ended"
        /\ Prepared(x, "ready", "ended tab") /\ UNCHANGED terminal
     \/ /\ tabIn[at] = "live" /\ Freezing(at) = {}
        /\ source' = [source EXCEPT ![x].run = "freezing", ![x].late = Abandoned(x)]
        /\ terminal' = [terminal EXCEPT !.frozen = TRUE]
        /\ UNCHANGED offer
  /\ UNCHANGED <<tabIn, carried, claim, posted, discarded>>

\* transfer-ready came, and the output before it is in the snapshot.
TransferReady(x) ==
  /\ source[x].run = "freezing" /\ tabIn[source[x].at] = "live"
  /\ Prepared(x, "ready", "live tab")
  /\ UNCHANGED <<tabIn, carried, terminal, claim, posted, discarded>>

\* TRANSFER_PREPARE_TIMEOUT_MS
PrepareTimesOut(x) ==
  /\ source[x].run = "freezing"
  /\ CancelTransfer(source, source[x].at)
  /\ UNCHANGED <<tabIn, carried, claim, posted, discarded>>

\* A claim starts the preparation once; a later one gets what it returned.
HandleClaim(x) ==
  /\ posted[x] # <<>> /\ Head(posted[x]) = "claim"
  /\ posted' = [posted EXCEPT ![x] = Tail(@)]
  /\ source' = IF source[x].state = "registered" /\ source[x].run = "none"
               THEN [source EXCEPT ![x].run = "confirming"] ELSE source
  /\ UNCHANGED <<tabIn, carried, terminal, claim, offer, discarded>>

HandleCancel(x) ==
  /\ posted[x] # <<>> /\ Head(posted[x]) = "cancel"
  /\ posted' = [posted EXCEPT ![x] = Tail(@)]
  /\ IF source[x].state = "registered" THEN CancelTransfer(source, source[x].at)
     ELSE UNCHANGED <<source, offer, terminal>>
  /\ UNCHANGED <<tabIn, carried, claim, discarded>>

HandleComplete(x) ==
  /\ posted[x] # <<>> /\ Head(posted[x]) = "complete"
  /\ posted' = [posted EXCEPT ![x] = Tail(@)]
  /\ IF source[x].state = "registered"
       THEN source' = [source EXCEPT ![x].state = "gone"] /\ CloseAt(source[x].at)
       ELSE UNCHANGED <<source, tabIn, carried, terminal>>
  /\ UNCHANGED <<claim, offer, discarded>>

(***************************************************************************)
(* The window that claims.                                                 *)
(***************************************************************************)
\* claimTabTransfer(), of a drop or in a new window.
Claim(x, w) ==
  /\ source[x].at \notin {NoWin, w} /\ claim[x].state = "none"
  /\ claim' = [claim EXCEPT ![x] = [by |-> w, state |-> "waiting"]]
  /\ posted' = Post(x, "claim")
  /\ UNCHANGED <<tabIn, carried, terminal, source, offer, discarded>>

\* Every 250 ms, for the source may not be registered yet.
ClaimAgain(x) ==
  /\ claim[x].state = "waiting" /\ posted[x] = <<>> /\ source[x].run = "none"
  /\ posted' = Post(x, "claim")
  /\ UNCHANGED <<tabIn, carried, terminal, source, claim, offer, discarded>>

Over(x) == claim' = [claim EXCEPT ![x].state = "over"]

\* CLAIM_TIMEOUT_MS
ClaimTimesOut(x) ==
  /\ claim[x].state = "waiting"
  /\ Over(x) /\ posted' = Post(x, "cancel")
  /\ UNCHANGED <<tabIn, carried, terminal, source, offer, discarded>>

RefuseOffer(x) == posted' = Post(x, "cancel")

\* Variant: the source may close its tab before this one is attached.
AdoptsAtOnce(x) == posted' = Post(x, "complete")

\* The source keeps its tab until this one has the session.
Adopts(x) == UNCHANGED posted

\* receiveTabTransfer() gets the tab, or nothing; a window that has a tab of
\* that identity does not take it.
HandleOffer(x) ==
  LET w == claim[x].by IN
  /\ claim[x].state = "waiting" /\ offer[x] # "none"
  /\ Over(x)
  /\ IF offer[x] = "nothing" \/ tabIn[w] # "none"
       THEN RefuseOffer(x) /\ UNCHANGED <<tabIn, carried>>
       ELSE IF offer[x] = "live tab"
       THEN /\ tabIn' = [tabIn EXCEPT ![w] = "attaching"]
            /\ carried' = [carried EXCEPT ![w] = x]
            /\ Adopts(x)
       ELSE /\ tabIn' = [tabIn EXCEPT ![w] = "ended"]
            /\ posted' = Post(x, "complete") /\ UNCHANGED carried
  /\ UNCHANGED <<terminal, source, offer, discarded>>

\* The terminal view of the adopted tab attaches to the session.
Attach(w) ==
  /\ tabIn[w] = "attaching"
  /\ IF terminal.over
       THEN tabIn' = [tabIn EXCEPT ![w] = "ended"] /\ UNCHANGED terminal
       ELSE /\ tabIn' = [v \in Win |-> IF v = w THEN "live"
                                      ELSE IF tabIn[v] = "live" THEN "displaced" ELSE tabIn[v]]
            /\ terminal' = [terminal EXCEPT !.window = w, !.frozen = FALSE]
  /\ UNCHANGED <<carried, source, claim, posted, offer, discarded>>

\* `ready` is replayed to it, or comes when its login is through.
OfferReady(w) ==
  /\ tabIn[w] = "live" /\ carried[w] # NoTransfer
  /\ posted' = Post(carried[w], "complete")
  /\ carried' = [carried EXCEPT ![w] = NoTransfer]
  /\ UNCHANGED <<tabIn, terminal, source, claim, offer, discarded>>

(***************************************************************************)
(* The session, the user, and windows that close.                          *)
(***************************************************************************)
SessionEnds ==
  /\ ~terminal.over
  /\ terminal' = [terminal EXCEPT !.over = TRUE]
  /\ tabIn' = [w \in Win |-> IF tabIn[w] = "live" THEN "ended" ELSE tabIn[w]]
  /\ UNCHANGED <<carried, source, claim, posted, offer, discarded>>

\* What is posted arrives before the user gets to close the tab it is about.
Arrived(w) == \A x \in Transfer : source[x].at = w => posted[x] = <<>>

\* The view of the tab goes, and with it the wait for transfer-ready.
UserCloses(w) ==
  /\ tabIn[w] # "none" /\ Arrived(w)
  /\ CloseAt(w)
  /\ source' = [x \in Transfer |-> IF x \in Freezing(w) THEN [source[x] EXCEPT !.run = "refused"]
                                   ELSE source[x]]
  /\ offer' = [x \in Transfer |-> IF x \in Freezing(w) THEN "nothing" ELSE offer[x]]
  /\ discarded' = TRUE
  /\ UNCHANGED <<claim, posted>>

\* The window takes its sources and its claims along; the terminal waits for
\* another window, and SessionEnds is its grace period.
WindowCloses(w) ==
  /\ tabIn[w] # "none"
  /\ tabIn' = [tabIn EXCEPT ![w] = "none"]
  /\ carried' = [carried EXCEPT ![w] = NoTransfer]
  /\ source' = [x \in Transfer |-> IF source[x].at = w
                                   THEN [source[x] EXCEPT !.state = "gone", !.run = "refused"]
                                   ELSE source[x]]
  /\ claim' = [x \in Transfer |-> IF claim[x].by = w THEN [claim[x] EXCEPT !.state = "over"]
                                  ELSE claim[x]]
  /\ discarded' = TRUE
  /\ UNCHANGED <<terminal, posted, offer>>

TransferNext ==
  \/ \E x \in Transfer :
       \/ \E w \in Win : Start(x, w) \/ Claim(x, w)
       \/ RegisterSource(x) \/ Retire(x) \/ Confirm(x) \/ TransferReady(x) \/ PrepareTimesOut(x)
       \/ HandleClaim(x) \/ HandleCancel(x) \/ HandleComplete(x)
       \/ ClaimAgain(x) \/ ClaimTimesOut(x) \/ HandleOffer(x)
  \/ \E w \in Win : Attach(w) \/ OfferReady(w) \/ UserCloses(w) \/ WindowCloses(w)
  \/ SessionEnds

TransferSpec == TransferInit /\ [][TransferNext]_transferVars

(***************************************************************************)
(* Properties.                                                             *)
(***************************************************************************)
TransferTypeOK ==
  /\ tabIn \in [Win -> {"none", "live", "attaching", "displaced", "ended"}]
  /\ carried \in [Win -> Transfer \cup {NoTransfer}]
  /\ terminal \in [window : Win, frozen : BOOLEAN, over : BOOLEAN]
  /\ source \in [Transfer -> [at : Win \cup {NoWin}, state : {"none", "registered", "gone"},
                              run : {"none", "confirming", "freezing", "ready", "refused"},
                              late : BOOLEAN]]
  /\ claim \in [Transfer -> [by : Win \cup {NoWin}, state : {"none", "waiting", "over"}]]
  /\ \A x \in Transfer : Len(posted[x]) <= 2
  /\ offer \in [Transfer -> {"none", "nothing", "live tab", "ended tab"}]

\* Until the user closes it, the tab is in a window, and in one that can show
\* its session.
TabIsSomewhere ==
  discarded \/ \E w \in Win : tabIn[w] \in {"live", "ended"}

\* The output of a session that a window shows is frozen only while a transfer
\* is under way that thaws it.  Left out are a preparation that began to
\* freeze when it had been given up before, and a window that went away.
Underway(x) ==
  \/ claim[x].state = "waiting" \/ posted[x] # <<>> \/ source[x].run = "freezing"
  \/ \E w \in Win : tabIn[w] = "attaching" /\ carried[w] = x

FrozenIsAttended ==
  terminal.frozen /\ tabIn[terminal.window] = "live" /\ ~discarded
    => \E x \in Transfer : source[x].at = terminal.window /\ (Underway(x) \/ source[x].late)

\* A tab that is moved, refused, given up or lost on the way is still there for
\* the user, and shows what its session prints (claimTabTransfer and the handlers
\* of prepareTabTransfer, tab-transfer.ts:98-216).  This holds of two transfers at a
\* time: of three, a completion that is late may close the tab by its id where the
\* third has just brought it back.
TabStaysUsable == TabIsSomewhere /\ FrozenIsAttended
=============================================================================
