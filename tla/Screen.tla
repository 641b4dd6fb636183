------------------------------- MODULE Screen -------------------------------
(***************************************************************************)
(* The screen of a player at work: which of its parts the keys act on, and *)
(* what it shows of the room.  Every part keeps a copy of what it needs of *)
(* the messages that Update passes to all of them.  States of the room     *)
(* come in any order (several goroutines wait for events), and so does     *)
(* what the screen sends to itself.  A card and an issue are their places  *)
(* in the deck and in the list.                                            *)
(***************************************************************************)
EXTENDS Integers, FiniteSets

CONSTANTS
    DeckSizes,
    MaxIssues,
    Unparsable,   \* issues whose link url.Parse does not take
    PasteLimit,   \* bound: texts pasted while Enter is disabled
    NoState

ASSUME DecksHaveCards == DeckSizes # {} /\ DeckSizes \subseteq Nat \ {0}
ASSUME PasteLimitIsNat == PasteLimit \in Nat
ASSUME IssueIndices == MaxIssues \in Nat /\ Unparsable \subseteq 1..MaxIssues

VARIABLES
    gameState,      \* model.gameState
    room,           \* model.roomID and the isDealer of the parts: "none", "player", "dealer"
    roomViewState,
    commandMode,    \* what CommandModeChange said last
    inputFocused,
    voteCursor,
    finishCursor,
    issueCursor,
    modeChanges,    \* CommandModeChange messages under way
    enter,          \* disableEnterKey, restarts signalled, how many messages delayed or sent
    infos,          \* issueView.issues: per issue, "unknown", "fetching" or "fetched"
    fetches         \* fetchIssue commands that run

cursors == <<voteCursor, finishCursor, issueCursor>>
titles == <<infos, fetches>>
vars == <<gameState, room, roomViewState, commandMode, inputFocused, cursors, modeChanges,
          enter, titles>>

IssueIndex == 1..MaxIssues
VoteStates == {"idle", "voting", "revealed", "finished"}

\* States a dealer publishes: the active issue is in the list, the hint in the deck.
States ==
    {s \in [deck : DeckSizes, issues : 0..MaxIssues, active : 0..MaxIssues,
            voteState : VoteStates, hint : -1..1] :
        /\ s.active <= s.issues
        /\ s.active = 0 <=> s.voteState = "idle"
        /\ s.hint < s.deck
        /\ s.voteState \in {"idle", "voting"} => s.hint = -1}

VoteState == IF gameState = NoState THEN "idle" ELSE gameState.voteState

-----------------------------------------------------------------------------
(* cursor.Model, whose min is always 0 *)

Cursor == [focused : BOOLEAN, position : Nat, max : Nat]

New == [focused |-> FALSE, position |-> 0, max |-> 0]

SetPosition(c, p) ==
    [c EXCEPT !.position = IF p > c.max THEN c.max ELSE IF p < 0 THEN 0 ELSE p]

\* Mutant: the position is left where it was.
SetRangeOnly(c, max) == [c EXCEPT !.max = IF max < 0 THEN 0 ELSE max]

SetRange(c, max) ==
    LET d == [c EXCEPT !.max = IF max < 0 THEN 0 ELSE max]
    IN SetPosition(d, d.position)

SetFocus(c, focused) == [c EXCEPT !.focused = focused]

Moved(c, step) == IF c.focused THEN SetPosition(c, c.position + step) ELSE c

-----------------------------------------------------------------------------
(* What a message does to the parts: deckView and issuesListView keep copies of *)
(* the command mode mode, of their own focus in view, and of the room.          *)

UpdateCursorsState(v, f, vs, mode, view, r) ==
    /\ voteCursor' = SetFocus(v, ~mode /\ view = "ActiveIssueView" /\ vs = "voting")
    /\ finishCursor' =
        SetFocus(f, ~mode /\ view = "ActiveIssueView" /\ vs = "revealed" /\ r = "dealer")

UpdateCursorFocus(c, mode, view, r) ==
    issueCursor' = SetFocus(c, ~mode /\ view = "IssuesListView" /\ r = "dealer")

\* A state in which votes are shown puts the finish cursor on the hint, whenever
\* it comes, and before the cursor knows the size of the deck.
ShowDeck(s) ==
    LET size == IF s = NoState THEN 0 ELSE s.deck
        shown == s # NoState /\ s.voteState \in {"revealed", "finished"}
        finish == IF shown THEN SetPosition(finishCursor, s.hint) ELSE finishCursor
        vs == IF s = NoState THEN "idle" ELSE s.voteState
    IN UpdateCursorsState(SetRange(voteCursor, size - 1), SetRange(finish, size - 1),
                          vs, commandMode, roomViewState, room)

ShowIssues(s) ==
    LET issues == IF s = NoState THEN 0 ELSE s.issues
    IN UpdateCursorFocus(SetRange(issueCursor, issues - 1), commandMode, roomViewState, room)

-----------------------------------------------------------------------------
(* The issue's title: issueView *)

\* Mutant: what is being fetched is not noted.
AskForTitleAgain(s) ==
    IF s # NoState /\ s.active # 0 /\ infos[s.active] # "fetched"
    THEN fetches' = [fetches EXCEPT ![s.active] = @ + 1] /\ UNCHANGED infos
    ELSE UNCHANGED titles

\* Mutant: the command is overwritten by that of the spinner.
AskForTitleLost(s) ==
    IF s # NoState /\ s.active # 0 /\ infos[s.active] = "unknown"
    THEN infos' = [infos EXCEPT ![s.active] = "fetching"] /\ UNCHANGED fetches
    ELSE UNCHANGED titles

AskForTitle(s) ==
    IF s # NoState /\ s.active # 0 /\ infos[s.active] = "unknown"
    THEN /\ fetches' = [fetches EXCEPT ![s.active] = @ + 1]
         /\ infos' = [infos EXCEPT ![s.active] = "fetching"]
    ELSE UNCHANGED titles

\* The request ends, in ten seconds at most, with a title or an error; a link
\* that cannot be parsed ends without a message.
FetchIssue(i) ==
    /\ fetches[i] > 0
    /\ fetches' = [fetches EXCEPT ![i] = @ - 1]
    /\ infos' = [infos EXCEPT ![i] = IF i \in Unparsable THEN @ ELSE "fetched"]
    /\ UNCHANGED <<gameState, room, roomViewState, commandMode, inputFocused, cursors,
                   modeChanges, enter>>

-----------------------------------------------------------------------------
(* Messages *)

HandleGameState(s) ==
    /\ gameState' = s
    /\ ShowDeck(s)
    /\ ShowIssues(s)
    /\ AskForTitle(s)
    /\ UNCHANGED <<room, roomViewState, commandMode, inputFocused, modeChanges, enter>>

HandleRoomJoin(r) ==
    /\ room' = r
    /\ UpdateCursorsState(voteCursor, finishCursor, VoteState, commandMode, roomViewState, r)
    /\ UpdateCursorFocus(issueCursor, commandMode, roomViewState, r)
    /\ UNCHANGED <<gameState, roomViewState, commandMode, inputFocused, modeChanges, enter, titles>>

\* Mutant: the list of issues does not hear of it.
HandleCommandModeNotInList(mode) ==
    /\ mode \in modeChanges
    /\ modeChanges' = modeChanges \ {mode}
    /\ commandMode' = mode
    /\ inputFocused' = mode
    /\ UpdateCursorsState(voteCursor, finishCursor, VoteState, mode, roomViewState, room)
    /\ UNCHANGED <<issueCursor, gameState, room, roomViewState, enter, titles>>

HandleCommandMode(mode) ==
    /\ mode \in modeChanges
    /\ modeChanges' = modeChanges \ {mode}
    /\ commandMode' = mode
    /\ inputFocused' = mode
    /\ UpdateCursorsState(voteCursor, finishCursor, VoteState, mode, roomViewState, room)
    /\ UpdateCursorFocus(issueCursor, mode, roomViewState, room)
    /\ UNCHANGED <<gameState, room, roomViewState, enter, titles>>

\* Mutant: the channel of the goroutine that ended is kept.
HandleEnableEnterKeyKeepsChannel ==
    /\ enter.sent > 0
    /\ enter' = [enter EXCEPT !.sent = @ - 1, !.disabled = FALSE]
    /\ UNCHANGED <<gameState, room, roomViewState, commandMode, inputFocused, cursors,
                   modeChanges, titles>>

HandleEnableEnterKey ==
    /\ enter.sent > 0
    /\ enter' = [enter EXCEPT !.sent = @ - 1, !.disabled = FALSE, !.channel = FALSE, !.restarts = 0]
    /\ UNCHANGED <<gameState, room, roomViewState, commandMode, inputFocused, cursors,
                   modeChanges, titles>>

-----------------------------------------------------------------------------
(* Keys *)

ToggleRoomView ==
    LET view == IF roomViewState = "ActiveIssueView" THEN "IssuesListView" ELSE "ActiveIssueView"
    IN /\ roomViewState' = view
       /\ UpdateCursorsState(voteCursor, finishCursor, VoteState, commandMode, view, room)
       /\ UpdateCursorFocus(issueCursor, commandMode, view, room)

\* What Enter asks the game for: ProcessUserInput (anything), the card under a
\* cursor, or the issue under a cursor, which leaves the list.
EnterMeans ==
    CASE inputFocused -> "input"
      [] ~inputFocused /\ gameState = NoState -> "nothing"
      [] ~inputFocused /\ gameState # NoState /\ roomViewState = "IssuesListView" -> "select"
      [] ~inputFocused /\ gameState # NoState /\ roomViewState = "ActiveIssueView" ->
            CASE VoteState = "voting" -> "vote"
              [] VoteState = "revealed" -> "finish"
              [] VoteState \in {"idle", "finished"} -> "nothing"

KeyEnter ==
    /\ ~enter.disabled
    /\ IF EnterMeans = "select" THEN ToggleRoomView ELSE UNCHANGED <<roomViewState, cursors>>
    /\ UNCHANGED <<gameState, room, commandMode, inputFocused, modeChanges, enter, titles>>

KeyTab ==
    /\ room # "none"
    /\ ToggleRoomView
    /\ UNCHANGED <<gameState, room, commandMode, inputFocused, modeChanges, enter, titles>>

KeyShiftTab ==
    /\ modeChanges' = modeChanges \cup {~commandMode}
    /\ UNCHANGED <<gameState, room, roomViewState, commandMode, inputFocused, cursors, enter, titles>>

\* Left and right, up and down: every part sees the key.
KeyArrow(horizontal, step) ==
    /\ voteCursor' = IF horizontal THEN Moved(voteCursor, step) ELSE voteCursor
    /\ finishCursor' = IF horizontal THEN Moved(finishCursor, step) ELSE finishCursor
    /\ issueCursor' = IF horizontal THEN issueCursor ELSE Moved(issueCursor, step)
    /\ UNCHANGED <<gameState, room, roomViewState, commandMode, inputFocused, modeChanges,
                   enter, titles>>

\* Mutant: every paste starts a goroutine.
PasteIssuesDelaysAgain ==
    /\ ~inputFocused
    /\ enter.restarts < PasteLimit
    /\ enter' = [enter EXCEPT !.disabled = TRUE, !.channel = TRUE, !.delayed = @ + 1]
    /\ UNCHANGED <<gameState, room, roomViewState, commandMode, inputFocused, cursors,
                   modeChanges, titles>>

\* handlePastedText of a list of issues: Enter is disabled, as every end of a
\* line is one, and a goroutine will enable it; there is no second one, it is
\* signalled to wait again.
PasteIssues ==
    /\ ~inputFocused
    /\ enter.restarts < PasteLimit
    /\ enter' = IF enter.channel
                THEN [enter EXCEPT !.disabled = TRUE, !.restarts = @ + 1]
                ELSE [enter EXCEPT !.disabled = TRUE, !.channel = TRUE, !.delayed = @ + 1]
    /\ UNCHANGED <<gameState, room, roomViewState, commandMode, inputFocused, cursors,
                   modeChanges, titles>>

\* DelayMessage: a signal may still be there when the time is over.
DelayRestarted ==
    /\ enter.delayed > 0 /\ enter.restarts > 0
    /\ enter' = [enter EXCEPT !.restarts = @ - 1]
    /\ UNCHANGED <<gameState, room, roomViewState, commandMode, inputFocused, cursors,
                   modeChanges, titles>>

DelayOver ==
    /\ enter.delayed > 0
    /\ enter' = [enter EXCEPT !.delayed = @ - 1, !.sent = @ + 1]
    /\ UNCHANGED <<gameState, room, roomViewState, commandMode, inputFocused, cursors,
                   modeChanges, titles>>

-----------------------------------------------------------------------------
(* Specification *)

Init ==
    /\ gameState = NoState
    /\ room = "none"
    /\ roomViewState = "ActiveIssueView"
    /\ commandMode = FALSE
    /\ inputFocused = FALSE
    /\ voteCursor = New /\ finishCursor = New /\ issueCursor = New
    /\ modeChanges = {}
    /\ enter = [disabled |-> FALSE, channel |-> FALSE, restarts |-> 0, delayed |-> 0, sent |-> 0]
    /\ infos = [i \in IssueIndex |-> "unknown"]
    /\ fetches = [i \in IssueIndex |-> 0]

Next ==
    \/ \E s \in States \cup {NoState} : HandleGameState(s)
    \/ \E r \in {"none", "player", "dealer"} : HandleRoomJoin(r)
    \/ \E mode \in BOOLEAN : HandleCommandMode(mode)
    \/ HandleEnableEnterKey
    \/ KeyEnter
    \/ KeyTab
    \/ KeyShiftTab
    \/ \E horizontal \in BOOLEAN, step \in {-1, 1} : KeyArrow(horizontal, step)
    \/ PasteIssues
    \/ DelayRestarted
    \/ DelayOver
    \/ \E i \in IssueIndex : FetchIssue(i)

Spec == Init /\ [][Next]_vars

\* Messages are taken, requests end; time passes, and pastes leave a tenth of a
\* second between them now and then.
Fairness ==
    /\ WF_vars(HandleEnableEnterKey)
    /\ WF_vars(DelayOver)
    /\ \A i \in IssueIndex : WF_vars(FetchIssue(i))

FairSpec == Spec /\ Fairness

-----------------------------------------------------------------------------
(* Properties *)

\* Values the variables take.
TypeOK ==
    /\ gameState \in States \cup {NoState}
    /\ room \in {"none", "player", "dealer"}
    /\ roomViewState \in {"ActiveIssueView", "IssuesListView"}
    /\ commandMode \in BOOLEAN /\ inputFocused \in BOOLEAN
    /\ \A c \in {voteCursor, finishCursor, issueCursor} : c \in Cursor
    /\ modeChanges \subseteq BOOLEAN
    /\ enter \in [disabled : BOOLEAN, channel : BOOLEAN, restarts : 0..PasteLimit,
                  delayed : 0..1, sent : 0..1]
    /\ infos \in [IssueIndex -> {"unknown", "fetching", "fetched"}]
    /\ fetches \in [IssueIndex -> Nat]

\* However decks and lists change under a cursor, Enter takes a card of the deck
\* that is shown (cursorCommand lets the index after the last one through, which
\* would end the program) and an issue of the list.
EnterStaysInRange ==
    /\ EnterMeans = "vote" => voteCursor.position < gameState.deck
    /\ EnterMeans = "finish" => finishCursor.position < gameState.deck
    /\ EnterMeans = "select" =>
        issueCursor.position < gameState.issues \/ issueCursor.position = 0

\* The parts, each with its own copies, agree on who has the keys: the input or
\* one cursor; and Enter does not vote while the arrows move another cursor.
OneHasTheKeys ==
    /\ inputFocused => \A c \in {voteCursor, finishCursor, issueCursor} : ~c.focused
    /\ EnterMeans = "vote" <=> voteCursor.focused
    /\ EnterMeans = "finish" /\ room = "dealer" <=> finishCursor.focused
    /\ EnterMeans \in {"select", "nothing"} /\ roomViewState = "IssuesListView" /\ room = "dealer" <=>
        issueCursor.focused

\* After a paste, and a second one that comes when the first has just had its
\* time, Enter comes back.
EnterComesBack == enter.disabled ~> ~enter.disabled

\* An issue's title is asked for once, whatever states come in what order.
FetchedOnce == \A i \in IssueIndex : fetches[i] <= 1 /\ (infos[i] = "fetched" => fetches[i] = 0)

\* What is waited for is under way: while Enter is disabled, one message that will
\* enable it, although a paste may come between its delay and its arrival; and
\* while an issue has no title yet, one request, made at the latest when the
\* issue becomes the active one.
AwaitedIsUnderWay ==
    /\ enter.disabled => enter.delayed + enter.sent = 1
    /\ \A i \in IssueIndex \ Unparsable :
        /\ infos[i] = "fetching" => fetches[i] = 1
        /\ gameState # NoState /\ gameState.active = i => infos[i] # "unknown"

\* The active issue does not stay without a title or an error.
TitleIsFetched ==
    \A i \in IssueIndex \ Unparsable :
        (gameState # NoState /\ gameState.active = i) ~> (infos[i] = "fetched")

=============================================================================
