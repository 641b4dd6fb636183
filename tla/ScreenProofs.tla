---------------------------- MODULE ScreenProofs ----------------------------
(***************************************************************************)
(* Proofs about Screen, for all sizes of decks and lists: Enter takes a    *)
(* card that is in the deck and an issue that is in the list; the parts of *)
(* the screen agree on who has the keys; a title is asked for once, and    *)
(* neither Enter nor a title is waited for without something under way.    *)
(*                                                                         *)
(* A cursor is within its range after every operation, and its range is    *)
(* that of the state shown; the focus of each is a function of the command *)
(* mode, the view, the room and the state, though each part is told of     *)
(* them by itself.                                                         *)
(***************************************************************************)
EXTENDS Screen, TLAPS

Good(c) == c \in Cursor /\ c.position <= c.max

\* The range a cursor over n things has.
Last(n) == IF n - 1 < 0 THEN 0 ELSE n - 1

CursorInv ==
    /\ \A c \in {voteCursor, finishCursor, issueCursor} : Good(c)
    /\ gameState # NoState =>
        /\ voteCursor.max = Last(gameState.deck) /\ finishCursor.max = Last(gameState.deck)
        /\ issueCursor.max = Last(gameState.issues)

FocusInv ==
    /\ inputFocused = commandMode
    /\ voteCursor.focused =
        (~commandMode /\ roomViewState = "ActiveIssueView" /\ VoteState = "voting")
    /\ finishCursor.focused =
        (~commandMode /\ roomViewState = "ActiveIssueView" /\ VoteState = "revealed" /\ room = "dealer")
    /\ issueCursor.focused = (~commandMode /\ roomViewState = "IssuesListView" /\ room = "dealer")

\* There is one delayed or sent message while there is a channel.
EnterInv == enter.delayed + enter.sent = IF enter.channel THEN 1 ELSE 0

FetchInv == \A i \in IssueIndex : fetches[i] \in 0..1 /\ (fetches[i] = 1 => infos[i] = "fetching")

ScreenInv == TypeOK /\ CursorInv /\ FocusInv /\ EnterInv /\ FetchInv

-----------------------------------------------------------------------------
(* Cursors *)

LEMMA SetPositionGood ==
    ASSUME NEW c \in Cursor, NEW p \in Int
    PROVE  /\ Good(SetPosition(c, p))
           /\ SetPosition(c, p).max = c.max /\ SetPosition(c, p).focused = c.focused
BY DEF SetPosition, Good, Cursor

LEMMA SetRangeGood ==
    ASSUME NEW c \in Cursor, NEW m \in Int
    PROVE  /\ Good(SetRange(c, m))
           /\ SetRange(c, m).max = IF m < 0 THEN 0 ELSE m
           /\ SetRange(c, m).focused = c.focused
<1> DEFINE d == [c EXCEPT !.max = IF m < 0 THEN 0 ELSE m]
<1>1. d \in Cursor /\ d.position \in Int /\ d.focused = c.focused
      /\ d.max = IF m < 0 THEN 0 ELSE m
  BY DEF Cursor
<1>2. SetRange(c, m) = SetPosition(d, d.position)
  BY DEF SetRange
<1> HIDE DEF d
<1>3. QED
  BY <1>1, <1>2, SetPositionGood

LEMMA SetFocusGood ==
    ASSUME NEW c, Good(c), NEW focused \in BOOLEAN
    PROVE  /\ Good(SetFocus(c, focused))
           /\ SetFocus(c, focused).max = c.max /\ SetFocus(c, focused).focused = focused
BY DEF SetFocus, Good, Cursor

LEMMA MovedGood ==
    ASSUME NEW c, Good(c), NEW step \in {-1, 1}
    PROVE  Good(Moved(c, step)) /\ Moved(c, step).max = c.max /\ Moved(c, step).focused = c.focused
<1>1. c \in Cursor /\ c.position + step \in Int
  BY DEF Good, Cursor
<1>2. QED
  BY <1>1, SetPositionGood DEF Moved

\* What every part does when it is told of the mode, the view, or the room.
LEMMA FocusUpdate ==
    ASSUME NEW v, NEW f, NEW c, Good(v), Good(f), Good(c),
           NEW vs, NEW mode \in BOOLEAN, NEW view, NEW r,
           UpdateCursorsState(v, f, vs, mode, view, r), UpdateCursorFocus(c, mode, view, r)
    PROVE  /\ Good(voteCursor') /\ Good(finishCursor') /\ Good(issueCursor')
           /\ voteCursor'.max = v.max /\ finishCursor'.max = f.max /\ issueCursor'.max = c.max
           /\ voteCursor'.focused = (~mode /\ view = "ActiveIssueView" /\ vs = "voting")
           /\ finishCursor'.focused =
                (~mode /\ view = "ActiveIssueView" /\ vs = "revealed" /\ r = "dealer")
           /\ issueCursor'.focused = (~mode /\ view = "IssuesListView" /\ r = "dealer")
<1> DEFINE fv == ~mode /\ view = "ActiveIssueView" /\ vs = "voting"
           ff == ~mode /\ view = "ActiveIssueView" /\ vs = "revealed" /\ r = "dealer"
           fi == ~mode /\ view = "IssuesListView" /\ r = "dealer"
<1>1. fv \in BOOLEAN /\ ff \in BOOLEAN /\ fi \in BOOLEAN
  OBVIOUS
<1>2. voteCursor' = SetFocus(v, fv) /\ finishCursor' = SetFocus(f, ff) /\ issueCursor' = SetFocus(c, fi)
  BY DEF UpdateCursorsState, UpdateCursorFocus
<1>3. QED
  BY <1>1, <1>2, SetFocusGood

-----------------------------------------------------------------------------
(* States and titles *)

LEMMA StateShape ==
    ASSUME NEW s \in States
    PROVE  /\ s.deck \in Nat \ {0} /\ s.issues \in 0..MaxIssues /\ s.active \in 0..MaxIssues
           /\ s.hint \in Int /\ s.voteState \in VoteStates
<1>1. s \in [deck : DeckSizes, issues : 0..MaxIssues, active : 0..MaxIssues,
              voteState : VoteStates, hint : -1..1]
  BY DEF States
<1>2. s.hint \in -1..1 /\ s.deck \in DeckSizes
  BY <1>1
<1>3. s.deck \in Nat \ {0}
  BY <1>2, DecksHaveCards
<1>4. s.hint \in Int
  BY <1>2
<1>5. QED
  BY <1>1, <1>3, <1>4

LEMMA ShowStateStep ==
    ASSUME ScreenInv, NEW s \in States \cup {NoState}, ShowDeck(s), ShowIssues(s), gameState' = s,
           UNCHANGED <<room, roomViewState, commandMode, inputFocused>>
    PROVE  CursorInv' /\ FocusInv'
<1> DEFINE size == IF s = NoState THEN 0 ELSE s.deck
           shown == s # NoState /\ s.voteState \in {"revealed", "finished"}
           finish == IF shown THEN SetPosition(finishCursor, s.hint) ELSE finishCursor
           issues == IF s = NoState THEN 0 ELSE s.issues
           vs == IF s = NoState THEN "idle" ELSE s.voteState
           v == SetRange(voteCursor, size - 1)
           f == SetRange(finish, size - 1)
           c == SetRange(issueCursor, issues - 1)
<1>1. size \in Nat /\ issues \in Nat /\ (s # NoState => size = s.deck /\ issues = s.issues)
  BY StateShape, IssueIndices
<1>2. voteCursor \in Cursor /\ issueCursor \in Cursor /\ finish \in Cursor
  BY StateShape, SetPositionGood DEF ScreenInv, TypeOK, Good
<1>3. vs = VoteState'
  BY DEF VoteState
<1>4. /\ UpdateCursorsState(v, f, vs, commandMode, roomViewState, room)
      /\ UpdateCursorFocus(c, commandMode, roomViewState, room)
  BY DEF ShowDeck, ShowIssues
<1> HIDE DEF size, finish, issues, vs
<1>5. /\ Good(v) /\ Good(f) /\ Good(c)
      /\ v.max = Last(size) /\ f.max = Last(size) /\ c.max = Last(issues)
  <2>1. size - 1 \in Int /\ issues - 1 \in Int
    BY <1>1
  <2>2. QED
    BY <1>2, <2>1, SetRangeGood DEF Last
<1> HIDE DEF v, f, c
<1>6. commandMode \in BOOLEAN
  BY DEF ScreenInv, TypeOK
<1>7. CursorInv'
  BY <1>1, <1>4, <1>5, <1>6, FocusUpdate DEF CursorInv
<1>8. FocusInv'
  BY <1>3, <1>4, <1>5, <1>6, FocusUpdate DEF ScreenInv, FocusInv
<1>9. QED
  BY <1>7, <1>8

LEMMA AskForTitleStep ==
    ASSUME ScreenInv, NEW s \in States \cup {NoState}, AskForTitle(s)
    PROVE  /\ infos' \in [IssueIndex -> {"unknown", "fetching", "fetched"}]
           /\ fetches' \in [IssueIndex -> Nat]
           /\ FetchInv'
<1>1. CASE UNCHANGED titles
  BY <1>1 DEF titles, ScreenInv, TypeOK, FetchInv
<1>2. CASE s # NoState /\ s.active # 0 /\ infos[s.active] = "unknown"
  <2>1. s.active \in IssueIndex
    BY <1>2, StateShape, IssueIndices DEF IssueIndex
  <2>2. fetches[s.active] = 0
    BY <1>2, <2>1 DEF ScreenInv, FetchInv
  <2>3. fetches' = [fetches EXCEPT ![s.active] = 1] /\ infos' = [infos EXCEPT ![s.active] = "fetching"]
    BY <1>2, <2>2 DEF AskForTitle
  <2>4. QED
    BY <2>1, <2>3 DEF ScreenInv, TypeOK, FetchInv
<1>3. QED
  BY <1>1, <1>2 DEF AskForTitle

LEMMA FetchStep ==
    ASSUME ScreenInv, NEW i \in IssueIndex, FetchIssue(i)
    PROVE  ScreenInv'
<1>1. /\ fetches[i] \in 0..1 /\ fetches[i] > 0
      /\ fetches' = [fetches EXCEPT ![i] = @ - 1]
      /\ infos' = [infos EXCEPT ![i] = IF i \in Unparsable THEN @ ELSE "fetched"]
  BY DEF FetchIssue, ScreenInv, FetchInv
<1>2. fetches' = [fetches EXCEPT ![i] = 0]
  <2>1. fetches[i] - 1 = 0
    BY <1>1
  <2>2. QED
    BY <1>1, <2>1
<1>3. UNCHANGED <<gameState, room, roomViewState, commandMode, inputFocused, voteCursor, finishCursor,
                  issueCursor, modeChanges, enter>>
  BY DEF FetchIssue, cursors
<1>4. TypeOK'
  BY <1>1, <1>2, <1>3 DEF ScreenInv, TypeOK
<1>5. FetchInv'
  <2>1. \A j \in IssueIndex : fetches'[j] = IF j = i THEN 0 ELSE fetches[j]
    BY <1>2 DEF ScreenInv, TypeOK
  <2>2. \A j \in IssueIndex : j # i => infos'[j] = infos[j]
    BY <1>1 DEF ScreenInv, TypeOK
  <2>3. QED
    BY <2>1, <2>2 DEF ScreenInv, FetchInv
<1>6. CursorInv' /\ FocusInv' /\ EnterInv'
  BY <1>3 DEF ScreenInv, CursorInv, FocusInv, EnterInv, VoteState
<1>7. QED
  BY <1>4, <1>5, <1>6 DEF ScreenInv

-----------------------------------------------------------------------------
(* Messages and keys *)

LEMMA GameStateStep ==
    ASSUME ScreenInv, NEW s \in States \cup {NoState}, HandleGameState(s)
    PROVE  ScreenInv'
<1>1. CursorInv' /\ FocusInv'
  BY ShowStateStep DEF HandleGameState
<1>2. /\ infos' \in [IssueIndex -> {"unknown", "fetching", "fetched"}]
      /\ fetches' \in [IssueIndex -> Nat] /\ FetchInv'
  BY AskForTitleStep DEF HandleGameState
<1>3. TypeOK'
  BY <1>1, <1>2 DEF HandleGameState, ScreenInv, TypeOK, CursorInv, Good
<1>4. EnterInv'
  BY DEF HandleGameState, ScreenInv, EnterInv
<1>5. QED
  BY <1>1, <1>2, <1>3, <1>4 DEF ScreenInv

\* All parts are told of a new mode, view or room.
LEMMA TellAll ==
    ASSUME ScreenInv, NEW mode \in BOOLEAN, NEW view \in {"ActiveIssueView", "IssuesListView"},
           NEW r \in {"none", "player", "dealer"},
           UpdateCursorsState(voteCursor, finishCursor, VoteState, mode, view, r),
           UpdateCursorFocus(issueCursor, mode, view, r),
           commandMode' = mode, inputFocused' = mode, roomViewState' = view, room' = r,
           modeChanges' \subseteq BOOLEAN,
           UNCHANGED <<gameState, enter, infos, fetches>>
    PROVE  ScreenInv'
<1>1. Good(voteCursor) /\ Good(finishCursor) /\ Good(issueCursor)
  BY DEF ScreenInv, CursorInv
<1>2. VoteState' = VoteState
  BY DEF VoteState
<1>3. CursorInv'
  BY <1>1, FocusUpdate DEF ScreenInv, CursorInv
<1>4. FocusInv'
  BY <1>1, <1>2, FocusUpdate DEF FocusInv
<1>5. TypeOK'
  BY <1>3 DEF ScreenInv, TypeOK, CursorInv, Good
<1>6. EnterInv' /\ FetchInv'
  BY DEF ScreenInv, EnterInv, FetchInv
<1>7. QED
  BY <1>3, <1>4, <1>5, <1>6 DEF ScreenInv

LEMMA RoomJoinStep ==
    ASSUME ScreenInv, NEW r \in {"none", "player", "dealer"}, HandleRoomJoin(r)
    PROVE  ScreenInv'
BY TellAll DEF HandleRoomJoin, ScreenInv, TypeOK, FocusInv, titles

LEMMA CommandModeStep ==
    ASSUME ScreenInv, NEW mode \in BOOLEAN, HandleCommandMode(mode)
    PROVE  ScreenInv'
BY TellAll DEF HandleCommandMode, ScreenInv, TypeOK, titles

LEMMA ToggleStep ==
    ASSUME ScreenInv, ToggleRoomView,
           UNCHANGED <<gameState, room, commandMode, inputFocused, modeChanges, enter, titles>>
    PROVE  ScreenInv'
<1> DEFINE view == IF roomViewState = "ActiveIssueView" THEN "IssuesListView" ELSE "ActiveIssueView"
<1>1. view \in {"ActiveIssueView", "IssuesListView"}
  OBVIOUS
<1>2. /\ roomViewState' = view
      /\ UpdateCursorsState(voteCursor, finishCursor, VoteState, commandMode, view, room)
      /\ UpdateCursorFocus(issueCursor, commandMode, view, room)
  BY DEF ToggleRoomView
<1> HIDE DEF view
<1>3. QED
  BY <1>1, <1>2, TellAll DEF ScreenInv, TypeOK, FocusInv, titles

LEMMA KeySteps ==
    ASSUME ScreenInv, KeyEnter \/ KeyTab \/ KeyShiftTab
    PROVE  ScreenInv'
<1>1. CASE KeyTab \/ (KeyEnter /\ EnterMeans = "select")
  BY <1>1, ToggleStep DEF KeyTab, KeyEnter
<1>2. CASE KeyShiftTab \/ (KeyEnter /\ EnterMeans # "select")
  <2>1. modeChanges' \subseteq BOOLEAN
    BY <1>2 DEF KeyShiftTab, KeyEnter, ScreenInv, TypeOK
  <2>2. UNCHANGED <<gameState, room, roomViewState, commandMode, inputFocused, voteCursor,
                    finishCursor, issueCursor, enter, infos, fetches>>
    BY <1>2 DEF KeyShiftTab, KeyEnter, cursors, titles
  <2>3. QED
    BY <2>1, <2>2 DEF ScreenInv, TypeOK, CursorInv, FocusInv, EnterInv, FetchInv, VoteState
<1>3. QED
  BY <1>1, <1>2

LEMMA ArrowStep ==
    ASSUME ScreenInv, NEW horizontal \in BOOLEAN, NEW step \in {-1, 1}, KeyArrow(horizontal, step)
    PROVE  ScreenInv'
<1>1. Good(voteCursor) /\ Good(finishCursor) /\ Good(issueCursor)
  BY DEF ScreenInv, CursorInv
<1>2. /\ Good(voteCursor') /\ Good(finishCursor') /\ Good(issueCursor')
      /\ voteCursor'.max = voteCursor.max /\ voteCursor'.focused = voteCursor.focused
      /\ finishCursor'.max = finishCursor.max /\ finishCursor'.focused = finishCursor.focused
      /\ issueCursor'.max = issueCursor.max /\ issueCursor'.focused = issueCursor.focused
  BY <1>1, MovedGood DEF KeyArrow
<1>3. UNCHANGED <<gameState, room, roomViewState, commandMode, inputFocused, modeChanges, enter,
                  infos, fetches>>
  BY DEF KeyArrow, titles
<1>4. TypeOK'
  BY <1>2, <1>3 DEF ScreenInv, TypeOK, Good
<1>5. CursorInv' /\ FocusInv'
  BY <1>2, <1>3 DEF ScreenInv, CursorInv, FocusInv, VoteState
<1>6. EnterInv' /\ FetchInv'
  BY <1>3 DEF ScreenInv, EnterInv, FetchInv
<1>7. QED
  BY <1>4, <1>5, <1>6 DEF ScreenInv

\* There is never a second delayed message, whenever texts are pasted.
LEMMA EnterSteps ==
    ASSUME ScreenInv, PasteIssues \/ DelayRestarted \/ DelayOver \/ HandleEnableEnterKey
    PROVE  ScreenInv'
<1>1. UNCHANGED <<gameState, room, roomViewState, commandMode, inputFocused, voteCursor,
                  finishCursor, issueCursor, modeChanges, infos, fetches>>
  BY DEF PasteIssues, DelayRestarted, DelayOver, HandleEnableEnterKey, cursors, titles
<1> DEFINE Enter == [disabled : BOOLEAN, channel : BOOLEAN, restarts : 0..PasteLimit,
                     delayed : 0..1, sent : 0..1]
<1>2. enter \in Enter /\ EnterInv /\ PasteLimit \in Nat
  BY PasteLimitIsNat DEF ScreenInv, TypeOK
<1>3. enter' \in Enter /\ EnterInv'
  <2> DEFINE again == [enter EXCEPT !.disabled = TRUE, !.restarts = @ + 1]
             first == [enter EXCEPT !.disabled = TRUE, !.channel = TRUE, !.delayed = @ + 1]
             over == [enter EXCEPT !.delayed = @ - 1, !.sent = @ + 1]
             back == [enter EXCEPT !.sent = @ - 1, !.disabled = FALSE, !.channel = FALSE, !.restarts = 0]
  <2>0. /\ enter.delayed \in 0..1 /\ enter.sent \in 0..1 /\ enter.restarts \in 0..PasteLimit
        /\ enter.channel \in BOOLEAN
        /\ enter.delayed + enter.sent = IF enter.channel THEN 1 ELSE 0
    BY <1>2 DEF EnterInv
  <2>1. CASE PasteIssues
    <3>1. enter.restarts < PasteLimit
          /\ enter' = IF enter.channel THEN again ELSE first
      BY <2>1 DEF PasteIssues
    <3>2. CASE enter.channel
      <4>1. enter.restarts + 1 \in 0..PasteLimit
        BY <1>2, <2>0, <3>1
      <4>2. enter' \in Enter
        BY <1>2, <3>1, <3>2, <4>1
      <4>3. enter'.delayed = enter.delayed /\ enter'.sent = enter.sent /\ enter'.channel
        BY <1>2, <3>1, <3>2
      <4>4. QED
        BY <2>0, <3>2, <4>2, <4>3 DEF EnterInv
    <3>3. CASE ~enter.channel
      <4>1. enter.delayed + 1 = 1 /\ enter.delayed + 1 \in 0..1 /\ enter.sent = 0
        BY <2>0, <3>3
      <4>2. enter' \in Enter
        BY <1>2, <3>1, <3>3, <4>1
      <4>3. enter'.delayed = enter.delayed + 1 /\ enter'.sent = enter.sent /\ enter'.channel
        BY <1>2, <3>1, <3>3
      <4>4. QED
        BY <4>1, <4>2, <4>3 DEF EnterInv
    <3>4. QED
      BY <3>2, <3>3
  <2>2. CASE DelayRestarted
    BY <1>2, <2>2 DEF DelayRestarted, EnterInv
  <2>3. CASE DelayOver
    <3>1. enter.delayed > 0 /\ enter' = over
      BY <2>3 DEF DelayOver
    <3>2. /\ enter.delayed - 1 = 0 /\ enter.sent + 1 = 1 /\ enter.channel
          /\ enter.delayed - 1 \in 0..1 /\ enter.sent + 1 \in 0..1
      BY <2>0, <3>1
    <3>3. enter' \in Enter
      BY <1>2, <3>1, <3>2
    <3>4. enter'.delayed = enter.delayed - 1 /\ enter'.sent = enter.sent + 1
          /\ enter'.channel = enter.channel
      BY <1>2, <3>1
    <3>5. QED
      BY <3>2, <3>3, <3>4 DEF EnterInv
  <2>4. CASE HandleEnableEnterKey
    <3>1. enter.sent > 0 /\ enter' = back
      BY <2>4 DEF HandleEnableEnterKey
    <3>2. /\ enter.sent - 1 = 0 /\ enter.delayed = 0 /\ enter.sent - 1 \in 0..1
          /\ 0 \in 0..PasteLimit
      BY <1>2, <2>0, <3>1
    <3>3. enter' \in Enter
      BY <1>2, <3>1, <3>2
    <3>4. enter'.delayed = enter.delayed /\ enter'.sent = enter.sent - 1 /\ enter'.channel = FALSE
      BY <1>2, <3>1
    <3>5. QED
      BY <3>2, <3>3, <3>4 DEF EnterInv
  <2>5. QED
    BY <2>1, <2>2, <2>3, <2>4
<1>4. TypeOK'
  BY <1>1, <1>3 DEF ScreenInv, TypeOK
<1>5. CursorInv' /\ FocusInv' /\ FetchInv'
  BY <1>1 DEF ScreenInv, CursorInv, FocusInv, FetchInv, VoteState
<1>6. QED
  BY <1>3, <1>4, <1>5 DEF ScreenInv

-----------------------------------------------------------------------------
(* Theorems *)

LEMMA ScreenInvHolds == Spec => []ScreenInv
<1>1. Init => ScreenInv
  <2> SUFFICES ASSUME Init PROVE ScreenInv
    OBVIOUS
  <2>1. New \in Cursor /\ New.focused = FALSE /\ New.position = 0 /\ New.max = 0
    BY DEF New, Cursor
  <2>2. TypeOK
    <3>1. enter \in [disabled : BOOLEAN, channel : BOOLEAN, restarts : 0..PasteLimit,
                     delayed : 0..1, sent : 0..1]
      <4>1. 0 \in 0..PasteLimit /\ 0 \in 0..1
        BY PasteLimitIsNat
      <4>2. QED
        BY <4>1 DEF Init
    <3>2. voteCursor \in Cursor /\ finishCursor \in Cursor /\ issueCursor \in Cursor
      BY <2>1 DEF Init
    <3>3. infos \in [IssueIndex -> {"unknown", "fetching", "fetched"}] /\ fetches \in [IssueIndex -> Nat]
      BY DEF Init
    <3>4. QED
      BY <3>1, <3>2, <3>3 DEF Init, TypeOK
  <2>3. CursorInv
    BY <2>1 DEF Init, CursorInv, Good
  <2>4. FocusInv
    <3>1. VoteState = "idle" /\ commandMode = FALSE /\ inputFocused = FALSE
          /\ roomViewState = "ActiveIssueView"
      BY DEF Init, VoteState
    <3>2. /\ voteCursor.focused = FALSE /\ finishCursor.focused = FALSE
          /\ issueCursor.focused = FALSE
      BY <2>1 DEF Init
    <3>3. QED
      BY <3>1, <3>2 DEF FocusInv
  <2>5. EnterInv /\ FetchInv
    <3>1. EnterInv
      BY DEF Init, EnterInv
    <3>2. \A i \in IssueIndex : fetches[i] = 0
      BY DEF Init
    <3>3. QED
      BY <3>1, <3>2 DEF FetchInv
  <2>6. QED
    BY <2>2, <2>3, <2>4, <2>5 DEF ScreenInv
<1>2. ScreenInv /\ [Next]_vars => ScreenInv'
  <2> SUFFICES ASSUME ScreenInv, [Next]_vars PROVE ScreenInv'
    OBVIOUS
  <2>1. CASE UNCHANGED vars
    BY <2>1 DEF vars, cursors, titles, ScreenInv, TypeOK, CursorInv, FocusInv, EnterInv, FetchInv,
                VoteState
  <2>2. CASE Next
    BY <2>2, GameStateStep, RoomJoinStep, CommandModeStep, KeySteps, ArrowStep, EnterSteps, FetchStep
       DEF Next
  <2>3. QED
    BY <2>1, <2>2
<1>3. QED
  BY <1>1, <1>2, PTL DEF Spec

\* Type correctness.
THEOREM ScreenTypeCorrect == Spec => []TypeOK
BY ScreenInvHolds, PTL DEF ScreenInv

\* Enter never takes a card or an issue that is not there, in whatever order
\* states, keys and messages come.
THEOREM EnterInRange == Spec => []EnterStaysInRange
<1>1. ScreenInv => EnterStaysInRange
  <2> SUFFICES ASSUME ScreenInv PROVE EnterStaysInRange
    OBVIOUS
  <2>1. CASE gameState = NoState
    BY <2>1 DEF EnterStaysInRange, EnterMeans
  <2>2. CASE gameState # NoState
    <3>1. gameState.deck \in Nat \ {0} /\ gameState.issues \in Nat
      BY <2>2, StateShape, IssueIndices DEF ScreenInv, TypeOK
    <3>2. /\ voteCursor.position \in Nat /\ voteCursor.position <= Last(gameState.deck)
          /\ finishCursor.position \in Nat /\ finishCursor.position <= Last(gameState.deck)
          /\ issueCursor.position \in Nat /\ issueCursor.position <= Last(gameState.issues)
      BY <2>2 DEF ScreenInv, CursorInv, Good, Cursor
    <3>3. QED
      BY <3>1, <3>2 DEF EnterStaysInRange, Last
  <2>3. QED
    BY <2>1, <2>2
<1>2. QED
  BY <1>1, ScreenInvHolds, PTL

\* The input, or one cursor, has the keys, and it is the one that Enter means.
THEOREM OnePartHasTheKeys == Spec => []OneHasTheKeys
<1>1. ScreenInv => OneHasTheKeys
  <2> SUFFICES ASSUME ScreenInv PROVE OneHasTheKeys
    OBVIOUS
  <2>1. /\ VoteState \in VoteStates
        /\ gameState = NoState => VoteState = "idle"
        /\ inputFocused \in BOOLEAN /\ roomViewState \in {"ActiveIssueView", "IssuesListView"}
    BY StateShape DEF ScreenInv, TypeOK, VoteState, VoteStates
  <2>2. FocusInv
    BY DEF ScreenInv
  <2>3. inputFocused => EnterMeans = "input"
    BY DEF EnterMeans
  <2>4. ~inputFocused /\ gameState = NoState => EnterMeans = "nothing"
    BY DEF EnterMeans
  <2>5. ~inputFocused /\ gameState # NoState /\ roomViewState = "IssuesListView" =>
           EnterMeans = "select"
    BY <2>1 DEF EnterMeans
  <2>6. ~inputFocused /\ gameState # NoState /\ roomViewState = "ActiveIssueView" =>
           EnterMeans = CASE VoteState = "voting" -> "vote"
                          [] VoteState = "revealed" -> "finish"
                          [] VoteState \in {"idle", "finished"} -> "nothing"
    BY <2>1 DEF EnterMeans
  <2>7. QED
    BY <2>1, <2>2, <2>3, <2>4, <2>5, <2>6 DEF FocusInv, OneHasTheKeys, VoteStates
<1>2. QED
  BY <1>1, ScreenInvHolds, PTL

\* No title is asked for twice.
THEOREM TitlesFetchedOnce == Spec => []FetchedOnce
<1>1. ScreenInv => FetchedOnce
  BY DEF ScreenInv, FetchInv, FetchedOnce
<1>2. QED
  BY <1>1, ScreenInvHolds, PTL

-----------------------------------------------------------------------------
(* What is awaited *)

TitlesUnderWay ==
    /\ \A i \in IssueIndex \ Unparsable : infos[i] = "fetching" => fetches[i] = 1
    /\ gameState # NoState /\ gameState.active # 0 => infos[gameState.active] # "unknown"

UnderWay == (enter.disabled => enter.channel) /\ TitlesUnderWay

\* The active issue is asked for with the state that makes it the active one.
LEMMA GameStateAsks ==
    ASSUME ScreenInv, UnderWay, NEW s \in States \cup {NoState}, HandleGameState(s)
    PROVE  UnderWay'
<1>1. AskForTitle(s) /\ gameState' = s /\ UNCHANGED enter
  BY DEF HandleGameState
<1>2. infos \in [IssueIndex -> {"unknown", "fetching", "fetched"}] /\ fetches \in [IssueIndex -> Nat]
  BY DEF ScreenInv, TypeOK
<1>3. CASE s # NoState /\ s.active # 0 /\ infos[s.active] = "unknown"
  <2>1. s.active \in IssueIndex
    BY <1>3, StateShape, IssueIndices DEF IssueIndex
  <2>2. fetches[s.active] = 0
    BY <1>3, <2>1 DEF ScreenInv, FetchInv
  <2>3. fetches' = [fetches EXCEPT ![s.active] = 1] /\ infos' = [infos EXCEPT ![s.active] = "fetching"]
    BY <1>1, <1>3, <2>2 DEF AskForTitle
  <2>4. /\ fetches'[s.active] = 1 /\ infos'[s.active] = "fetching"
        /\ \A i \in IssueIndex : i # s.active => fetches'[i] = fetches[i] /\ infos'[i] = infos[i]
    BY <1>2, <2>1, <2>3
  <2>5. QED
    BY <1>1, <2>4 DEF UnderWay, TitlesUnderWay
<1>4. CASE ~(s # NoState /\ s.active # 0 /\ infos[s.active] = "unknown")
  <2>1. UNCHANGED <<infos, fetches>>
    BY <1>1, <1>4 DEF AskForTitle, titles
  <2>2. QED
    BY <1>1, <1>4, <2>1 DEF UnderWay, TitlesUnderWay
<1>5. QED
  BY <1>3, <1>4

LEMMA FetchEnds ==
    ASSUME ScreenInv, UnderWay, NEW i \in IssueIndex, FetchIssue(i)
    PROVE  UnderWay'
<1>1. UNCHANGED <<gameState, enter>>
  BY DEF FetchIssue
<1>2. /\ fetches' = [fetches EXCEPT ![i] = @ - 1]
      /\ infos' = [infos EXCEPT ![i] = IF i \in Unparsable THEN @ ELSE "fetched"]
      /\ infos[i] # "unknown"
  <2>1. fetches[i] = 1
    BY DEF FetchIssue, ScreenInv, FetchInv
  <2>2. QED
    BY <2>1 DEF FetchIssue, ScreenInv, FetchInv
<1>3. infos \in [IssueIndex -> {"unknown", "fetching", "fetched"}] /\ fetches \in [IssueIndex -> Nat]
  BY DEF ScreenInv, TypeOK
<1>4. /\ i \notin Unparsable => infos'[i] = "fetched"
      /\ i \in Unparsable => infos'[i] = infos[i]
      /\ \A j \in IssueIndex : j # i => fetches'[j] = fetches[j] /\ infos'[j] = infos[j]
  BY <1>2, <1>3
<1>5. ASSUME gameState # NoState, gameState.active # 0 PROVE infos'[gameState.active] # "unknown"
  <2>1. gameState.active \in IssueIndex
    BY <1>5, StateShape, IssueIndices DEF ScreenInv, TypeOK, IssueIndex
  <2>2. QED
    BY <1>2, <1>4, <1>5, <2>1 DEF UnderWay, TitlesUnderWay
<1>6. ASSUME NEW j \in IssueIndex \ Unparsable, infos'[j] = "fetching" PROVE fetches'[j] = 1
  BY <1>4, <1>6 DEF UnderWay, TitlesUnderWay
<1>7. QED
  BY <1>1, <1>5, <1>6 DEF UnderWay, TitlesUnderWay

LEMMA UnderWayStep ==
    ASSUME ScreenInv, UnderWay, [Next]_vars
    PROVE  UnderWay'
<1>1. CASE \E s \in States \cup {NoState} : HandleGameState(s)
  BY <1>1, GameStateAsks
<1>2. CASE \E i \in IssueIndex : FetchIssue(i)
  BY <1>2, FetchEnds
<1>3. CASE PasteIssues \/ DelayRestarted \/ DelayOver \/ HandleEnableEnterKey
  <2>1. UNCHANGED <<gameState, infos, fetches>>
    BY <1>3 DEF PasteIssues, DelayRestarted, DelayOver, HandleEnableEnterKey, titles
  <2>2. enter'.disabled => enter'.channel
    BY <1>3 DEF PasteIssues, DelayRestarted, DelayOver, HandleEnableEnterKey, UnderWay, ScreenInv,
                TypeOK
  <2>3. QED
    BY <2>1, <2>2 DEF UnderWay, TitlesUnderWay
<1>4. CASE \/ UNCHANGED vars \/ KeyEnter \/ KeyTab \/ KeyShiftTab
           \/ \E r \in {"none", "player", "dealer"} : HandleRoomJoin(r)
           \/ \E mode \in BOOLEAN : HandleCommandMode(mode)
           \/ \E horizontal \in BOOLEAN, step \in {-1, 1} : KeyArrow(horizontal, step)
  <2>1. UNCHANGED <<gameState, enter, infos, fetches>>
    BY <1>4 DEF vars, titles, KeyEnter, KeyTab, KeyShiftTab, HandleRoomJoin, HandleCommandMode, KeyArrow
  <2>2. QED
    BY <2>1 DEF UnderWay, TitlesUnderWay
<1>5. QED
  BY <1>1, <1>2, <1>3, <1>4 DEF Next

\* A screen that waits for Enter or for a title does not wait in vain.
THEOREM NothingAwaitedInVain == Spec => []AwaitedIsUnderWay
<1>1. Init => UnderWay
  BY DEF Init, UnderWay, TitlesUnderWay
<1>2. ScreenInv /\ UnderWay => AwaitedIsUnderWay
  <2> SUFFICES ASSUME ScreenInv, UnderWay PROVE AwaitedIsUnderWay
    OBVIOUS
  <2>1. enter.disabled => enter.delayed + enter.sent = 1
    BY DEF ScreenInv, EnterInv, UnderWay
  <2>2. ASSUME NEW i \in IssueIndex \ Unparsable, gameState # NoState, gameState.active = i
        PROVE  infos[i] # "unknown"
    <3>1. gameState.active # 0
      BY <2>2, IssueIndices DEF IssueIndex
    <3>2. QED
      BY <2>2, <3>1 DEF UnderWay, TitlesUnderWay
  <2>3. QED
    BY <2>1, <2>2 DEF UnderWay, TitlesUnderWay, AwaitedIsUnderWay
<1>3. QED
  BY <1>1, <1>2, ScreenInvHolds, UnderWayStep, PTL DEF Spec

=============================================================================
