---------------------------- MODULE DealerProofs ----------------------------
(***************************************************************************)
(* Proofs about Dealer, for every set of players, issues, cards, decks and *)
(* times and every value of the other constants: the type invariant and    *)
(* the safety invariants that MCDealer checks on small instances; that the *)
(* dealer implements Voting; and that its room only grows, as long as the  *)
(* dealer does not leave issues behind that it failed to save.             *)
(*                                                                         *)
(* The inductive invariant IInv adds to them that the dealer's room and    *)
(* the saved room are consistent (RoomState), and that a room without a    *)
(* round in progress finds the dealer's own vote reset.  That the two are  *)
(* the same room it does not say: writes fail.  With it, the last two      *)
(* parts need only what a single step does to the room there is, at the    *)
(* dealer or, while the dealer is away, in the file.                       *)
(***************************************************************************)
EXTENDS Dealer, RoomStateProofs

RoomsConsistent ==
    /\ IsDealer => Consistent(state)
    /\ stored # None => Consistent(stored)

VoteBelongs(v, s) == v # None => v \in s.deck /\ s.active # None

MyVoteBelongs == IsDealer => VoteBelongs(myVote, state)

IInv ==
    /\ TypeOK
    /\ RoomsConsistent
    /\ MyVoteBelongs
    /\ AutoRevealArmed
    /\ RunningTimerIsDue

-----------------------------------------------------------------------------
(* What a notification establishes *)

LEMMA DueIssue ==
    ASSUME NEW s, Consistent(s), Due(s)
    PROVE  s.active \in Issues
BY VoteStates DEF Due, Consistent, State

LEMMA NewSnapshotType ==
    ASSUME NEW s, Consistent(s)
    PROVE  NewSnapshot(s) \in Snapshot
BY HiddenType DEF NewSnapshot, Snapshot

\* What a snapshot shows changes with what it shares, and with nothing else.
LEMMA FollowingType ==
    ASSUME NEW x \in Snapshot, NEW s \in State
    PROVE  /\ Following(x, s) \in Snapshot
           /\ Following(x, s).shared = x.shared
           /\ Following(x, s).room.issues = x.room.issues
           /\ Following(x, s).room.active = x.room.active
           /\ Following(x, s).room.revealed = x.room.revealed
<1> DEFINE shows(i) == x.shared /\ i \in Listed(x.room)
           votes  == [i \in Issues |-> IF shows(i) THEN s.votes[i] ELSE x.room.votes[i]]
           result == [i \in Issues |-> IF shows(i) THEN s.result[i] ELSE x.room.result[i]]
           online == IF x.live THEN s.online \cap x.room.players ELSE x.room.online
           room   == [x.room EXCEPT !.online = online, !.votes = votes, !.result = result]
<1>1. x.room \in State /\ x.shared \in BOOLEAN /\ x.live \in BOOLEAN
  BY DEF Snapshot
<1>2. /\ votes \in [Issues -> [Players -> VoteResult \cup {None}]]
      /\ result \in [Issues -> Cards \cup {None}]
      /\ online \in SUBSET Players
  BY <1>1 DEF State
<1>3. Following(x, s) = [x EXCEPT !.room = room]
  BY <1>1 DEF Following, State
<1> HIDE DEF votes, result, online
<1>4. /\ room \in State /\ room.issues = x.room.issues
      /\ room.active = x.room.active /\ room.revealed = x.room.revealed
  BY <1>1, <1>2 DEF State
<1> HIDE DEF room
<1>5. QED
  BY <1>3, <1>4 DEF Snapshot

LEMMA DetachedType ==
    ASSUME NEW x \in Snapshot
    PROVE  /\ Detached(x) \in Snapshot
           /\ Detached(x).shared = x.shared /\ Detached(x).room = x.room
           /\ Frozen(x) \in Snapshot /\ Frozen(x).room = x.room
BY DEF Detached, Frozen, Snapshot

\* A publication joins those under way, which follow the room.
LEMMA PublishAdds ==
    ASSUME NEW s, Publish(s), NEW y \in outbox'
    PROVE  \/ y = NewSnapshot(s)
           \/ \E x \in outbox : y = Following(x, s) \/ y = Following(Detached(x), s)
BY DEF Publish

\* Whatever the step was, a dealer that notifies of a consistent room ends in
\* a state of the invariant.
LEMMA NotifyEstablishes ==
    ASSUME IInv, NEW s, Consistent(s), NotifyChangedState(s),
           status' = "dealer", myVote' \in Cards \cup {None},
           VoteBelongs(myVote', s), forgotten' = forgotten,
           callbacks' \in [Issues -> Nat], routines' \in [Issues -> Nat]
    PROVE  IInv'
<1>1. /\ state' = s /\ s \in State /\ s # None
      /\ stored' \in {s, stored, None}
      /\ timer' = IF Due(s) THEN [issue |-> s.active, fired |-> FALSE] ELSE None
      /\ Publish(s)
  BY NoneIsNoState DEF NotifyChangedState, Save, Rearm, Consistent
<1>2. TypeOK'
  <2>1. timer' \in Timer \cup {None}
    BY <1>1, DueIssue DEF Timer
  <2>2. outbox' \subseteq Snapshot
    <3>1. \A x \in outbox : /\ Following(x, s) \in Snapshot
                            /\ Following(Detached(x), s) \in Snapshot
      BY <1>1, FollowingType, DetachedType DEF IInv, TypeOK
    <3>2. QED
      BY <1>1, <3>1, NewSnapshotType, PublishAdds
  <2>3. stored' \in State \cup {None}
    BY <1>1 DEF IInv, TypeOK
  <2>4. forgotten' \in BOOLEAN
    BY DEF IInv, TypeOK
  <2>5. QED
    BY <1>1, <2>1, <2>2, <2>3, <2>4 DEF TypeOK, Status, IsDealer
<1>3. RoomsConsistent'
  BY <1>1 DEF IInv, RoomsConsistent
<1>4. MyVoteBelongs'
  BY <1>1 DEF MyVoteBelongs, VoteBelongs
<1>5. (timer' # None) <=> Due(s)
  <2>1. Due(s) => timer' \in Timer
    BY <1>1, DueIssue DEF Timer
  <2>2. None \notin Timer
    BY NoneIsNoTimer
  <2>3. QED
    BY <1>1, <2>1, <2>2
<1>6. AutoRevealArmed' /\ RunningTimerIsDue'
  BY <1>1, <1>5 DEF AutoRevealArmed, RunningTimerIsDue, IsDealer
<1>7. QED
  BY <1>2, <1>3, <1>4, <1>6 DEF IInv

-----------------------------------------------------------------------------
(* The steps *)

\* The room a command or a message leads to is consistent, and the dealer's
\* own vote belongs to it; Notify does the rest.
LEMMA NotifyKeeps ==
    ASSUME IInv, IsDealer, NEW s, Consistent(s), Notify(s),
           \/ myVote' = None
           \/ myVote' = myVote /\ s.deck = state.deck
              /\ (state.active # None => s.active # None)
    PROVE  IInv'
<1>1. /\ status' = "dealer" /\ myVote' \in Cards \cup {None}
      /\ callbacks' \in [Issues -> Nat] /\ routines' \in [Issues -> Nat]
  BY DEF Notify, IInv, TypeOK, IsDealer
<1>2. VoteBelongs(myVote', s)
  BY DEF IInv, MyVoteBelongs, VoteBelongs
<1>3. QED
  BY <1>1, <1>2, NotifyEstablishes DEF Notify

LEMMA CommandKeeps ==
    ASSUME IInv, Command
    PROVE  IInv'
<1> DEFINE s == state
<1>1. IsDealer /\ Consistent(s) /\ s \in State
  BY DEF IInv, RoomsConsistent, Consistent, Command, AddIssue, SelectIssue, Deal,
         Reveal, Finish, SetDeck, PublishVote
<1>2. ASSUME NEW i \in Issues, AddIssue(i)
      PROVE  IInv'
  <2>1. Consistent(WithIssue(s, i))
    BY <1>1, <1>2, WithIssueConsistent DEF AddIssue
  <2>2. WithIssue(s, i).deck = s.deck /\ WithIssue(s, i).active = s.active
    BY <1>1 DEF WithIssue, State
  <2>3. QED
    BY <1>1, <1>2, <2>1, <2>2, NotifyKeeps DEF AddIssue
<1>3. ASSUME NEW i \in Issues, SelectIssue(i)
      PROVE  IInv'
  <2>1. Consistent(WithSelected(s, i))
    BY <1>1, <1>3, VoteStates, WithSelectedConsistent DEF SelectIssue, State
  <2>2. WithSelected(s, i).deck = s.deck /\ WithSelected(s, i).active = i
    BY <1>1 DEF WithSelected, State
  <2>3. QED
    BY <1>1, <1>3, <2>1, <2>2, NotifyKeeps, NoneIsNew DEF SelectIssue
<1>4. ASSUME NEW i \in Issues, Deal(i)
      PROVE  IInv'
  <2> DEFINE t == WithIssue(s, i)
  <2>1. Consistent(t) /\ i \in Listed(t)
    BY <1>1, <1>4, WithIssueConsistent, ListedWithIssue DEF Deal
  <2>2. t.deck = s.deck /\ t.revealed = s.revealed /\ t \in State
    BY <1>1, <2>1 DEF WithIssue, State, Consistent
  <2> HIDE DEF t
  <2>3. Consistent(WithSelected(t, i))
    BY <1>1, <1>4, <2>1, <2>2, VoteStates, WithSelectedConsistent DEF Deal, State
  <2>4. WithSelected(t, i).deck = s.deck /\ WithSelected(t, i).active = i
    BY <2>2 DEF WithSelected, State
  <2>5. QED
    BY <1>1, <1>4, <2>3, <2>4, NotifyKeeps, NoneIsNew DEF Deal, t
<1>5. ASSUME Reveal
      PROVE  IInv'
  <2>1. Consistent(WithRevealed(s))
    BY <1>1, <1>5, WithRevealedConsistent DEF Reveal
  <2>2. WithRevealed(s).deck = s.deck /\ WithRevealed(s).active = s.active
    BY <1>1 DEF WithRevealed, State
  <2>3. QED
    BY <1>1, <1>5, <2>1, <2>2, NotifyKeeps DEF Reveal
<1>6. ASSUME NEW card \in Cards, Finish(card)
      PROVE  IInv'
  <2>1. Consistent(WithResult(s, card))
    BY <1>1, <1>6, VoteStates, WithResultConsistent DEF Finish
  <2>2. QED
    BY <1>1, <1>6, <2>1, NotifyKeeps DEF Finish
<1>7. ASSUME NEW deck \in Decks, SetDeck(deck)
      PROVE  IInv'
  <2>1. s.active = None
    BY <1>1, <1>7, VoteStates DEF SetDeck
  <2>2. Consistent(WithDeck(s, deck))
    BY <1>1, <2>1, WithDeckConsistent
  <2>3. myVote' = None
    BY <1>1, <1>7, <2>1 DEF SetDeck, IInv, MyVoteBelongs, VoteBelongs
  <2>4. QED
    BY <1>1, <1>7, <2>2, <2>3, NotifyKeeps DEF SetDeck
<1>8. ASSUME NEW card \in Cards \cup {None}, PublishVote(card)
      PROVE  IInv'
  <2>1. s.active # None
    BY <1>1, <1>8, VoteStates DEF PublishVote
  <2>2. QED
    BY <1>1, <1>8, <2>1
       DEF PublishVote, alarm, IInv, TypeOK, RoomsConsistent,
           MyVoteBelongs, VoteBelongs, AutoRevealArmed, RunningTimerIsDue, IsDealer
<1>9. QED
  BY <1>2, <1>3, <1>4, <1>5, <1>6, <1>7, <1>8 DEF Command

LEMMA MessageKeeps ==
    ASSUME IInv, Message
    PROVE  IInv'
<1> DEFINE s == state
<1>1. IsDealer /\ Consistent(s) /\ s \in State
  BY DEF IInv, RoomsConsistent, Consistent, Message, HandlePlayerOnline,
         HandlePlayerOffline, HandlePlayerVote
<1>2. ASSUME NEW p \in Players, NEW renamed \in BOOLEAN,
             HandlePlayerOnline(p, renamed)
      PROVE  IInv'
  BY <1>1, <1>2, WithOnlineConsistent, NotifyKeeps DEF HandlePlayerOnline
<1>3. ASSUME NEW p \in Players, HandlePlayerOffline(p)
      PROVE  IInv'
  BY <1>1, <1>3, WithOfflineConsistent, NotifyKeeps DEF HandlePlayerOffline
<1>4. ASSUME NEW p \in Players, NEW i \in Issues, NEW card \in Cards \cup {None},
             NEW voted \in Time, NEW sent \in Time,
             HandlePlayerVote(p, i, card, voted, sent)
      PROVE  IInv'
  <2>1. Consistent(WithVote(s, p, card, voted))
    BY <1>1, <1>4, WithVoteConsistent DEF HandlePlayerVote
  <2>2. /\ WithVote(s, p, card, voted).deck = s.deck
        /\ WithVote(s, p, card, voted).active = s.active
    BY <1>1 DEF WithVote, State
  <2>3. QED
    BY <1>1, <1>4, <2>1, <2>2, NotifyKeeps DEF HandlePlayerVote
<1>5. QED
  BY <1>2, <1>3, <1>4 DEF Message

LEMMA TickKeeps ==
    ASSUME IInv, Tick
    PROVE  IInv'
<1>1. IsDealer /\ Consistent(state)
  BY DEF IInv, RoomsConsistent, Tick, WatchPlayersState, PublishStateLoop
<1>2. ASSUME NEW gone \in SUBSET Players, WatchPlayersState(gone)
      PROVE  IInv'
  BY <1>1, <1>2, WithOfflineConsistent, NotifyKeeps DEF WatchPlayersState
<1>3. ASSUME PublishStateLoop
      PROVE  IInv'
  BY <1>1, <1>3, NotifyKeeps DEF PublishStateLoop
<1>4. QED
  BY <1>2, <1>3 DEF Tick

LEMMA AutoRevealStepKeeps ==
    ASSUME IInv, AutoRevealStep
    PROVE  IInv'
<1>1. ASSUME TimerExpires
      PROVE  IInv'
  <2>1. /\ timer \in Timer /\ callbacks \in [Issues -> Nat]
        /\ callbacks' = [callbacks EXCEPT ![timer.issue] = @ + 1]
        /\ timer' \in Timer /\ timer'.fired
    BY <1>1 DEF TimerExpires, IInv, TypeOK, Timer
  <2>2. callbacks' \in [Issues -> Nat] /\ callbacks'[timer.issue] > 0
    BY <2>1 DEF Timer
  <2>3. TypeOK' /\ AutoRevealArmed' /\ RunningTimerIsDue'
    BY <1>1, <2>1, <2>2 DEF TimerExpires, IInv, TypeOK, AutoRevealArmed,
         RunningTimerIsDue, IsDealer, Timer
  <2>4. QED
    BY <1>1, <2>3 DEF TimerExpires, IInv, RoomsConsistent,
         MyVoteBelongs, IsDealer
<1>2. ASSUME NEW i \in Issues, TimerCallback(i)
      PROVE  IInv'
  <2>1. /\ callbacks' \in [Issues -> Nat] /\ routines' \in [Issues -> Nat]
        /\ routines'[i] > 0
    BY <1>2 DEF TimerCallback, IInv, TypeOK
  <2>2. QED
    BY <1>2, <2>1 DEF TimerCallback, IInv, TypeOK, RoomsConsistent,
         MyVoteBelongs, AutoRevealArmed, RunningTimerIsDue, IsDealer
<1>3. ASSUME NEW i \in Issues, AutoRevealRoutine(i)
      PROVE  IInv'
  <2> DEFINE s == WithRevealed(state)
  <2>1. /\ IsDealer /\ Consistent(state) /\ state \in State /\ status' = "dealer"
        /\ routines' \in [Issues -> Nat] /\ callbacks' \in [Issues -> Nat]
        /\ myVote' = myVote /\ myVote \in Cards \cup {None} /\ forgotten' = forgotten
        /\ VoteBelongs(myVote, state)
    BY <1>3 DEF AutoRevealRoutine, IInv, TypeOK, RoomsConsistent, Consistent,
         MyVoteBelongs, IsDealer
  <2>2. CASE VoteState(state) = "voting"
    <3>1. Consistent(s)
      BY <2>1, <2>2, WithRevealedConsistent
    <3>2. VoteBelongs(myVote', s)
      BY <2>1 DEF VoteBelongs, WithRevealed, State
    <3>3. NotifyChangedState(s)
      BY <1>3, <2>2 DEF AutoRevealRoutine
    <3>4. QED
      BY <2>1, <3>1, <3>2, <3>3, NotifyEstablishes
  <2>3. CASE VoteState(state) # "voting"
    <3>1. ~ Due(state)
      BY <2>3 DEF Due
    <3>2. UNCHANGED <<status, state, stored, outbox, timer, myVote>>
      BY <1>3, <2>3 DEF AutoRevealRoutine
    <3>3. QED
      BY <2>1, <3>1, <3>2 DEF IInv, TypeOK, RoomsConsistent,
           MyVoteBelongs, AutoRevealArmed, RunningTimerIsDue, IsDealer
  <2>4. QED
    BY <2>2, <2>3
<1>4. QED
  BY <1>1, <1>2, <1>3 DEF AutoRevealStep

LEMMA PublishStateKeeps ==
    ASSUME IInv, NEW x \in outbox, PublishState(x)
    PROVE  IInv'
BY DEF PublishState, alarm, IInv, TypeOK, RoomsConsistent,
       MyVoteBelongs, AutoRevealArmed, RunningTimerIsDue, IsDealer

LEMMA DieKeeps ==
    ASSUME IInv, NEW how \in Status \ {"dealer"}, Die(how)
    PROVE  IInv'
<1>1. /\ NoPending \in [Issues -> Nat]
      /\ status' \in Status /\ status' # "dealer"
      /\ state' = None /\ timer' = None /\ callbacks' = NoPending
      /\ routines' = NoPending /\ outbox' = {}
      /\ stored' = stored /\ myVote' = myVote /\ forgotten' \in BOOLEAN
  BY DEF Die, LeaveBehind, NoPending, IInv, TypeOK
<1>2. QED
  BY <1>1 DEF IInv, TypeOK, RoomsConsistent,
       MyVoteBelongs, AutoRevealArmed, RunningTimerIsDue, IsDealer

LEMMA LifecycleKeeps ==
    ASSUME IInv, Lifecycle
    PROVE  IInv'
<1>1. ASSUME NEW i \in Issues, AutoRevealPanics(i)
      PROVE  IInv'
  BY <1>1, DieKeeps DEF AutoRevealPanics, Status
<1>2. ASSUME LeaveRoomPanics
      PROVE  IInv'
  BY <1>2, DieKeeps DEF LeaveRoomPanics, Status
<1>3. ASSUME LeaveRoom
      PROVE  IInv'
  <2>1. \A x \in outbox : Frozen(x) \in Snapshot
    BY DetachedType DEF IInv, TypeOK
  <2>2. outbox' \subseteq Snapshot
    BY <1>3, <2>1 DEF LeaveRoom
  <2>3. forgotten' \in BOOLEAN
    BY <1>3 DEF LeaveRoom, LeaveBehind, IInv, TypeOK
  <2>4. QED
    BY <1>3, <2>2, <2>3 DEF LeaveRoom, alarm, Status, IInv, TypeOK, RoomsConsistent,
         MyVoteBelongs, AutoRevealArmed, RunningTimerIsDue, IsDealer
<1>4. ASSUME Crash
      PROVE  IInv'
  BY <1>4, DieKeeps DEF Crash, Status
<1>5. ASSUME NEW online \in SUBSET Players, Rejoin(online)
      PROVE  IInv'
  <2>1. Consistent([stored EXCEPT !.online = online])
    BY <1>5, OnlineConsistent DEF Rejoin, IInv, RoomsConsistent
  <2>2. /\ callbacks' \in [Issues -> Nat] /\ routines' \in [Issues -> Nat]
        /\ status' = "dealer" /\ myVote' = None /\ forgotten' = forgotten
        /\ NotifyChangedState([stored EXCEPT !.online = online])
    BY <1>5 DEF Rejoin, IInv, TypeOK
  <2>3. VoteBelongs(myVote', [stored EXCEPT !.online = online])
    BY <2>2 DEF VoteBelongs
  <2>4. QED
    BY <2>1, <2>2, <2>3, NotifyEstablishes
<1>6. QED
  BY <1>1, <1>2, <1>3, <1>4, <1>5 DEF Lifecycle

-----------------------------------------------------------------------------
(* The invariant *)

LEMMA InitEstablishes == Init => IInv
<1> SUFFICES ASSUME Init
             PROVE  IInv
  OBVIOUS
<1> DEFINE s == NewRoom(Self, DefaultDeck)
<1>1. /\ Consistent(s) /\ s \in State /\ s # None
  BY SelfIsPlayer, DefaultIsDeck, NewRoomConsistent, NoneIsNoState DEF Consistent
<1>2. VoteState(s) = "idle"
  BY <1>1, VoteStates DEF NewRoom
<1>3. NoPending \in [Issues -> Nat]
  BY DEF NoPending
<1>4. outbox \subseteq Snapshot
  BY <1>1, NewSnapshotType DEF Init
<1> HIDE DEF s
<1>5. /\ status = "dealer" /\ state = s /\ stored \in {s, None} /\ forgotten = FALSE
      /\ myVote = None /\ timer = None
      /\ callbacks = NoPending /\ routines = NoPending
  BY DEF Init, s
<1>6. TypeOK
  BY <1>1, <1>3, <1>4, <1>5 DEF TypeOK, Status, IsDealer
<1>7. QED
  BY <1>1, <1>2, <1>5, <1>6 DEF IInv, RoomsConsistent, MyVoteBelongs,
       VoteBelongs, AutoRevealArmed, RunningTimerIsDue, Due

LEMMA StepKeeps ==
    ASSUME IInv, [Next]_vars
    PROVE  IInv'
<1>1. CASE Command
  BY <1>1, CommandKeeps
<1>2. CASE Message
  BY <1>2, MessageKeeps
<1>3. CASE Tick
  BY <1>3, TickKeeps
<1>4. CASE AutoRevealStep
  BY <1>4, AutoRevealStepKeeps
<1>5. CASE \E x \in outbox : PublishState(x)
  BY <1>5, PublishStateKeeps
<1>6. CASE Lifecycle
  BY <1>6, LifecycleKeeps
<1>7. CASE UNCHANGED vars
  BY <1>7 DEF vars, IInv, TypeOK, RoomsConsistent, MyVoteBelongs,
       AutoRevealArmed, RunningTimerIsDue, IsDealer
<1>8. QED
  BY <1>1, <1>2, <1>3, <1>4, <1>5, <1>6, <1>7 DEF Next

\* Every step of the dealer keeps the inductive invariant.
THEOREM Inductive == Spec => []IInv
<1>1. IInv /\ [Next]_vars => IInv'
  BY StepKeeps
<1>2. QED
  BY InitEstablishes, <1>1, PTL DEF Spec

\* Every variable of the dealer always has its type.
THEOREM TypeCorrect == Spec => []TypeOK
<1>1. IInv => TypeOK
  BY DEF IInv
<1>2. QED
  BY Inductive, <1>1, PTL

\* A round is always on a listed issue without an estimate, and votes are
\* shown only in a round (game.go: Deal, SelectIssue, Reveal, Finish).
THEOREM RoundsAreOpen == Spec => []ActiveIssueIsOpen
<1>1. IInv => ActiveIssueIsOpen
  BY DEF IInv, RoomsConsistent, Consistent, RoundIsOpen, ActiveIssueIsOpen
<1>2. QED
  BY Inductive, <1>1, PTL

\* The hint computed on a reveal never meets a vote that is not in the deck.
THEOREM HintsFindTheirCards == Spec => []OpenVotesInDeck
<1>1. IInv => OpenVotesInDeck
  BY DEF IInv, RoomsConsistent, Consistent, VotesFitDeck, OpenVotesInDeck
<1>2. QED
  BY Inductive, <1>1, PTL

\* The dealer's own vote is always a card of the deck in use.
THEOREM MyVoteInDeck == Spec => []MyVoteFitsDeck
<1>1. IInv => MyVoteFitsDeck
  BY DEF IInv, MyVoteBelongs, VoteBelongs, MyVoteFitsDeck
<1>2. QED
  BY Inductive, <1>1, PTL

\* A round in which everyone has voted always has its reveal on the way.
THEOREM AutoRevealIsNeverLost == Spec => []AutoRevealArmed
<1>1. IInv => AutoRevealArmed
  BY DEF IInv
<1>2. QED
  BY Inductive, <1>1, PTL

\* A running timer is always that of the round in progress, with all votes in.
THEOREM TimersAreDue == Spec => []RunningTimerIsDue
<1>1. IInv => RunningTimerIsDue
  BY DEF IInv
<1>2. QED
  BY Inductive, <1>1, PTL

-----------------------------------------------------------------------------
(* The dealer implements Voting: each of its steps is a step of Voting on   *)
(* the room the players believe in and the copy in the file, or leaves both *)
(* alone.                                                                   *)

LEMMA RoomOfDealer ==
    ASSUME IInv, IsDealer
    PROVE  Room = state /\ Consistent(Room) /\ Room \in State
BY NoneIsNoState DEF IInv, TypeOK, RoomsConsistent, Consistent, Room

LEMMA RoomAfterNotify ==
    ASSUME NEW s, NotifyChangedState(s), IsDealer'
    PROVE  Room' = s
BY DEF NotifyChangedState, Room

\* Fields that players and presence alone change are not Voting's.
LEMMA SameRounds ==
    ASSUME Room'.issues = Room.issues, Room'.active = Room.active,
           Room'.revealed = Room.revealed, Room'.votes = Room.votes,
           Room'.result = Room.result
    PROVE  UNCHANGED Rounds!room
BY DEF Rounds!room, Listed, CardsDown

\* Whatever becomes of the write, the file has a copy in Voting's sense.
LEMMA NotifyCopies ==
    ASSUME IsDealer', NEW s, NotifyChangedState(s)
    PROVE  Rounds!Copy
<1>1. stored' \in {s, stored, None} /\ Room' = s
  BY RoomAfterNotify DEF NotifyChangedState, Save
<1>2. CASE stored' = None
  BY <1>2 DEF Rounds!Copy
<1>3. CASE stored' = stored
  BY <1>3 DEF Rounds!Copy, RoundsOf, Listed, CardsDown
<1>4. CASE stored' = s /\ s # None
  BY <1>1, <1>4 DEF Rounds!Copy, Rounds!room, RoundsOf, Listed, CardsDown
<1>5. QED
  BY <1>1, <1>2, <1>3, <1>4

LEMMA NotifyGoes ==
    ASSUME IsDealer, IsDealer', NEW s, NotifyChangedState(s),
           Rounds!Round \/ UNCHANGED Rounds!room
    PROVE  Rounds!Next
BY NotifyCopies DEF Rounds!Next, Rounds!Go, IsDealer

LEMMA SameRoom ==
    ASSUME IsDealer' <=> IsDealer, state' = state, stored' = stored
    PROVE  UNCHANGED Rounds!vars
<1>1. Room' = Room
  BY DEF Room, EmptyRoom
<1>2. UNCHANGED Rounds!room
  BY <1>1, SameRounds
<1>3. QED
  BY <1>2 DEF Rounds!vars, RoundsOf, Listed, CardsDown, IsDealer

LEMMA OfflineRefines ==
    ASSUME IInv, IsDealer, IsDealer', NEW gone,
           NotifyChangedState(WithOffline(state, gone))
    PROVE  Rounds!Next
<1> DEFINE s == state
           t == WithOffline(s, gone)
<1>1. Room = s /\ s \in State
  BY RoomOfDealer
<1>2. /\ t.issues = s.issues /\ t.active = s.active
      /\ t.revealed = s.revealed /\ t.votes = s.votes /\ t.result = s.result
  BY <1>1 DEF WithOffline, State
<1>3. Room' = t
  BY RoomAfterNotify
<1>4. QED
  BY <1>1, <1>2, <1>3, SameRounds, NotifyGoes

\* A vote is not the absence of one.
LEMMA VoteIsNotNone ==
    ASSUME NEW card \in Cards, NEW ts \in Time
    PROVE  [value |-> card, ts |-> ts] # None
BY NoneIsNoVote DEF VoteResult

\* The dealer goes: what is left of the room is the copy.
LEMMA GoingCloses ==
    ASSUME IInv, IsDealer, ~IsDealer', stored' = stored
    PROVE  Rounds!Close
<1>1. Room' = IF stored # None THEN stored ELSE EmptyRoom
  BY DEF Room, EmptyRoom
<1>2. CASE stored # None
  <2>1. Rounds!room' = RoundsOf(stored)
    BY <1>1, <1>2 DEF Rounds!room, RoundsOf, Listed, CardsDown
  <2>2. UNCHANGED IF stored = None THEN {} ELSE {RoundsOf(stored)}
    BY DEF RoundsOf, Listed, CardsDown
  <2>3. QED
    BY <1>2, <2>1, <2>2 DEF Rounds!Close, IsDealer
<1>3. CASE stored = None
  <2>1. /\ Listed(EmptyRoom) = {} /\ EmptyRoom.active = None
        /\ EmptyRoom.revealed = FALSE
        /\ EmptyRoom.result = [i \in Issues |-> None]
        /\ EmptyRoom.votes = [i \in Issues |-> NoVotes]
    BY DEF EmptyRoom, NewRoom, Listed
  <2>2. CardsDown(EmptyRoom) = Rounds!Blank
    BY <2>1 DEF CardsDown, NoVotes, Rounds!Blank, Rounds!Empty
  <2>3. Rounds!room' = <<{}, None, FALSE, Rounds!Blank, Rounds!NoEstimates>>
    BY <1>1, <1>3, <2>1, <2>2 DEF Rounds!room, Rounds!NoEstimates, Listed, CardsDown
  <2>4. QED
    BY <1>3, <2>3 DEF Rounds!Close, IsDealer
<1>4. QED
  BY <1>2, <1>3

-----------------------------------------------------------------------------

LEMMA InitRefines == Init => Rounds!Init
<1> SUFFICES ASSUME Init
             PROVE  Rounds!Init
  OBVIOUS
<1> DEFINE s == NewRoom(Self, DefaultDeck)
<1>1. s # None
  BY SelfIsPlayer, DefaultIsDeck, NewRoomConsistent, NoneIsNoState DEF Consistent
<1>2. Room = s /\ stored \in {s, None} /\ IsDealer
  BY DEF Init, Room, IsDealer
<1>3. /\ Listed(s) = {} /\ s.active = None /\ s.revealed = FALSE
      /\ s.result = [i \in Issues |-> None]
      /\ s.votes = [i \in Issues |-> NoVotes]
  BY DEF NewRoom, Listed
<1>4. CardsDown(s) = Rounds!Blank
  BY <1>3 DEF CardsDown, NoVotes, Rounds!Blank, Rounds!Empty
<1> HIDE DEF s
<1>5. Rounds!room = RoundsOf(s)
  BY <1>2 DEF Rounds!room, RoundsOf
<1>6. (IF stored = None THEN {} ELSE {RoundsOf(stored)}) \in {{Rounds!room}, {}}
  BY <1>1, <1>2, <1>5
<1>7. QED
  BY <1>2, <1>3, <1>4, <1>6 DEF Rounds!Init, Rounds!NoEstimates

LEMMA EmptiedCards ==
    ASSUME NEW s \in State, NEW i \in Issues, NEW t,
           t.votes = [s.votes EXCEPT ![i] = NoVotes]
    PROVE  CardsDown(t) = [CardsDown(s) EXCEPT ![i] = Rounds!Empty]
<1> DEFINE cards(v) == [p \in Players |-> IF v[p] = None THEN None ELSE v[p].value]
<1>1. /\ CardsDown(t) = [j \in Issues |-> cards(t.votes[j])]
      /\ CardsDown(s) = [j \in Issues |-> cards(s.votes[j])]
  BY DEF CardsDown
<1>2. cards(NoVotes) = Rounds!Empty
  BY DEF NoVotes, Rounds!Empty
<1>3. \A j \in Issues : t.votes[j] = IF j = i THEN NoVotes ELSE s.votes[j]
  BY DEF State
<1> HIDE DEF cards
<1>4. QED
  BY <1>1, <1>2, <1>3

LEMMA CommandRefines ==
    ASSUME IInv, Command
    PROVE  [Rounds!Next]_(Rounds!vars)
<1> DEFINE s == state
<1>1. /\ IsDealer /\ IsDealer' /\ Room = s /\ Consistent(s) /\ s \in State
  BY RoomOfDealer DEF Command, AddIssue, SelectIssue, Deal, Reveal, Finish, SetDeck,
     PublishVote, Notify, IsDealer
<1>2. ASSUME NEW i \in Issues, AddIssue(i)
      PROVE  Rounds!Propose(i)
  <2> DEFINE t == WithIssue(s, i)
  <2>1. /\ i \in Issues \ Listed(s) /\ t \in State /\ Room' = t
        /\ Listed(t) = Listed(s) \cup {i}
    BY <1>1, <1>2, WithIssueConsistent, ListedWithIssue, RoomAfterNotify
       DEF AddIssue, Notify, Consistent
  <2>2. /\ t.active = s.active /\ t.revealed = s.revealed
        /\ t.votes = [s.votes EXCEPT ![i] = NoVotes]
        /\ t.result = [s.result EXCEPT ![i] = None]
    BY <1>1 DEF WithIssue, State
  <2>3. t.votes = s.votes /\ t.result = s.result
    BY <1>1, <2>1, <2>2 DEF Consistent, UnlistedIsEmpty, State
  <2>4. QED
    BY <1>1, <2>1, <2>2, <2>3 DEF Rounds!Propose, CardsDown
<1>3. ASSUME NEW i \in Issues, SelectIssue(i)
      PROVE  Rounds!Start(i)
  <2> DEFINE t == WithSelected(s, i)
  <2>1. ~ s.revealed /\ i \in Listed(s)
    BY <1>1, <1>3, VoteStates DEF SelectIssue, State
  <2>2. /\ t.active = i /\ t.revealed = s.revealed /\ t.issues = s.issues
        /\ t.votes = [s.votes EXCEPT ![i] = NoVotes]
        /\ t.result = [s.result EXCEPT ![i] = None]
    BY <1>1 DEF WithSelected, State
  <2>3. t \in State
    BY <1>1, <2>1, WithSelectedConsistent DEF Consistent
  <2>4. Room' = t
    BY <1>1, <1>3, RoomAfterNotify DEF SelectIssue, Notify
  <2>5. Listed(t) = Listed(s) \cup {i}
    BY <2>1, <2>2 DEF Listed
  <2>6. CardsDown(t) = [CardsDown(s) EXCEPT ![i] = Rounds!Empty]
    BY <1>1, <2>2, EmptiedCards
  <2>7. QED
    BY <1>1, <2>1, <2>2, <2>4, <2>5, <2>6 DEF Rounds!Start
<1>4. ASSUME NEW i \in Issues, Deal(i)
      PROVE  Rounds!Start(i)
  <2> DEFINE added == WithIssue(s, i)
             t == WithSelected(added, i)
  <2>1. /\ ~ s.revealed /\ Consistent(added)
        /\ Listed(added) = Listed(s) \cup {i}
    BY <1>1, <1>4, VoteStates, WithIssueConsistent, ListedWithIssue DEF Deal, State
  <2>2. /\ added.revealed = s.revealed /\ added \in State
        /\ added.votes = [s.votes EXCEPT ![i] = NoVotes]
        /\ added.result = [s.result EXCEPT ![i] = None]
    BY <1>1, <2>1 DEF WithIssue, State, Consistent
  <2> HIDE DEF added
  <2>3. /\ t.active = i /\ t.revealed = added.revealed /\ t.issues = added.issues
        /\ t.votes = [added.votes EXCEPT ![i] = NoVotes]
        /\ t.result = [added.result EXCEPT ![i] = None]
    BY <2>2 DEF WithSelected, State
  <2>4. t.votes = added.votes /\ t.result = added.result
    BY <1>1, <2>2, <2>3 DEF State
  <2>5. t \in State
    BY <2>1, <2>2, WithSelectedConsistent DEF Consistent
  <2>6. Room' = t
    BY <1>1, <1>4, RoomAfterNotify DEF Deal, Notify, added
  <2>7. Listed(t) = Listed(s) \cup {i}
    BY <2>1, <2>3 DEF Listed
  <2>8. CardsDown(t) = [CardsDown(s) EXCEPT ![i] = Rounds!Empty]
    BY <1>1, <2>2, <2>4, EmptiedCards
  <2>9. QED
    BY <1>1, <2>1, <2>2, <2>3, <2>4, <2>6, <2>7, <2>8 DEF Rounds!Start
<1>5. ASSUME Reveal
      PROVE  Rounds!Show
  <2> DEFINE t == WithRevealed(s)
  <2>1. s.active # None /\ ~ s.revealed /\ t \in State
    BY <1>1, <1>5, VoteStates, WithRevealedConsistent DEF Reveal, Consistent
  <2>2. Room' = t
    BY <1>1, <1>5, RoomAfterNotify DEF Reveal, Notify
  <2>3. /\ t.active = s.active /\ t.revealed = TRUE /\ t.issues = s.issues
        /\ t.votes = s.votes /\ t.result = s.result
    BY <1>1 DEF WithRevealed, State
  <2>4. QED
    BY <1>1, <2>1, <2>2, <2>3 DEF Rounds!Show, Listed, CardsDown
<1>6. ASSUME NEW card \in Cards, Finish(card)
      PROVE  Rounds!Estimate(card)
  <2> DEFINE done == [s EXCEPT !.result[s.active] = card]
             n == GetNextIssueToDeal(done, s.active)
             t == WithResult(s, card)
  <2>1. s.revealed /\ t \in State
    BY <1>1, <1>6, VoteStates, WithResultConsistent DEF Finish, Consistent
  <2>2. Room' = t
    BY <1>1, <1>6, RoomAfterNotify DEF Finish, Notify
  <2>3. /\ s.active \in Issues /\ None \notin Issues
    BY <1>1, <2>1, NoneIsNew DEF Consistent, RoundIsOpen, State
  <2>4. /\ done \in State /\ done.issues = s.issues /\ done.votes = s.votes
        /\ done.result = [s.result EXCEPT ![s.active] = card]
    <3>1. [s.result EXCEPT ![s.active] = card] \in [Issues -> Cards \cup {None}]
      BY <1>1 DEF State
    <3>2. QED
      BY <1>1, <3>1 DEF State
  <2>5. (n = None /\ Unestimated(done) = {}) \/ n \in Unestimated(done)
    BY <2>4, NextIssueIsOpen
  <2>6. t = [done EXCEPT !.active = n, !.revealed = FALSE]
    BY DEF WithResult
  <2> HIDE DEF n, done, t
  <2>7. /\ t.active = n /\ t.revealed = FALSE /\ t.issues = s.issues
        /\ t.votes = s.votes /\ t.result = [s.result EXCEPT ![s.active] = card]
    BY <2>4, <2>6 DEF State
  <2>8. Listed(t) = Listed(s) /\ CardsDown(t) = CardsDown(s)
    BY <2>7 DEF Listed, CardsDown
  <2>9. Unestimated(done) = {i \in Listed(s) : t.result[i] = None}
    BY <2>4, <2>7 DEF Unestimated, Listed
  <2>10. QED
    BY <1>1, <2>1, <2>2, <2>5, <2>7, <2>8, <2>9 DEF Rounds!Estimate
<1>7. ASSUME NEW deck \in Decks, SetDeck(deck)
      PROVE  UNCHANGED Rounds!room
  <2> DEFINE t == WithDeck(s, deck)
  <2>1. /\ t \in State /\ t.issues = s.issues /\ t.active = s.active
        /\ t.revealed = s.revealed /\ t.votes = s.votes /\ t.result = s.result
    BY <1>1 DEF WithDeck, State
  <2>2. Room' = t
    BY <1>1, <1>7, RoomAfterNotify DEF SetDeck, Notify
  <2>3. QED
    BY <1>1, <2>1, <2>2, SameRounds
<1>8. CASE \E card \in Cards \cup {None} : PublishVote(card)
  BY <1>8, SameRoom DEF PublishVote, IsDealer
<1>9. CASE ~ \E card \in Cards \cup {None} : PublishVote(card)
  <2>1. \E t : Notify(t)
    BY <1>9 DEF Command, AddIssue, SelectIssue, Deal, Reveal, Finish, SetDeck
  <2>2. Rounds!Round \/ UNCHANGED Rounds!room
    BY <1>2, <1>3, <1>4, <1>5, <1>6, <1>7, <1>9 DEF Command, Rounds!Round
  <2>3. QED
    BY <1>1, <2>1, <2>2, NotifyGoes DEF Notify
<1>10. QED
  BY <1>8, <1>9

LEMMA MessageRefines ==
    ASSUME IInv, Message
    PROVE  Rounds!Next
<1> DEFINE s == state
<1>1. /\ IsDealer /\ IsDealer' /\ Room = s /\ Consistent(s) /\ s \in State
      /\ \E t : Notify(t)
  BY RoomOfDealer DEF Message, HandlePlayerOnline, HandlePlayerOffline, HandlePlayerVote,
     Notify, IsDealer
<1>2. ASSUME NEW p \in Players, NEW renamed \in BOOLEAN,
             HandlePlayerOnline(p, renamed)
      PROVE  UNCHANGED Rounds!room
  <2> DEFINE t == WithOnline(s, p)
  <2>1. /\ t \in State /\ t.issues = s.issues /\ t.active = s.active
        /\ t.revealed = s.revealed /\ t.votes = s.votes /\ t.result = s.result
    BY <1>1 DEF WithOnline, State
  <2>2. Room' = t
    BY <1>1, <1>2, RoomAfterNotify DEF HandlePlayerOnline, Notify
  <2>3. QED
    BY <1>1, <2>1, <2>2, SameRounds
<1>3. ASSUME NEW p \in Players, HandlePlayerOffline(p)
      PROVE  Rounds!Next
  BY <1>1, <1>3, OfflineRefines DEF HandlePlayerOffline, Notify
<1>4. ASSUME NEW p \in Players, NEW i \in Issues, NEW card \in Cards \cup {None},
             NEW voted \in Time, NEW sent \in Time,
             HandlePlayerVote(p, i, card, voted, sent)
      PROVE  Rounds!Cast(p, card)
  <2> DEFINE vote == IF card = None THEN None ELSE [value |-> card, ts |-> voted]
             t == WithVote(s, p, card, voted)
  <2>1. s.active = i /\ s.active # None /\ ~ s.revealed /\ t \in State
    BY <1>1, <1>4, VoteStates, WithVoteConsistent
       DEF HandlePlayerVote, VoteAccepted, Consistent
  <2>2. Room' = t
    BY <1>1, <1>4, RoomAfterNotify DEF HandlePlayerVote, Notify
  <2>3. /\ t.active = s.active /\ t.revealed = s.revealed /\ t.issues = s.issues
        /\ t.result = s.result
        /\ t.votes = [s.votes EXCEPT ![i] = [s.votes[i] EXCEPT ![p] = vote]]
    BY <1>1, <2>1 DEF WithVote, State
  <2>4. vote = None <=> card = None
    BY VoteIsNotNone DEF VoteResult
  <2>5. (IF vote = None THEN None ELSE vote.value) = card
    BY <2>4
  <2> HIDE DEF vote
  <2>6. CardsDown(t) = [CardsDown(s) EXCEPT ![i] = [@ EXCEPT ![p] = card]]
    <3> DEFINE shown(v) == IF v = None THEN None ELSE v.value
    <3>1. \A j \in Issues, q \in Players :
            t.votes[j][q] = IF j = i /\ q = p THEN vote ELSE s.votes[j][q]
      BY <1>1, <2>3 DEF State
    <3>2. /\ CardsDown(t) = [j \in Issues |-> [q \in Players |-> shown(t.votes[j][q])]]
          /\ CardsDown(s) = [j \in Issues |-> [q \in Players |-> shown(s.votes[j][q])]]
          /\ shown(vote) = card
      BY <2>5 DEF CardsDown
    <3> HIDE DEF shown
    <3>3. QED
      BY <3>1, <3>2
  <2>7. QED
    BY <1>1, <2>1, <2>2, <2>3, <2>6 DEF Rounds!Cast, Listed
<1>5. ASSUME ~ \E p \in Players : HandlePlayerOffline(p)
      PROVE  Rounds!Round \/ UNCHANGED Rounds!room
  BY <1>2, <1>4, <1>5 DEF Message, Rounds!Round
<1>6. QED
  BY <1>1, <1>3, <1>5, NotifyGoes DEF Notify

LEMMA TickRefines ==
    ASSUME IInv, Tick
    PROVE  Rounds!Next
<1>1. IsDealer /\ IsDealer' /\ Room = state
  BY RoomOfDealer DEF Tick, WatchPlayersState, PublishStateLoop, Notify, IsDealer
<1>2. ASSUME NEW gone \in SUBSET Players, WatchPlayersState(gone)
      PROVE  Rounds!Next
  BY <1>1, <1>2, OfflineRefines DEF WatchPlayersState, Notify
<1>3. ASSUME PublishStateLoop
      PROVE  Rounds!Next
  <2>1. NotifyChangedState(state) /\ Room' = state
    BY <1>1, <1>3, RoomAfterNotify DEF PublishStateLoop, Notify
  <2>2. QED
    BY <1>1, <2>1, SameRounds, NotifyGoes
<1>4. QED
  BY <1>2, <1>3 DEF Tick

LEMMA AutoRevealRefines ==
    ASSUME IInv, AutoRevealStep
    PROVE  [Rounds!Next]_(Rounds!vars)
<1>1. ASSUME TimerExpires
      PROVE  UNCHANGED Rounds!vars
  BY <1>1, SameRoom DEF TimerExpires, IsDealer
<1>2. ASSUME NEW i \in Issues, TimerCallback(i)
      PROVE  UNCHANGED Rounds!vars
  BY <1>2, SameRoom DEF TimerCallback, IsDealer
<1>3. ASSUME NEW i \in Issues, AutoRevealRoutine(i)
      PROVE  Rounds!Next \/ UNCHANGED Rounds!vars
  <2> DEFINE s == state
             t == WithRevealed(s)
  <2>1. IsDealer /\ IsDealer' /\ Room = s /\ Consistent(s) /\ s \in State
    BY <1>3, RoomOfDealer DEF AutoRevealRoutine, IsDealer
  <2>2. CASE VoteState(s) = "voting"
    <3>1. s.active # None /\ ~ s.revealed
      BY <2>1, <2>2, VoteStates
    <3>2. NotifyChangedState(t) /\ Room' = t
      BY <1>3, <2>1, <2>2, RoomAfterNotify DEF AutoRevealRoutine
    <3>3. /\ t.active = s.active /\ t.revealed = TRUE /\ t.issues = s.issues
          /\ t.votes = s.votes /\ t.result = s.result
      BY <2>1 DEF WithRevealed, State
    <3>4. Rounds!Show
      BY <2>1, <3>1, <3>2, <3>3 DEF Rounds!Show, Listed, CardsDown
    <3>5. QED
      BY <2>1, <3>2, <3>4, NotifyGoes DEF Rounds!Round
  <2>3. CASE VoteState(s) # "voting"
    BY <1>3, <2>1, <2>3, SameRoom DEF AutoRevealRoutine
  <2>4. QED
    BY <2>2, <2>3
<1>4. QED
  BY <1>1, <1>2, <1>3 DEF AutoRevealStep

\* The dealer dies, leaves or comes back: the room closes, or opens again as
\* the file has it.
LEMMA LifecycleRefines ==
    ASSUME IInv, Lifecycle
    PROVE  [Rounds!Next]_(Rounds!vars)
<1>1. ASSUME NEW how \in Status \ {"dealer"}, Die(how)
      PROVE  [Rounds!Next]_(Rounds!vars)
  <2>1. ~IsDealer' /\ stored' = stored /\ state' = None
    BY <1>1 DEF Die, IsDealer
  <2>2. CASE IsDealer
    BY <2>1, <2>2, GoingCloses DEF Rounds!Next
  <2>3. CASE ~IsDealer
    BY <2>1, <2>3, SameRoom DEF IInv, TypeOK
  <2>4. QED
    BY <2>2, <2>3
<1>2. ASSUME LeaveRoom
      PROVE  Rounds!Next
  BY <1>2, GoingCloses DEF LeaveRoom, IsDealer, Rounds!Next
<1>3. ASSUME NEW online \in SUBSET Players, Rejoin(online)
      PROVE  Rounds!Reopen
  <2> DEFINE t == [stored EXCEPT !.online = online]
  <2>1. stored \in State /\ stored # None /\ Room = stored /\ ~IsDealer /\ IsDealer'
    BY <1>3 DEF Rejoin, IInv, TypeOK, Room, IsDealer
  <2>2. /\ t.issues = stored.issues /\ t.active = stored.active
        /\ t.revealed = stored.revealed /\ t.votes = stored.votes
        /\ t.result = stored.result
    BY <2>1 DEF State
  <2>3. NotifyChangedState(t) /\ Room' = t
    BY <1>3, <2>1, RoomAfterNotify DEF Rejoin
  <2>4. UNCHANGED Rounds!room
    BY <2>1, <2>2, <2>3, SameRounds
  <2>5. Rounds!Copy
    BY <2>1, <2>3, NotifyCopies
  <2>6. QED
    BY <2>1, <2>4, <2>5 DEF Rounds!Reopen
<1>4. CASE \E online \in SUBSET Players : Rejoin(online)
  BY <1>3, <1>4 DEF Rounds!Next
<1>5. CASE LeaveRoom
  BY <1>2, <1>5
<1>6. QED
  BY <1>1, <1>4, <1>5 DEF Lifecycle, AutoRevealPanics, LeaveRoomPanics, Crash, Status

\* The dealer implements the rounds its players count on: shown votes stay and
\* a shown round ends in an estimate, unless the dealer goes; then the room
\* comes back as the copy made last, whole, or not at all (game.go:192-197).
THEOREM Refinement == Spec => ImplementsVoting
<1>1. Init => Rounds!Init
  BY InitRefines
<1>2. IInv /\ [Next]_vars => [Rounds!Next]_(Rounds!vars)
  <2> SUFFICES ASSUME IInv, [Next]_vars
               PROVE  [Rounds!Next]_(Rounds!vars)
    OBVIOUS
  <2>1. CASE Command
    BY <2>1, CommandRefines
  <2>2. CASE Message
    BY <2>2, MessageRefines
  <2>3. CASE Tick
    BY <2>3, TickRefines
  <2>4. CASE AutoRevealStep
    BY <2>4, AutoRevealRefines
  <2>5. CASE \E x \in outbox : PublishState(x)
    BY <2>5, SameRoom DEF PublishState, IsDealer
  <2>6. CASE Lifecycle
    BY <2>6, LifecycleRefines
  <2>7. CASE UNCHANGED vars
    BY <2>7, SameRoom DEF vars, IsDealer
  <2>8. QED
    BY <2>1, <2>2, <2>3, <2>4, <2>5, <2>6, <2>7 DEF Next
<1>3. QED
  BY Inductive, <1>1, <1>2, PTL DEF Spec, ImplementsVoting, Rounds!Spec

-----------------------------------------------------------------------------
(* Published rooms are behind *)

\* One list of issues is a prefix of another when they agree where both have one.
LEMMA PrefixByPlace ==
    ASSUME NEW S, NEW s \in Seq(S), NEW t \in Seq(S)
    PROVE  IsPrefix(s, t) <=> /\ Len(s) <= Len(t)
                              /\ \A k \in 1..Len(s) : s[k] = t[k]
<1>1. Len(s) \in Nat /\ Len(t) \in Nat /\ DOMAIN s = 1..Len(s) /\ DOMAIN t = 1..Len(t)
  OBVIOUS
<1>2. ASSUME Len(s) <= Len(t)
      PROVE  /\ SubSeq(s, 1, Len(s)) = [k \in 1..Len(s) |-> s[k]]
             /\ SubSeq(t, 1, Len(s)) = [k \in 1..Len(s) |-> t[k]]
  BY <1>1, <1>2
<1>3. QED
  BY <1>1, <1>2 DEF IsPrefix

LEMMA PrefixIsOrder ==
    ASSUME NEW S, NEW s \in Seq(S), NEW t \in Seq(S), NEW u \in Seq(S)
    PROVE  /\ IsPrefix(s, s)
           /\ IsPrefix(s, t) /\ IsPrefix(t, u) => IsPrefix(s, u)
           /\ \A i \in S : IsPrefix(s, Append(s, i))
<1>1. IsPrefix(s, s)
  BY PrefixByPlace
<1>2. ASSUME IsPrefix(s, t), IsPrefix(t, u) PROVE IsPrefix(s, u)
  BY <1>2, PrefixByPlace
<1>3. ASSUME NEW i \in S PROVE IsPrefix(s, Append(s, i))
  <2>1. Append(s, i) \in Seq(S)
    OBVIOUS
  <2>2. Len(s) <= Len(Append(s, i)) /\ \A k \in 1..Len(s) : s[k] = Append(s, i)[k]
    OBVIOUS
  <2>3. QED
    BY <2>1, <2>2, PrefixByPlace
<1>4. QED
  BY <1>1, <1>2, <1>3


OutboxIsBehind ==
    RoomExists /\ ~forgotten => \A x \in outbox : IsPrefix(x.room.issues, Room.issues)

\* The list of issues is never cut, reordered or replaced, unless the dealer goes
\* with issues it failed to save; there is no new room.
RoomGrows ==
    RoomExists' /\ ~forgotten' => RoomExists /\ IsPrefix(Room.issues, Room'.issues)

StaysBehind == OutboxIsBehind' /\ RoomGrows

LEMMA HiddenKeepsIssues ==
    ASSUME NEW s \in State
    PROVE  NewSnapshot(s).room.issues = s.issues
BY DEF NewSnapshot, Hidden, State

LEMMA RoomType ==
    ASSUME IInv, RoomExists
    PROVE  Room \in State /\ Room.issues \in Seq(Issues)
BY RoomOfDealer DEF RoomExists, Room, IInv, TypeOK, State

\* A notification leaves a room with the issues of the one before in front.
LEMMA NotifyStaysBehind ==
    ASSUME IInv, OutboxIsBehind, RoomExists, forgotten' = forgotten, IsDealer',
           NEW s \in State, NotifyChangedState(s), IsPrefix(Room.issues, s.issues)
    PROVE  StaysBehind
<1>1. Room' = s /\ Room \in State /\ RoomExists'
  BY RoomAfterNotify, RoomType DEF RoomExists
<1>2. /\ \A x \in outbox : x.room.issues \in Seq(Issues)
      /\ Room.issues \in Seq(Issues) /\ s.issues \in Seq(Issues)
  BY <1>1 DEF IInv, TypeOK, Snapshot, State
<1>3. ASSUME ~forgotten, NEW y \in outbox'
      PROVE  IsPrefix(y.room.issues, s.issues)
  <2>1. CASE y = NewSnapshot(s)
    BY <1>2, <2>1, HiddenKeepsIssues, PrefixIsOrder
  <2>2. ASSUME NEW x \in outbox, y = Following(x, s) \/ y = Following(Detached(x), s)
        PROVE  IsPrefix(y.room.issues, s.issues)
    <3>1. y.room.issues = x.room.issues
      BY <2>2, FollowingType, DetachedType DEF IInv, TypeOK
    <3>2. IsPrefix(x.room.issues, Room.issues)
      BY <1>3 DEF OutboxIsBehind
    <3>3. QED
      BY <1>2, <3>1, <3>2, PrefixIsOrder
  <2>3. QED
    BY <2>1, <2>2, PublishAdds DEF NotifyChangedState
<1>4. QED
  BY <1>1, <1>3 DEF StaysBehind, OutboxIsBehind, RoomGrows

\* Operations append one issue, or leave the list alone.
LEMMA OperationsAppend ==
    ASSUME NEW s \in State
    PROVE  /\ \A i \in Issues : /\ IsPrefix(s.issues, WithIssue(s, i).issues)
                                /\ WithSelected(s, i).issues = s.issues
                                /\ WithSelected(WithIssue(s, i), i).issues = WithIssue(s, i).issues
           /\ WithRevealed(s).issues = s.issues
           /\ \A card : WithResult(s, card).issues = s.issues
           /\ \A deck : WithDeck(s, deck).issues = s.issues
           /\ \A p : WithOnline(s, p).issues = s.issues
           /\ \A gone : WithOffline(s, gone).issues = s.issues
           /\ \A p, card, ts : WithVote(s, p, card, ts).issues = s.issues
<1>1. s.issues \in Seq(Issues)
  BY DEF State
<1>2. \A i \in Issues : WithIssue(s, i).issues = Append(s.issues, i)
  BY DEF WithIssue, State
<1>3. \A i \in Issues : IsPrefix(s.issues, WithIssue(s, i).issues)
  BY <1>1, <1>2, PrefixIsOrder
<1>4. QED
  BY <1>3 DEF WithIssue, WithSelected, WithRevealed, WithResult, WithDeck, WithOnline,
     WithOffline, WithVote, State

LEMMA SameStaysBehind ==
    ASSUME IInv, OutboxIsBehind, IsDealer' <=> IsDealer, state' = state,
           stored' = stored, forgotten' = forgotten, outbox' \subseteq outbox
    PROVE  StaysBehind
<1>1. Room' = Room /\ (RoomExists' <=> RoomExists)
  BY DEF Room, RoomExists, EmptyRoom
<1>2. OutboxIsBehind'
  BY <1>1 DEF OutboxIsBehind
<1>3. RoomGrows
  BY <1>1, RoomType, PrefixIsOrder DEF RoomGrows
<1>4. QED
  BY <1>2, <1>3 DEF StaysBehind

\* Whoever leaves or dies leaves the issues that were saved, none, or some that
\* are forgotten.
LEMMA GoingStaysBehind ==
    ASSUME IInv, OutboxIsBehind, ~IsDealer', stored' = stored, LeaveBehind,
           \A x \in outbox' : \E y \in outbox : x.room = y.room
    PROVE  StaysBehind
<1> SUFFICES ASSUME RoomExists', ~forgotten'
             PROVE  /\ RoomExists /\ IsPrefix(Room.issues, Room'.issues)
                    /\ \A x \in outbox' : IsPrefix(x.room.issues, Room'.issues)
  BY DEF StaysBehind, OutboxIsBehind, RoomGrows
<1>1. stored # None /\ Room' = stored /\ RoomExists
  BY DEF RoomExists, Room
<1>2. ~forgotten /\ (IsDealer => stored.issues = state.issues)
  BY <1>1 DEF LeaveBehind
<1>3. Room'.issues = Room.issues
  BY <1>1, <1>2 DEF Room
<1>4. IsPrefix(Room.issues, Room'.issues)
  BY <1>1, <1>3, RoomType, PrefixIsOrder
<1>5. \A x \in outbox' : IsPrefix(x.room.issues, Room'.issues)
  BY <1>1, <1>2, <1>3 DEF OutboxIsBehind
<1>6. QED
  BY <1>1, <1>4, <1>5

LEMMA StepStaysBehind ==
    ASSUME IInv, OutboxIsBehind, [Next]_vars
    PROVE  StaysBehind
<1>1. IInv'
  BY StepKeeps
<1>2. outbox \subseteq Snapshot /\ (IsDealer => Room = state /\ state \in State /\ RoomExists)
  BY RoomOfDealer DEF IInv, TypeOK, RoomExists
<1>3. ASSUME NEW s, NotifyChangedState(s), IsDealer, IsDealer', forgotten' = forgotten,
             IsPrefix(state.issues, s.issues)
      PROVE  StaysBehind
  <2>1. s \in State
    BY <1>1, <1>3 DEF NotifyChangedState, IInv, RoomsConsistent, Consistent
  <2>2. QED
    BY <1>2, <1>3, <2>1, NotifyStaysBehind
<1>4. ASSUME NEW s, Notify(s), IsDealer, IsPrefix(state.issues, s.issues)
      PROVE  StaysBehind
  BY <1>3, <1>4 DEF Notify, IsDealer
<1>5. ASSUME UNCHANGED <<status, state, stored, forgotten>>, outbox' \subseteq outbox
      PROVE  StaysBehind
  BY <1>5, SameStaysBehind DEF IsDealer
<1>6. CASE Command
  <2>1. IsDealer /\ state \in State
    BY <1>2, <1>6 DEF Command, AddIssue, SelectIssue, Deal, Reveal, Finish, SetDeck, PublishVote
  <2>2. IsPrefix(state.issues, state.issues)
    BY <2>1, PrefixIsOrder DEF State
  <2>3. ASSUME NEW i \in Issues, AddIssue(i) \/ SelectIssue(i) \/ Deal(i)
        PROVE  StaysBehind
    BY <1>4, <2>1, <2>2, <2>3, OperationsAppend DEF AddIssue, SelectIssue, Deal
  <2>4. CASE Reveal \/ (\E card \in Cards : Finish(card)) \/ (\E deck \in Decks : SetDeck(deck))
    BY <1>4, <2>1, <2>2, <2>4, OperationsAppend DEF Reveal, Finish, SetDeck
  <2>5. CASE \E card \in Cards \cup {None} : PublishVote(card)
    BY <1>5, <2>5 DEF PublishVote
  <2>6. QED
    BY <1>6, <2>3, <2>4, <2>5 DEF Command
<1>7. CASE Message \/ Tick
  <2>1. IsDealer /\ state \in State
    BY <1>2, <1>7 DEF Message, HandlePlayerOnline, HandlePlayerOffline, HandlePlayerVote,
       Tick, WatchPlayersState, PublishStateLoop
  <2>2. IsPrefix(state.issues, state.issues)
    BY <2>1, PrefixIsOrder DEF State
  <2>3. ASSUME NEW s, Notify(s), s.issues = state.issues
        PROVE  StaysBehind
    BY <1>4, <2>1, <2>2, <2>3
  <2>4. ASSUME NEW p, NEW renamed, HandlePlayerOnline(p, renamed)
        PROVE  StaysBehind
    BY <2>1, <2>3, <2>4, OperationsAppend DEF HandlePlayerOnline
  <2>5. ASSUME NEW p, HandlePlayerOffline(p)
        PROVE  StaysBehind
    BY <2>1, <2>3, <2>5, OperationsAppend DEF HandlePlayerOffline
  <2>6. ASSUME NEW p, NEW i, NEW card, NEW voted, NEW sent,
               HandlePlayerVote(p, i, card, voted, sent)
        PROVE  StaysBehind
    BY <2>1, <2>3, <2>6, OperationsAppend DEF HandlePlayerVote
  <2>7. CASE Tick
    BY <2>1, <2>3, <2>7, OperationsAppend DEF Tick, WatchPlayersState, PublishStateLoop
  <2>8. QED
    BY <1>7, <2>4, <2>5, <2>6, <2>7 DEF Message
<1>8. CASE AutoRevealStep
  <2>1. ASSUME NEW i \in Issues, AutoRevealRoutine(i)
        PROVE  StaysBehind
    <3>1. IsDealer /\ IsDealer' /\ state \in State
      BY <1>2, <2>1 DEF AutoRevealRoutine, IsDealer
    <3>2. IsPrefix(state.issues, WithRevealed(state).issues)
      BY <3>1, OperationsAppend, PrefixIsOrder DEF State
    <3>3. CASE VoteState(state) = "voting"
      BY <1>3, <2>1, <3>1, <3>2, <3>3 DEF AutoRevealRoutine
    <3>4. CASE VoteState(state) # "voting"
      BY <1>5, <2>1, <3>4 DEF AutoRevealRoutine
    <3>5. QED
      BY <3>3, <3>4
  <2>2. QED
    BY <1>5, <1>8, <2>1 DEF AutoRevealStep, TimerExpires, TimerCallback
<1>9. CASE \E x \in outbox : PublishState(x)
  BY <1>5, <1>9 DEF PublishState
<1>10. ASSUME NEW how \in Status \ {"dealer"}, Die(how)
       PROVE  StaysBehind
  BY <1>10, GoingStaysBehind DEF Die, IsDealer
<1>11. CASE LeaveRoom
  <2>1. \A x \in outbox' : \E y \in outbox : x.room = y.room
    BY <1>2, <1>11, DetachedType DEF LeaveRoom
  <2>2. QED
    BY <1>11, <2>1, GoingStaysBehind DEF LeaveRoom, IsDealer
<1>12. ASSUME NEW online \in SUBSET Players, Rejoin(online)
       PROVE  StaysBehind
  <2> DEFINE s == [stored EXCEPT !.online = online]
  <2>1. /\ ~IsDealer /\ IsDealer' /\ stored # None /\ NotifyChangedState(s)
        /\ forgotten' = forgotten
    BY <1>12 DEF Rejoin, IsDealer
  <2>2. /\ Room = stored /\ RoomExists /\ stored \in State /\ s \in State
        /\ s.issues = stored.issues
    BY <2>1 DEF Room, RoomExists, IInv, TypeOK, State
  <2>3. IsPrefix(Room.issues, s.issues)
    BY <2>2, RoomType, PrefixIsOrder
  <2>4. QED
    BY <2>1, <2>2, <2>3, NotifyStaysBehind
<1>13. CASE UNCHANGED vars
  BY <1>5, <1>13 DEF vars
<1>14. CASE Lifecycle
  BY <1>10, <1>11, <1>12, <1>14
     DEF Lifecycle, AutoRevealPanics, LeaveRoomPanics, Crash, Status
<1>15. QED
  BY <1>6, <1>7, <1>8, <1>9, <1>13, <1>14 DEF Next

LEMMA InitStaysBehind == Init => OutboxIsBehind
<1>1. SUFFICES ASSUME Init PROVE OutboxIsBehind
  OBVIOUS
<1>2. IInv /\ IsDealer /\ state \in State /\ Room = state
  BY <1>1, InitEstablishes, RoomOfDealer DEF Init, IsDealer
<1>3. \A x \in outbox : x.room.issues = state.issues
  BY <1>1, <1>2, HiddenKeepsIssues DEF Init
<1>4. IsPrefix(state.issues, state.issues)
  BY <1>2, PrefixIsOrder DEF State
<1>5. QED
  BY <1>2, <1>3, <1>4 DEF OutboxIsBehind

\* However late a publication is, across any number of departures, crashes and
\* returns, it lists no issue that the dealer's room does not have in its place,
\* unless the dealer has once gone with issues that it failed to save.
THEOREM SnapshotsBehind == Spec => []SnapshotsAreBehind
<1>1. Init => OutboxIsBehind
  BY InitStaysBehind
<1>2. IInv /\ OutboxIsBehind /\ [Next]_vars => OutboxIsBehind'
  BY StepStaysBehind DEF StaysBehind
<1>3. IInv /\ OutboxIsBehind => SnapshotsAreBehind
  BY RoomOfDealer DEF OutboxIsBehind, SnapshotsAreBehind, RoomExists
<1>4. QED
  BY Inductive, <1>1, <1>2, <1>3, PTL DEF Spec

\* The room is one list of issues from the first to the last: over any number of
\* departures, crashes and returns of the dealer none is lost or moved, and no
\* second room takes the place of the first, as long as the dealer does not go
\* with issues that it failed to save.
THEOREM IssuesAreOnlyAdded == Spec => [][RoomGrows]_vars
<1>1. Init => OutboxIsBehind
  BY InitStaysBehind
<1>2. IInv /\ OutboxIsBehind /\ [Next]_vars => OutboxIsBehind' /\ [RoomGrows]_vars
  BY StepStaysBehind DEF StaysBehind
<1>3. QED
  BY Inductive, <1>1, <1>2, PTL DEF Spec

=============================================================================
