----------------------------- MODULE RoomProofs -----------------------------
(***************************************************************************)
(* Proofs about Room, for every value of the constants: the dealer of a    *)
(* room is the one of Dealer, so that all that is proved of Dealer holds   *)
(* in a room; the network and the players hold values of their types; no   *)
(* player's screen shows a card of a round it shows as open, a vote that   *)
(* was not cast, or an issue where the room has another.                   *)
(*                                                                         *)
(* The first of these needs to know of a state that is yet to be published *)
(* that it shares its issues with the dealer only if it was made outside   *)
(* of an open round: what is overwritten in it later is never to be        *)
(* hidden.  The others follow a state from the dealer's hands to a screen  *)
(* (OutboxComes): what is true of every room the dealer has had, and of    *)
(* the mixture of two that a snapshot becomes, is true there.              *)
(***************************************************************************)
EXTENDS Room, DealerProofs, FiniteSetTheorems

SnapshotHidden(x) ==
    VoteState(x.room) = "voting" => ~x.shared /\ CardsHidden(x.room)

\* Each vote of s is one that was cast.
AllCast(s) == \A i \in Issues, p \in Players :
    s.votes[i][p] # None => Cast(s.votes[i][p], i, p)

RoomInv ==
    /\ IInv
    /\ RoomTypeOK
    /\ IsFiniteSet(votesSent)
    /\ \A x \in outbox : SnapshotHidden(x)
    /\ \A m \in wire : CardsHidden(m)
    /\ OpenRoundsShowNoCards
    /\ IsDealer => AllCast(state)
    /\ stored # None => AllCast(stored)

\* The greater of two numbers is one of them (FiniteSetsExt).
LEMMA MaxOfTwo ==
    ASSUME NEW m \in Nat, NEW n \in Nat
    PROVE  Max({m, n}) \in Nat
<1>1. \E x \in {m, n} : \A y \in {m, n} : x >= y
  OBVIOUS
<1>2. QED
  BY <1>1 DEF Max

-----------------------------------------------------------------------------
(* Messages *)

LEMMA VotingHasIssue ==
    ASSUME NEW s \in State, VoteState(s) = "voting"
    PROVE  s.active \in Issues
BY DEF VoteState, State

\* The message SendVote adds is one of those Dealer takes at any time.
LEMMA SendVoteType ==
    ASSUME RoomTypeOK, IsFiniteSet(votesSent),
           NEW p \in Players, NEW i \in Issues, NEW card \in Cards \cup {None},
           SendVote(p, i, card)
    PROVE  votesSent' \subseteq VoteMessage /\ IsFiniteSet(votesSent')
<1> DEFINE n == Cardinality(SentBy(p))
           m == [player |-> p, issue |-> i, card |-> card, at |-> n + 1]
<1>1. SentBy(p) \subseteq votesSent
  BY DEF SentBy
<1>2. n \in Nat
  BY <1>1, FS_Subset, FS_CardinalityType
<1>3. n < MaxSent[p] /\ MaxSent[p] \in Nat /\ 1..MaxSent[p] \subseteq Time
  BY MaxSentIsTime DEF SendVote
<1> HIDE DEF n
<1>4. n + 1 \in Time
  <2>1. n + 1 \in 1..MaxSent[p]
    BY <1>2, <1>3
  <2>2. QED
    BY <1>3, <2>1
<1>5. m \in VoteMessage
  BY <1>4 DEF VoteMessage
<1>6. votesSent' = votesSent \cup {m}
  BY DEF SendVote, m, n
<1> HIDE DEF m
<1>7. IsFiniteSet(votesSent')
  BY <1>6, FS_AddElement
<1>8. QED
  BY <1>5, <1>6, <1>7 DEF RoomTypeOK

\* A snapshot of a consistent room is safe to publish at any time.
LEMMA NewSnapshotHidden ==
    ASSUME NEW s, Consistent(s)
    PROVE  SnapshotHidden(NewSnapshot(s))
<1>1. s \in State
  BY DEF Consistent
<1>2. CASE VoteState(s) # "voting"
  BY <1>2 DEF SnapshotHidden, NewSnapshot, Hidden
<1>3. CASE VoteState(s) = "voting"
  <2> DEFINE masked == [p \in Players |-> IF s.votes[s.active][p] = None THEN None
                            ELSE [s.votes[s.active][p] EXCEPT !.value = None]]
             t == [s EXCEPT !.votes[s.active] = masked]
  <2>1. s.active \in Issues
    BY <1>1, <1>3, VotingHasIssue
  <2>2. Hidden(s) = t
    BY <1>3 DEF Hidden
  <2>3. t.active = s.active /\ t.votes[s.active] = masked
    BY <1>1, <2>1 DEF State
  <2>4. ASSUME NEW q \in Players, masked[q] # None
        PROVE  masked[q].value = None
    <3>1. s.votes[s.active][q] \in VoteResult
      BY <1>1, <2>1, <2>4 DEF State
    <3>2. QED
      BY <2>4, <3>1 DEF VoteResult
  <2> HIDE DEF masked, t
  <2>5. CardsHidden(t)
    BY <2>3, <2>4 DEF CardsHidden
  <2>6. QED
    BY <1>3, <2>2, <2>5 DEF SnapshotHidden, NewSnapshot
<1>4. QED
  BY <1>2, <1>3

\* So is what it becomes when the room that it shares changes.
LEMMA FollowingVotes ==
    ASSUME NEW x \in Snapshot, NEW s \in State
    PROVE  LET room == Following(x, s).room
           IN  /\ \A i \in Issues : room.votes[i] \in {s.votes[i], x.room.votes[i]}
               /\ ~x.shared => room.votes = x.room.votes
<1> DEFINE shows(i) == x.shared /\ i \in Listed(x.room)
           votes == [i \in Issues |-> IF shows(i) THEN s.votes[i] ELSE x.room.votes[i]]
<1>1. x.room \in State
  BY DEF Snapshot
<1>2. Following(x, s).room.votes = votes
  BY <1>1 DEF Following, Snapshot, State
<1>3. ~x.shared => votes = x.room.votes
  BY <1>1 DEF State
<1>4. \A i \in Issues : votes[i] \in {s.votes[i], x.room.votes[i]}
  OBVIOUS
<1> HIDE DEF votes
<1>5. QED
  BY <1>2, <1>3, <1>4

LEMMA OpenRound ==
    ASSUME NEW s
    PROVE  VoteState(s) = "voting" <=> s.active # None /\ ~s.revealed
BY DEF VoteState

LEMMA FollowingHidden ==
    ASSUME NEW x \in Snapshot, SnapshotHidden(x), NEW s \in State
    PROVE  SnapshotHidden(Following(x, s))
<1> DEFINE y == Following(x, s)
<1>1. /\ y.shared = x.shared /\ y.room.active = x.room.active
      /\ y.room.revealed = x.room.revealed
      /\ ~x.shared => y.room.votes = x.room.votes
  BY FollowingType, FollowingVotes
<1> HIDE DEF y
<1>2. VoteState(y.room) = "voting" <=> VoteState(x.room) = "voting"
  BY <1>1, OpenRound
<1>3. QED
  BY <1>1, <1>2 DEF SnapshotHidden, CardsHidden, y

LEMMA SameHidden ==
    ASSUME NEW x, SnapshotHidden(x), NEW y, y.room = x.room, y.shared => x.shared
    PROVE  SnapshotHidden(y)
BY DEF SnapshotHidden

-----------------------------------------------------------------------------
(* Steps *)

\* Every step of a room is a step of its dealer, or leaves the dealer alone.
LEMMA StepOfDealer ==
    ASSUME RoomInv, [RoomNext]_allVars
    PROVE  [Next]_vars
<1>1. CASE DealerAlone
  BY <1>1, VisitorsArePlayers DEF DealerAlone, Next, Command, Message, Tick
<1>2. CASE DealerTicks
  BY <1>2 DEF DealerTicks, Next, Tick
<1>3. CASE \E card \in Cards \cup {None} : DealerVotes(card)
  BY <1>3 DEF DealerVotes, Next, Command
<1>4. ASSUME NEW m \in votesSent, TakeVote(m)
      PROVE  Next
  <2>1. m \in VoteMessage
    BY DEF RoomInv, RoomTypeOK
  <2>2. /\ m.player \in Players /\ m.issue \in Issues
        /\ m.card \in Cards \cup {None} /\ m.at \in Time
    BY <2>1, Zenon DEF VoteMessage
  <2>3. \A t \in Time : t <= t
    BY TimeIsNat
  <2>4. m.at <= m.at
    BY <2>2, <2>3, Zenon
  <2>5. Message
    BY <1>4, <2>2, <2>4 DEF TakeVote, Message
  <2>6. QED
    BY <2>5 DEF Next
<1>5. CASE Sending
  BY <1>5 DEF Sending, SendState, Next
<1>6. ASSUME NEW p \in Guests, NEW m \in wire, HandleState(p, m)
      PROVE  UNCHANGED vars
  BY <1>6 DEF HandleState
<1>7. ASSUME NEW m \in wire, LoseState(m)
      PROVE  UNCHANGED vars
  BY <1>7 DEF LoseState
<1>8. ASSUME NEW p \in Guests, NEW card \in Cards \cup {None}, GuestVotes(p, card)
      PROVE  UNCHANGED vars
  BY <1>8 DEF GuestVotes
<1>9. ASSUME NEW p \in Guests, GuestRejoins(p)
      PROVE  UNCHANGED vars
  BY <1>9 DEF GuestRejoins
<1>10. CASE UNCHANGED allVars
  BY <1>10 DEF allVars, vars
<1>11. QED
  BY <1>1, <1>2, <1>3, <1>4, <1>5, <1>6, <1>7, <1>8, <1>9, <1>10
     DEF RoomNext, Delivery

\* The snapshot x is one that was there, its sharing ended or not, or one made
\* of the room a step leaves, or one that follows that room.
Comes(x, s) ==
    \/ \E y \in outbox : x.room = y.room /\ (x.shared => y.shared)
    \/ x = NewSnapshot(s)
    \/ \E y \in outbox : x = Following(y, s) \/ x = Following(Detached(y), s)

\* Only the dealer's own steps touch the outbox.
LEMMA OutboxComes ==
    ASSUME IInv, [Next]_vars, NEW x \in outbox'
    PROVE  \/ \E y \in outbox : x.room = y.room /\ (x.shared => y.shared)
           \/ IsDealer' /\ Comes(x, state')
<1> DEFINE Kept == \/ \E y \in outbox : x.room = y.room /\ (x.shared => y.shared)
                   \/ IsDealer' /\ Comes(x, state')
<1> SUFFICES Kept
  OBVIOUS
<1>1. ASSUME NEW s, NotifyChangedState(s), IsDealer'
      PROVE  Kept
  BY <1>1, PublishAdds DEF NotifyChangedState, Comes
<1>2. ASSUME NEW s, Notify(s), IsDealer
      PROVE  Kept
  BY <1>1, <1>2 DEF Notify, IsDealer
<1>3. CASE outbox' \subseteq outbox
  BY <1>3
<1>4. CASE LeaveRoom
  <2>1. \A y \in outbox : Frozen(y).room = y.room /\ ~Frozen(y).shared
    BY DEF Frozen, IInv, TypeOK, Snapshot
  <2>2. QED
    BY <1>4, <2>1 DEF LeaveRoom
<1> HIDE DEF Kept
<1>5. CASE Command
  BY <1>2, <1>3, <1>5 DEF Command, AddIssue, SelectIssue, Deal, Reveal, Finish,
     SetDeck, PublishVote
<1>6. CASE Message
  BY <1>2, <1>6 DEF Message, HandlePlayerOnline, HandlePlayerOffline, HandlePlayerVote
<1>7. CASE Tick
  BY <1>2, <1>7 DEF Tick, WatchPlayersState, PublishStateLoop
<1>8. CASE AutoRevealStep
  BY <1>1, <1>3, <1>8 DEF AutoRevealStep, TimerExpires, TimerCallback,
     AutoRevealRoutine, IsDealer
<1>9. CASE \E y \in outbox : PublishState(y)
  BY <1>3, <1>9 DEF PublishState
<1>10. CASE Lifecycle
  BY <1>1, <1>3, <1>4, <1>10 DEF Lifecycle, AutoRevealPanics, LeaveRoomPanics, Crash, Die,
     Rejoin, IsDealer
<1>11. CASE UNCHANGED vars
  BY <1>3, <1>11 DEF vars
<1>12. QED
  BY <1>5, <1>6, <1>7, <1>8, <1>9, <1>10, <1>11 DEF Next

LEMMA OutboxGrows ==
    ASSUME RoomInv, [Next]_vars
    PROVE  \A x \in outbox' : SnapshotHidden(x)
<1>1. /\ IInv /\ IInv' /\ outbox \subseteq Snapshot
      /\ \A x \in outbox : SnapshotHidden(x)
  BY StepKeeps DEF RoomInv, IInv, TypeOK
<1>2. IsDealer' => Consistent(state') /\ state' \in State
  BY <1>1 DEF IInv, RoomsConsistent, Consistent
<1>3. ASSUME NEW x, IsDealer', Comes(x, state')
      PROVE  SnapshotHidden(x)
  <2>1. \A y \in outbox : SnapshotHidden(Detached(y)) /\ Detached(y) \in Snapshot
    BY <1>1, DetachedType, SameHidden
  <2>2. \A y \in outbox : /\ SnapshotHidden(Following(y, state'))
                          /\ SnapshotHidden(Following(Detached(y), state'))
    BY <1>1, <1>2, <1>3, <2>1, FollowingHidden
  <2>3. QED
    BY <1>1, <1>2, <1>3, <2>2, NewSnapshotHidden, SameHidden DEF Comes
<1>4. QED
  BY <1>1, <1>3, OutboxComes, SameHidden

\* The players and the network.
LEMMA NetworkKeeps ==
    ASSUME RoomInv, [RoomNext]_allVars
    PROVE  /\ RoomTypeOK' /\ IsFiniteSet(votesSent')
           /\ \A m \in wire' : CardsHidden(m)
           /\ OpenRoundsShowNoCards'
<1> DEFINE Kept == /\ RoomTypeOK' /\ IsFiniteSet(votesSent')
                   /\ \A m \in wire' : CardsHidden(m)
                   /\ OpenRoundsShowNoCards'
<1>0. /\ RoomTypeOK /\ IsFiniteSet(votesSent) /\ OpenRoundsShowNoCards
      /\ \A m \in wire : CardsHidden(m)
      /\ \A x \in outbox : SnapshotHidden(x)
      /\ outbox \subseteq Snapshot
      /\ IsDealer => state \in State
  BY DEF RoomInv, IInv, TypeOK, RoomsConsistent, Consistent
<1>1. ASSUME UNCHANGED roomVars
      PROVE  Kept
  BY <1>0, <1>1 DEF roomVars, RoomTypeOK, OpenRoundsShowNoCards
<1>2. ASSUME NEW card \in Cards \cup {None}, DealerVotes(card)
      PROVE  Kept
  <2>1. state \in State /\ VoteState(state) = "voting"
    BY <1>0, <1>2 DEF DealerVotes, PublishVote
  <2>2. votesSent' \subseteq VoteMessage /\ IsFiniteSet(votesSent')
    BY <1>0, <1>2, <2>1, SelfIsPlayer, VotingHasIssue, SendVoteType DEF DealerVotes
  <2>3. QED
    BY <1>0, <1>2, <2>2 DEF DealerVotes, RoomTypeOK, OpenRoundsShowNoCards
<1>3. ASSUME NEW m \in votesSent, TakeVote(m)
      PROVE  Kept
  <2>1. m \in VoteMessage
    BY <1>0 DEF RoomTypeOK
  <2>2. m.player \in Players /\ m.at \in Nat
    BY <2>1, TimeIsNat DEF VoteMessage
  <2>3. Max({newest[m.player], m.at}) \in Nat
    BY <1>0, <2>2, MaxOfTwo DEF RoomTypeOK
  <2>4. newest' \in [Players -> Nat]
    BY <1>0, <1>3, <2>3 DEF TakeVote, RoomTypeOK
  <2>5. QED
    BY <1>0, <1>3, <2>4 DEF TakeVote, RoomTypeOK, OpenRoundsShowNoCards
<1>4. ASSUME NEW x \in outbox, SendState(x)
      PROVE  Kept
  <2>1. wire' \subseteq wire \cup {x.room}
    BY <1>4 DEF SendState
  <2>2. x.room \in State /\ CardsHidden(x.room)
    BY <1>0 DEF Snapshot, SnapshotHidden, CardsHidden
  <2>3. wire' \subseteq State /\ \A m \in wire' : CardsHidden(m)
    BY <1>0, <2>1, <2>2 DEF RoomTypeOK
  <2>4. QED
    BY <1>0, <1>4, <2>3 DEF SendState, RoomTypeOK, OpenRoundsShowNoCards
<1>5. ASSUME NEW p \in Guests, NEW m \in wire, HandleState(p, m)
      PROVE  Kept
  <2>1. m \in State /\ CardsHidden(m)
    BY <1>0 DEF RoomTypeOK
  <2>2. view' \in [Guests -> State \cup {None}] /\ wire' \subseteq wire
    BY <1>0, <1>5, <2>1 DEF HandleState, RoomTypeOK
  <2>3. ownVote' \in [Guests -> Cards \cup {None}]
    BY <1>0, <1>5 DEF HandleState, RoomTypeOK
  <2>4. RoomTypeOK'
    BY <1>0, <1>5, <2>2, <2>3 DEF HandleState, RoomTypeOK
  <2>5. OpenRoundsShowNoCards'
    BY <1>0, <1>5, <2>1 DEF HandleState, RoomTypeOK, OpenRoundsShowNoCards
  <2>6. QED
    BY <1>0, <1>5, <2>2, <2>4, <2>5 DEF HandleState
<1>6. ASSUME NEW m \in wire, LoseState(m)
      PROVE  Kept
  BY <1>0, <1>6 DEF LoseState, RoomTypeOK, OpenRoundsShowNoCards
<1>7. ASSUME NEW p \in Guests, NEW card \in Cards \cup {None}, GuestVotes(p, card)
      PROVE  Kept
  <2>1. view[p] \in State /\ VoteState(view[p]) = "voting" /\ p \in Players
    BY <1>0, <1>7 DEF GuestVotes, RoomTypeOK, Guests
  <2>2. votesSent' \subseteq VoteMessage /\ IsFiniteSet(votesSent')
    BY <1>0, <1>7, <2>1, VotingHasIssue, SendVoteType DEF GuestVotes
  <2>3. ownVote' \in [Guests -> Cards \cup {None}]
    BY <1>0, <1>7 DEF GuestVotes, RoomTypeOK
  <2>4. QED
    BY <1>0, <1>7, <2>2, <2>3 DEF GuestVotes, RoomTypeOK, OpenRoundsShowNoCards
<1>8. ASSUME NEW p \in Guests, GuestRejoins(p)
      PROVE  Kept
  <2>1. /\ view' \in [Guests -> State \cup {None}]
        /\ ownVote' \in [Guests -> Cards \cup {None}]
    BY <1>0, <1>8 DEF GuestRejoins, RoomTypeOK
  <2>2. QED
    BY <1>0, <1>8, <2>1 DEF GuestRejoins, RoomTypeOK, OpenRoundsShowNoCards
<1>9. QED
  BY <1>1, <1>2, <1>3, <1>4, <1>5, <1>6, <1>7, <1>8
     DEF RoomNext, Sending, Delivery, DealerAlone, DealerTicks, allVars, roomVars

-----------------------------------------------------------------------------
(* Votes *)

\* Each vote of the room t is one of the room s, for the same issue.
NoNewVotes(t, s) == \A i \in Issues, p \in Players :
    t.votes[i][p] \in {None, s.votes[i][p]}

LEMMA CommandsMakeNoVotes ==
    ASSUME NEW s, Consistent(s)
    PROVE  /\ NoNewVotes(s, s)
           /\ \A i \in Issues : NoNewVotes(WithIssue(s, i), s)
           /\ \A i \in Issues : NoNewVotes(WithSelected(s, i), s)
           /\ \A i \in Issues : NoNewVotes(WithSelected(WithIssue(s, i), i), s)
           /\ NoNewVotes(WithRevealed(s), s)
           /\ \A card \in Cards : NoNewVotes(WithResult(s, card), s)
           /\ \A deck \in Decks : NoNewVotes(WithDeck(s, deck), s)
           /\ \A p \in Players : NoNewVotes(WithOnline(s, p), s)
           /\ \A gone \in SUBSET Players : NoNewVotes(WithOffline(s, gone), s)
           /\ \A online \in SUBSET Players : NoNewVotes([s EXCEPT !.online = online], s)
<1>1. s \in State
  BY DEF Consistent
<1>2. \A i \in Issues, p \in Players : NoVotes[p] = None
  BY DEF NoVotes
<1>3. ASSUME NEW i \in Issues
      PROVE  /\ WithIssue(s, i).votes = [s.votes EXCEPT ![i] = NoVotes]
             /\ WithSelected(s, i).votes = [s.votes EXCEPT ![i] = NoVotes]
             /\ WithSelected(WithIssue(s, i), i).votes = [s.votes EXCEPT ![i] = NoVotes]
  BY <1>1 DEF WithIssue, WithSelected, State
<1>4. /\ WithRevealed(s).votes = s.votes
      /\ \A card \in Cards : WithResult(s, card).votes = s.votes
      /\ \A deck \in Decks : WithDeck(s, deck).votes = s.votes
      /\ \A p \in Players : WithOnline(s, p).votes = s.votes
      /\ \A gone \in SUBSET Players : WithOffline(s, gone).votes = s.votes
      /\ \A online \in SUBSET Players : [s EXCEPT !.online = online].votes = s.votes
  BY <1>1 DEF WithRevealed, WithResult, WithDeck, WithOnline, WithOffline, State
<1>5. ASSUME NEW i \in Issues, NEW t, t.votes = [s.votes EXCEPT ![i] = NoVotes]
      PROVE  NoNewVotes(t, s)
  BY <1>1, <1>2, <1>5 DEF NoNewVotes, State
<1>6. ASSUME NEW t, t.votes = s.votes
      PROVE  NoNewVotes(t, s)
  BY <1>6 DEF NoNewVotes
<1>7. QED
  BY <1>3, <1>4, <1>5, <1>6

\* A notification of a room without new votes leaves only votes that were cast.
LEMMA NotifyCasts ==
    ASSUME RoomInv, votesSent \subseteq votesSent', NEW s, NEW old, AllCast(old),
           NoNewVotes(s, old), NotifyChangedState(s)
    PROVE  AllCast(state)' /\ (stored' # None => AllCast(stored)')
<1>1. state' = s /\ stored' \in {s, stored, None}
  BY DEF NotifyChangedState, Save
<1>2. \A vote, i, p : Cast(vote, i, p) => Cast(vote, i, p)'
  BY DEF Cast
<1>3. AllCast(state)'
  BY <1>1, <1>2 DEF AllCast, NoNewVotes
<1>4. stored' = stored => (stored' # None => AllCast(stored)')
  BY <1>2 DEF AllCast, RoomInv
<1>5. QED
  BY <1>1, <1>3, <1>4 DEF AllCast

\* What was sent may arrive at any time.
LEMMA SentForEver ==
    ASSUME [RoomNext]_allVars
    PROVE  /\ votesSent \subseteq votesSent'
           /\ \A vote, i, p : /\ Cast(vote, i, p) => Cast(vote, i, p)'
                              /\ Sent(vote, i, p) => Sent(vote, i, p)'
<1>1. votesSent \subseteq votesSent'
  BY DEF RoomNext, Sending, Delivery, DealerAlone, DealerTicks, DealerVotes, TakeVote,
     SendState, HandleState, LoseState, GuestVotes, GuestRejoins, SendVote,
     allVars, roomVars
<1>2. QED
  BY <1>1 DEF Cast, Sent

LEMMA VotesStayCast ==
    ASSUME RoomInv, [RoomNext]_allVars
    PROVE  /\ IsDealer' => AllCast(state)'
           /\ stored' # None => AllCast(stored)'
<1> DEFINE Kept == /\ IsDealer' => AllCast(state)'
                   /\ stored' # None => AllCast(stored)'
<1>1. /\ IsDealer => Consistent(state) /\ AllCast(state)
      /\ stored # None => Consistent(stored) /\ AllCast(stored)
  BY DEF RoomInv, IInv, RoomsConsistent
<1>2. votesSent \subseteq votesSent'
  BY SentForEver
<1>3. ASSUME UNCHANGED <<status, state, stored>>
      PROVE  Kept
  BY <1>1, <1>2, <1>3 DEF AllCast, Cast, IsDealer
<1>4. ASSUME ~IsDealer', UNCHANGED stored
      PROVE  Kept
  BY <1>1, <1>2, <1>4 DEF AllCast, Cast
<1>5. ASSUME IsDealer, NEW s, NoNewVotes(s, state), NotifyChangedState(s)
      PROVE  Kept
  BY <1>1, <1>2, <1>5, NotifyCasts
<1>6. CASE DealerAlone
  <2>1. CASE \E i \in Issues : AddIssue(i) \/ SelectIssue(i) \/ Deal(i)
    BY <1>1, <1>5, <2>1, CommandsMakeNoVotes DEF AddIssue, SelectIssue, Deal, Notify
  <2>2. CASE Reveal \/ (\E card \in Cards : Finish(card)) \/ \E deck \in Decks : SetDeck(deck)
    BY <1>1, <1>5, <2>2, CommandsMakeNoVotes DEF Reveal, Finish, SetDeck, Notify
  <2>3. CASE AutoRevealStep
    BY <1>1, <1>3, <1>5, <2>3, CommandsMakeNoVotes
       DEF AutoRevealStep, TimerExpires, TimerCallback, AutoRevealRoutine
  <2>4. CASE Lifecycle
    <3>1. ASSUME NEW online \in SUBSET Players, Rejoin(online)
          PROVE  Kept
      BY <1>1, <1>2, <3>1, NotifyCasts, CommandsMakeNoVotes DEF Rejoin
    <3>2. QED
      BY <1>4, <2>4, <3>1 DEF Lifecycle, AutoRevealPanics, LeaveRoomPanics, LeaveRoom,
         Crash, Die, IsDealer
  <2>5. CASE \/ \E gone \in SUBSET Visitors : WatchPlayersState(gone)
             \/ \E p \in Visitors, renamed \in BOOLEAN : HandlePlayerOnline(p, renamed)
             \/ \E p \in Visitors : HandlePlayerOffline(p)
    BY <1>1, <1>5, <2>5, CommandsMakeNoVotes, VisitorsArePlayers
       DEF WatchPlayersState, HandlePlayerOnline, HandlePlayerOffline, Notify
  <2>6. QED
    BY <1>6, <2>1, <2>2, <2>3, <2>4, <2>5 DEF DealerAlone
<1>7. CASE DealerTicks
  BY <1>1, <1>5, <1>7, CommandsMakeNoVotes DEF DealerTicks, PublishStateLoop, Notify
<1>8. ASSUME NEW m \in votesSent, TakeVote(m)
      PROVE  Kept
  <2> DEFINE t == WithVote(state, m.player, m.card, m.at)
  <2>1. /\ IsDealer /\ state \in State /\ AllCast(state) /\ m.issue = state.active
        /\ NotifyChangedState(t) /\ votesSent' = votesSent
    BY <1>1, <1>8 DEF TakeVote, HandlePlayerVote, VoteAccepted, Notify, Consistent
  <2>2. m.player \in Players /\ m.issue \in Issues
    BY DEF RoomInv, RoomTypeOK, VoteMessage
  <2>3. ASSUME NEW i \in Issues, NEW p \in Players, t.votes[i][p] # None
        PROVE  Cast(t.votes[i][p], i, p)
    <3>1. CASE i = m.issue /\ p = m.player
      <4>1. t.votes[i][p] = [value |-> m.card, ts |-> m.at]
        BY <2>1, <2>2, <2>3, <3>1 DEF WithVote, State
      <4>2. QED
        BY <3>1, <4>1 DEF Cast
    <3>2. CASE ~(i = m.issue /\ p = m.player)
      <4>1. t.votes[i][p] = state.votes[i][p]
        BY <2>1, <2>2, <3>2 DEF WithVote, State
      <4>2. QED
        BY <2>1, <2>3, <4>1 DEF AllCast
    <3>3. QED
      BY <3>1, <3>2
  <2> HIDE DEF t
  <2>4. AllCast(t) /\ NoNewVotes(t, t)
    BY <2>3 DEF AllCast, NoNewVotes
  <2>5. QED
    BY <2>1, <2>4, <1>2, NotifyCasts
<1>9. ASSUME NEW card \in Cards \cup {None}, DealerVotes(card)
      PROVE  Kept
  BY <1>3, <1>9 DEF DealerVotes, PublishVote
<1>10. CASE Sending
  BY <1>3, <1>10 DEF Sending, SendState, PublishState
<1>11. CASE UNCHANGED vars
  BY <1>3, <1>11 DEF vars
<1>12. QED
  BY <1>6, <1>7, <1>8, <1>9, <1>10, <1>11 DEF RoomNext, Delivery, HandleState,
     LoseState, GuestVotes, GuestRejoins, allVars, vars

-----------------------------------------------------------------------------
(* What screens show of the room *)

\* Each vote of s, its card hidden or not, is one that was sent.
AllSent(s) == \A i \in Issues, p \in Players :
    s.votes[i][p] # None => Sent(s.votes[i][p], i, p)

SentInv ==
    /\ \A x \in outbox : AllSent(x.room)
    /\ \A m \in wire : AllSent(m)
    /\ \A q \in Guests : view[q] # None => AllSent(view[q])

\* Hiding leaves the vote where it was, and its time.
LEMMA HiddenVotes ==
    ASSUME NEW s \in State, NEW i \in Issues, NEW p \in Players
    PROVE  LET h == Hidden(s).votes[i][p]
           IN  h # None => /\ s.votes[i][p] # None /\ h.ts = s.votes[i][p].ts
                           /\ h.value \in {s.votes[i][p].value, None}
<1> DEFINE v == s.votes[i][p]
           h == Hidden(s).votes[i][p]
<1>1. v \in VoteResult \cup {None}
  BY DEF State
<1>2. CASE VoteState(s) = "voting" /\ i = s.active
  <2>1. h = IF v = None THEN None ELSE [v EXCEPT !.value = None]
    BY <1>2 DEF Hidden, State
  <2>2. v # None => [v EXCEPT !.value = None].ts = v.ts /\ [v EXCEPT !.value = None].value = None
    BY <1>1 DEF VoteResult
  <2>3. QED
    BY <2>1, <2>2
<1>3. CASE ~(VoteState(s) = "voting" /\ i = s.active)
  <2>1. h = v
    BY <1>3 DEF Hidden, State
  <2>2. QED
    BY <2>1
<1>4. QED
  BY <1>2, <1>3

LEMMA CastIsSent ==
    ASSUME NEW s, AllCast(s)
    PROVE  AllSent(s)
BY DEF AllCast, AllSent, Cast, Sent

LEMMA SentStep ==
    ASSUME RoomInv, SentInv, [RoomNext]_allVars
    PROVE  SentInv'
<1>1. /\ IInv /\ IInv' /\ outbox \subseteq Snapshot /\ [Next]_vars
      /\ IsDealer' => AllCast(state)' /\ state' \in State
  BY StepOfDealer, StepKeeps, VotesStayCast DEF RoomInv, IInv, TypeOK, RoomsConsistent, Consistent
<1>2. \A s : AllSent(s) => AllSent(s)'
  BY SentForEver DEF AllSent
<1>3. ASSUME NEW x, IsDealer', x = NewSnapshot(state')
      PROVE  AllSent(x.room)'
  <2>1. SUFFICES ASSUME NEW i \in Issues, NEW p \in Players, x.room.votes[i][p] # None
                 PROVE  Sent(x.room.votes[i][p], i, p)'
    BY DEF AllSent
  <2>2. x.room = Hidden(state')
    BY <1>3 DEF NewSnapshot
  <2>3. /\ state.votes[i][p]' # None /\ x.room.votes[i][p].ts = state.votes[i][p].ts'
        /\ x.room.votes[i][p].value \in {state.votes[i][p].value', None}
    BY <1>1, <1>3, <2>1, <2>2, HiddenVotes
  <2>4. Cast(state.votes[i][p], i, p)'
    BY <1>1, <1>3, <2>3 DEF AllCast
  <2>5. QED
    BY <2>3, <2>4 DEF Cast, Sent
<1>4. ASSUME NEW x, NEW y \in Snapshot, IsDealer', AllSent(y.room)', x = Following(y, state')
      PROVE  AllSent(x.room)'
  <2>1. AllSent(state)'
    BY <1>1, <1>4 DEF AllCast, AllSent, Cast, Sent
  <2>2. \A i \in Issues : x.room.votes[i] \in {state'.votes[i], y.room.votes[i]}
    BY <1>1, <1>4, FollowingVotes
  <2>3. QED
    BY <1>4, <2>1, <2>2 DEF AllSent
<1>5. ASSUME NEW x \in outbox' PROVE AllSent(x.room)'
  <2>1. CASE \E y \in outbox : x.room = y.room
    BY <1>2, <2>1 DEF SentInv
  <2>2. CASE IsDealer' /\ Comes(x, state')
    <3>1. \A y \in outbox : /\ y \in Snapshot /\ Detached(y) \in Snapshot
                            /\ AllSent(y.room)' /\ AllSent(Detached(y).room)'
      BY <1>1, <1>2, DetachedType DEF SentInv
    <3>2. QED
      BY <1>3, <1>4, <2>1, <2>2, <3>1 DEF Comes
  <2>3. QED
    BY <1>1, <2>1, <2>2, OutboxComes
<1>6. \A m \in wire' : m \in wire \/ \E x \in outbox : m = x.room
  BY DEF RoomNext, Sending, Delivery, DealerAlone, DealerTicks, DealerVotes, TakeVote,
     SendState, HandleState, LoseState, GuestVotes, GuestRejoins, allVars, roomVars
<1>7. \A q \in Guests : view'[q] \in {view[q], None} \cup wire
  <2>1. view \in [Guests -> State \cup {None}]
    BY DEF RoomInv, RoomTypeOK
  <2>2. QED
    BY <2>1 DEF RoomNext, Sending, Delivery, DealerAlone, DealerTicks, DealerVotes, TakeVote,
       SendState, HandleState, LoseState, GuestVotes, GuestRejoins, allVars, roomVars
<1>8. \A m \in wire' : AllSent(m)'
  BY <1>2, <1>6 DEF SentInv
<1>9. \A q \in Guests : view'[q] # None => AllSent(view[q])'
  BY <1>2, <1>7 DEF SentInv
<1>10. QED
  BY <1>5, <1>8, <1>9 DEF SentInv, AllSent

\* States on their way and on screens list the first of the room's issues.
ListsInv ==
    /\ OutboxIsBehind
    /\ RoomExists /\ ~forgotten => \A m \in wire : IsPrefix(m.issues, Room.issues)
    /\ ScreensAreBehind

\* What was forgotten once stays forgotten.
LEMMA NeverRemembered ==
    ASSUME IInv, [Next]_vars
    PROVE  forgotten => forgotten'
<1>1. CASE Command \/ Message \/ Tick
  BY <1>1 DEF Command, AddIssue, SelectIssue, Deal, Reveal, Finish, SetDeck, PublishVote,
     Message, HandlePlayerOnline, HandlePlayerOffline, HandlePlayerVote, Tick,
     WatchPlayersState, PublishStateLoop, Notify
<1>2. CASE AutoRevealStep \/ (\E x \in outbox : PublishState(x)) \/ UNCHANGED vars
  BY <1>2 DEF AutoRevealStep, TimerExpires, TimerCallback, AutoRevealRoutine,
     PublishState, vars
<1>3. CASE Lifecycle
  BY <1>3 DEF Lifecycle, AutoRevealPanics, LeaveRoomPanics, LeaveRoom, Crash, Die, Rejoin,
     LeaveBehind
<1>4. QED
  BY <1>1, <1>2, <1>3 DEF Next

LEMMA ListsStep ==
    ASSUME RoomInv, ListsInv, [RoomNext]_allVars
    PROVE  ListsInv'
<1>1. IInv /\ IInv' /\ outbox \subseteq Snapshot /\ [Next]_vars
  BY StepOfDealer, StepKeeps DEF RoomInv, IInv, TypeOK
<1>2. OutboxIsBehind' /\ RoomGrows
  BY <1>1, StepStaysBehind DEF ListsInv, StaysBehind
<1>3. /\ RoomExists => Room \in State
      /\ RoomExists' => Room' \in State
  BY <1>1 DEF RoomExists, Room, IInv, TypeOK
<1>4. ASSUME NEW s \in State, RoomExists', ~forgotten', IsPrefix(s.issues, Room.issues)
      PROVE  IsPrefix(s.issues, Room'.issues)
  <2>1. RoomExists /\ IsPrefix(Room.issues, Room'.issues)
    BY <1>2, <1>4 DEF RoomGrows
  <2>2. s.issues \in Seq(Issues) /\ Room.issues \in Seq(Issues) /\ Room'.issues \in Seq(Issues)
    BY <1>3, <1>4, <2>1 DEF State
  <2>3. QED
    BY <1>4, <2>1, <2>2, PrefixIsOrder
<1>5. \A x \in outbox : x.room \in State
  BY <1>1 DEF Snapshot
<1>6. \A m \in wire' : m \in wire \/ \E x \in outbox : m = x.room
  BY DEF RoomNext, Sending, Delivery, DealerAlone, DealerTicks, DealerVotes, TakeVote,
     SendState, HandleState, LoseState, GuestVotes, GuestRejoins, allVars, roomVars
<1>7. \A q \in Guests : view'[q] \in {view[q], None} \cup wire
  <2>1. view \in [Guests -> State \cup {None}]
    BY DEF RoomInv, RoomTypeOK
  <2>2. QED
    BY <2>1 DEF RoomNext, Sending, Delivery, DealerAlone, DealerTicks, DealerVotes, TakeVote,
       SendState, HandleState, LoseState, GuestVotes, GuestRejoins, allVars, roomVars
<1>8. wire \subseteq State /\ wire' \subseteq State /\ view \in [Guests -> State \cup {None}]
  BY NetworkKeeps DEF RoomInv, RoomTypeOK
<1>9. forgotten => forgotten'
  BY <1>1, NeverRemembered
<1>10. ASSUME RoomExists', ~forgotten' PROVE RoomExists /\ ~forgotten
  BY <1>2, <1>9, <1>10 DEF RoomGrows
<1>11. ASSUME NEW m \in wire', RoomExists', ~forgotten'
       PROVE  IsPrefix(m.issues, Room'.issues)
  BY <1>4, <1>5, <1>6, <1>8, <1>10, <1>11 DEF ListsInv, OutboxIsBehind
<1>12. ASSUME NEW q \in Guests, view'[q] # None, RoomExists', ~forgotten'
       PROVE  IsPrefix(view'[q].issues, Room'.issues)
  BY <1>4, <1>7, <1>8, <1>10, <1>12 DEF ListsInv, ScreensAreBehind
<1>13. QED
  BY <1>2, <1>11, <1>12 DEF ListsInv, ScreensAreBehind

-----------------------------------------------------------------------------
(* Theorems *)

LEMMA RoomInitEstablishes == RoomInit => RoomInv
<1> SUFFICES ASSUME RoomInit
             PROVE  RoomInv
  OBVIOUS
<1>1. IInv
  BY InitEstablishes DEF RoomInit
<1>2. \A x \in outbox : SnapshotHidden(x)
  BY <1>1, NewSnapshotHidden DEF RoomInit, Init, IInv, RoomsConsistent, IsDealer
<1>3. RoomTypeOK /\ IsFiniteSet(votesSent) /\ OpenRoundsShowNoCards
  BY FS_EmptySet DEF RoomInit, RoomTypeOK, OpenRoundsShowNoCards
<1>4. AllCast(NewRoom(Self, DefaultDeck))
  BY DEF AllCast, NewRoom, NoVotes
<1>5. (IsDealer => AllCast(state)) /\ (stored # None => AllCast(stored))
  BY <1>4 DEF RoomInit, Init
<1>6. QED
  BY <1>1, <1>2, <1>3, <1>5 DEF RoomInv, RoomInit

\* What RoomInv says is kept by every step of a room.
THEOREM RoomInductive == RoomSpec => []RoomInv
<1>1. RoomInv /\ [RoomNext]_allVars => RoomInv'
  <2> SUFFICES ASSUME RoomInv, [RoomNext]_allVars
               PROVE  RoomInv'
    OBVIOUS
  <2>1. [Next]_vars
    BY StepOfDealer
  <2>2. IInv'
    BY <2>1, StepKeeps DEF RoomInv
  <2>3. QED
    BY <2>1, <2>2, OutboxGrows, NetworkKeeps, VotesStayCast
       DEF RoomInv, SnapshotHidden, CardsHidden
<1>2. QED
  BY RoomInitEstablishes, <1>1, PTL DEF RoomSpec

\* The dealer of a room is the dealer of Dealer: the messages its players send
\* are among those Dealer is ready for, so its theorems hold in every room.
THEOREM RoomHasADealer == RoomSpec => Spec
<1>1. RoomInit => Init
  BY DEF RoomInit
<1>2. RoomInv /\ [RoomNext]_allVars => [Next]_vars
  BY StepOfDealer
<1>3. QED
  BY RoomInductive, <1>1, <1>2, PTL DEF RoomSpec, Spec

\* Whatever the network does, a room is played in the rounds of Voting: one is
\* opened, votes are cast in it, it is revealed, scored or dropped; when its
\* dealer goes, it comes back as the copy made last, or not at all.
THEOREM RoomImplementsVoting == RoomSpec => ImplementsVoting
<1>1. Spec => ImplementsVoting
  BY Refinement
<1>2. QED
  BY RoomHasADealer, <1>1, PTL

\* The network and the players hold values of their types.
THEOREM RoomTypeCorrect == RoomSpec => []RoomTypeOK
<1>1. RoomInv => RoomTypeOK
  BY DEF RoomInv
<1>2. QED
  BY RoomInductive, <1>1, PTL

\* However states are delayed, repeated and reordered, and whatever becomes of
\* the issues they share with the dealer (hiddenCurrentState, publishState), no
\* screen shows a card of a round it shows as open.
THEOREM VotesStayHidden == RoomSpec => []OpenRoundsShowNoCards
<1>1. RoomInv => OpenRoundsShowNoCards
  BY DEF RoomInv
<1>2. QED
  BY RoomInductive, <1>1, PTL

\* Every vote in the room is one that its player sent for its issue, and so is
\* every vote on a screen, its card hidden or not: none is moved or made up by
\* publishing, delaying, saving or loading the room.
THEOREM VotesAreAuthentic == RoomSpec => []VotesWereCast
<1>1. RoomInit => SentInv
  <2> SUFFICES ASSUME RoomInit PROVE SentInv
    OBVIOUS
  <2>1. NewRoom(Self, DefaultDeck).votes = [i \in Issues |-> NoVotes]
        /\ NewRoom(Self, DefaultDeck) \in State
    BY InitEstablishes DEF RoomInit, Init, NewRoom, IInv, RoomsConsistent, Consistent, IsDealer
  <2>2. AllSent(Hidden(NewRoom(Self, DefaultDeck)))
    BY <2>1, HiddenVotes DEF AllSent, NoVotes
  <2>3. QED
    BY <2>2 DEF RoomInit, Init, NewSnapshot, SentInv
<1>2. RoomInv /\ SentInv /\ [RoomNext]_allVars => SentInv'
  BY SentStep
<1>3. RoomInv /\ SentInv => VotesWereCast
  BY DEF RoomInv, SentInv, VotesWereCast, AllCast, AllSent
<1>4. QED
  BY RoomInductive, <1>1, <1>2, <1>3, PTL DEF RoomSpec

\* However old the state on a screen is, and wherever the dealer has been since,
\* its issues are the first ones of the room, in their places, unless the dealer
\* has once gone with issues that it failed to save.
THEOREM ScreensBehind == RoomSpec => []ScreensAreBehind
<1>1. RoomInit => ListsInv
  BY InitStaysBehind DEF RoomInit, ListsInv, ScreensAreBehind
<1>2. RoomInv /\ ListsInv /\ [RoomNext]_allVars => ListsInv'
  BY ListsStep
<1>3. ListsInv => ScreensAreBehind
  BY DEF ListsInv
<1>4. QED
  BY RoomInductive, <1>1, <1>2, <1>3, PTL DEF RoomSpec

=============================================================================
