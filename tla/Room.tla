-------------------------------- MODULE Room --------------------------------
(***************************************************************************)
(* A room as a whole: the dealer of Dealer, the other players (pkg/game    *)
(* when isDealer is false) and the network between them.  Messages may be  *)
(* lost, overtake each other and arrive more than once.  What the dealer   *)
(* does is what Dealer does; here its votes come from players that vote on *)
(* the state they last received, and its publications reach them.  A       *)
(* player's own reveal timer is left out: Reveal refuses when it fires.    *)
(***************************************************************************)
EXTENDS Dealer

CONSTANTS
    Visitors,   \* bound: players whose coming and going the dealer notices
    MaxSent,    \* bound: vote messages, per player
    MaxWire     \* bound: state messages under way

ASSUME VisitorsArePlayers == Visitors \subseteq Players
ASSUME MaxSentIsTime == 
    MaxSent \in [Players -> Nat] /\ \A p \in Players : 1..MaxSent[p] \subseteq Time

VARIABLES
    view,       \* per player, g.state as last received, or None
    ownVote,    \* per player, the card of g.myVote
    votesSent,  \* every vote message ever sent; any of them may still arrive
    newest,     \* per player, the number of the newest vote the dealer has taken
    wire        \* state messages under way

roomVars == <<view, ownVote, votesSent, newest, wire>>
allVars == <<status, state, stored, forgotten, myVote, timer, callbacks, routines, outbox,
             view, ownVote, votesSent, newest, wire>>

Guests == Players \ {Self}

\* protocol.PlayerVoteMessage.  A player's clock goes on from one message to
\* the next; the vote and its message are stamped in the same call.
VoteMessage == [player : Players, issue : Issues, card : Cards \cup {None}, at : Time]

SentBy(p) == {m \in votesSent : m.player = p}

SendVote(p, issue, card) ==
    /\ Cardinality(SentBy(p)) < MaxSent[p]
    /\ votesSent' = votesSent \cup
         {[player |-> p, issue |-> issue, card |-> card, at |-> Cardinality(SentBy(p)) + 1]}

-----------------------------------------------------------------------------
(* The dealer, connected *)

\* Everything the dealer does that neither reads nor writes the network.
DealerAlone ==
    /\ \/ \E i \in Issues : AddIssue(i) \/ SelectIssue(i) \/ Deal(i)
       \/ Reveal
       \/ \E card \in Cards : Finish(card)
       \/ \E deck \in Decks : SetDeck(deck)
       \/ AutoRevealStep
       \/ Lifecycle
       \/ \E gone \in SUBSET Visitors : WatchPlayersState(gone)
       \/ \E p \in Visitors, renamed \in BOOLEAN : HandlePlayerOnline(p, renamed)
       \/ \E p \in Visitors : HandlePlayerOffline(p)
    /\ UNCHANGED roomVars

DealerTicks == PublishStateLoop /\ UNCHANGED roomVars

DealerVotes(card) ==
    /\ PublishVote(card)
    /\ SendVote(Self, state.active, card)
    /\ UNCHANGED <<view, ownVote, newest, wire>>

TakeVote(m) ==
    /\ m \in votesSent
    /\ HandlePlayerVote(m.player, m.issue, m.card, m.at, m.at)
    /\ newest' = [newest EXCEPT ![m.player] = Max({@, m.at})]
    /\ UNCHANGED <<view, ownVote, votesSent, wire>>

\* publishState, run to its end: a message for everyone if still the dealer.
SendState(x) ==
    /\ PublishState(x)
    /\ wire' = IF IsDealer /\ Cardinality(wire) < MaxWire
               THEN wire \cup {x.room} ELSE wire
    /\ UNCHANGED <<view, ownVote, votesSent, newest>>

-----------------------------------------------------------------------------
(* The other players *)

\* handleStateMessage; the message may arrive again.
HandleState(p, m) ==
    /\ m \in wire
    /\ ownVote' = [ownVote EXCEPT ![p] =
         IF view[p] # None /\ view[p].active # m.active THEN None ELSE @]
    /\ view' = [view EXCEPT ![p] = m]
    /\ wire' \in {wire, wire \ {m}}
    /\ UNCHANGED <<vars, votesSent, newest>>

LoseState(m) ==
    /\ m \in wire
    /\ wire' = wire \ {m}
    /\ UNCHANGED <<vars, view, ownVote, votesSent, newest>>

\* Mutant: the vote state is not checked.
GuestVotesAnyTime(p, card) ==
    /\ view[p] # None
    /\ card \in view[p].deck \cup {None}
    /\ ownVote' = [ownVote EXCEPT ![p] = card]
    /\ SendVote(p, view[p].active, card)
    /\ UNCHANGED <<vars, view, newest, wire>>

\* PublishVote of a player who is not the dealer.
GuestVotes(p, card) ==
    /\ view[p] # None
    /\ VoteState(view[p]) = "voting"
    /\ card \in view[p].deck \cup {None}
    /\ ownVote' = [ownVote EXCEPT ![p] = card]
    /\ SendVote(p, view[p].active, card)
    /\ UNCHANGED <<vars, view, newest, wire>>

\* LeaveRoom and JoinRoom of a player who is not the dealer.  A vote before
\* the first state dereferences nil and comes to the same, after a restart.
GuestRejoins(p) ==
    /\ view' = [view EXCEPT ![p] = None]
    /\ ownVote' = [ownVote EXCEPT ![p] = None]
    /\ UNCHANGED <<vars, votesSent, newest, wire>>

-----------------------------------------------------------------------------
(* Specification *)

RoomInit ==
    /\ Init
    /\ view = [p \in Guests |-> None]
    /\ ownVote = [p \in Guests |-> None]
    /\ votesSent = {}
    /\ newest = [p \in Players |-> 0]
    /\ wire = {}

Delivery == \E p \in Guests : \E m \in wire : HandleState(p, m)

Sending == \E x \in outbox : SendState(x)

RoomNext ==
    \/ DealerAlone
    \/ DealerTicks
    \/ \E card \in Cards \cup {None} : DealerVotes(card)
    \/ \E m \in votesSent : TakeVote(m)
    \/ Sending
    \/ Delivery
    \/ \E m \in wire : LoseState(m)
    \/ \E p \in Guests, card \in Cards \cup {None} : GuestVotes(p, card)
    \/ \E p \in Guests : GuestRejoins(p)

\* A message that carries the state of the room as it is now.
Current(m) == IsDealer /\ m = Hidden(state)

RoomSpec == RoomInit /\ [][RoomNext]_allVars

\* Goroutines run, the dealer's 30 second loop ticks, and a state that is
\* sent again and again is received in the end.
RoomFairness ==
    /\ WF_allVars(DealerTicks)
    /\ WF_allVars(Sending)
    /\ \A p \in Guests : SF_allVars(\E m \in wire : Current(m) /\ HandleState(p, m))
    /\ WF_allVars(\E m \in wire : ~Current(m) /\ LoseState(m))

FairRoomSpec == RoomSpec /\ RoomFairness

-----------------------------------------------------------------------------
(* Properties *)

\* Values the variables of the network and the players take.
RoomTypeOK ==
    /\ view \in [Guests -> State \cup {None}]
    /\ ownVote \in [Guests -> Cards \cup {None}]
    /\ votesSent \subseteq VoteMessage
    /\ newest \in [Players -> Nat]
    /\ wire \subseteq State

\* No card of the round that s shows as open is on display.
CardsHidden(s) ==
    VoteState(s) = "voting" =>
        \A q \in Players :
            s.votes[s.active][q] # None => s.votes[s.active][q].value = None

\* Whatever was published when, and whatever the issues it shares have become
\* since: a player whose screen shows an open round sees no card in it.
OpenRoundsShowNoCards == \A p \in Guests : view[p] # None => CardsHidden(view[p])

\* The vote is one that p sent for the issue i.
Cast(vote, i, p) == \E m \in votesSent :
    m.player = p /\ m.issue = i /\ m.card = vote.value /\ m.at = vote.ts

\* So it is, with its card hidden or not.
Sent(vote, i, p) == \E m \in votesSent :
    m.player = p /\ m.issue = i /\ vote.value \in {m.card, None} /\ m.at = vote.ts

\* No vote is made up, moved to another issue or to another player: each one in
\* the room is a message its player sent for that issue, and each one that a
\* screen shows, as a card or face down.  In the room itself none is masked.
VotesWereCast ==
    /\ IsDealer => \A i \in Issues, p \in Players :
        state.votes[i][p] # None => Cast(state.votes[i][p], i, p)
    /\ \A q \in Guests : view[q] # None => \A i \in Issues, p \in Players :
        view[q].votes[i][p] # None => Sent(view[q].votes[i][p], i, p)

\* However old the state is that a screen shows, and whatever the dealer has gone
\* through since: its issues are the first ones of the room's, unless the dealer has
\* once gone with issues that it failed to save.
ScreensAreBehind ==
    RoomExists /\ ~forgotten => \A p \in Guests :
        view[p] # None => IsPrefix(view[p].issues, Room.issues)

\* When commands, votes and presence come to rest, every player ends with the
\* state of the dealer on the screen, votes of an open round hidden, whatever
\* was lost or late before.
PlayersCatchUp ==
    <>[][DealerTicks \/ Sending \/ Delivery \/ \E m \in wire : LoseState(m)]_allVars
        => <>[](IsDealer => \A p \in Guests : Current(view[p]))

-----------------------------------------------------------------------------
(* What the repository says of the program, and the code does not do *)

\* "player vote ignored as outdated" (game_handle.go:133): the dealer takes no
\* vote of a player who sent it before one that was taken already.
OutdatedVotesAreIgnored ==
    [][\A m \in votesSent :
        TakeVote(m) => newest[m.player] <= m.at]_allVars

=============================================================================
