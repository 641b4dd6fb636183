----------------------------- MODULE RoomState -----------------------------
(***************************************************************************)
(* The data a room consists of (pkg/protocol: State, Issue, IssuesList,    *)
(* VoteResult) and the operations pkg/game performs on it, as functions    *)
(* from room to room.  No variables: Dealer and the modules that compose   *)
(* it use these operators on the room each of them holds.                  *)
(*                                                                         *)
(* Abstractions.  An issue is its title: AddIssue refuses a second issue   *)
(* with the same title and nothing removes an issue, so titles and ids     *)
(* correspond one to one.  A deck is the set of its cards (its order only  *)
(* matters to the hint).  A player's name and last-seen time are left out. *)
(***************************************************************************)
EXTENDS Integers, Sequences, FiniteSets, FiniteSetsExt

CONSTANTS
    Players,    \* player ids
    Issues,     \* issue titles
    Cards,      \* vote values a deck may hold
    Decks,      \* the decks a dealer may choose
    Time,       \* the timestamps messages may carry
    None        \* no issue, no vote, no result, no room

ASSUME PlayersFinite == IsFiniteSet(Players)
ASSUME DecksAreCards == Decks \subseteq SUBSET Cards
ASSUME TimeIsNat == Time \subseteq Nat
ASSUME NoneIsNew == None \notin Issues \cup Cards

\* A vote: protocol.VoteResult.  The value None is the empty string that
\* Hidden leaves in place of the card.
VoteResult == [value : Cards \cup {None}, ts : Time]

ASSUME NoneIsNoVote == None \notin VoteResult

\* protocol.State.  Every issue has an entry in votes and result; those of
\* an issue that is not in the list are empty.
State == [players : SUBSET Players,
          online  : SUBSET Players,
          issues  : Seq(Issues),
          active  : Issues \cup {None},
          revealed : BOOLEAN,
          deck    : Decks,
          votes   : [Issues -> [Players -> VoteResult \cup {None}]],
          result  : [Issues -> Cards \cup {None}]]

ASSUME NoneIsNoState == None \notin State

NoVotes == [p \in Players |-> None]

\* The room CreateNewRoom hands to JoinRoom: only its dealer in it.
NewRoom(dealer, deck) ==
    [players |-> {dealer}, online |-> {dealer}, issues |-> << >>,
     active |-> None, revealed |-> FALSE, deck |-> deck,
     votes |-> [i \in Issues |-> NoVotes], result |-> [i \in Issues |-> None]]

-----------------------------------------------------------------------------
(* Reading a room *)

Listed(s) == {s.issues[k] : k \in DOMAIN s.issues}

Unestimated(s) == {i \in Listed(s) : s.result[i] = None}

VoteState(s) ==
    CASE s.active = None -> "idle"
      [] s.active # None /\ ~s.revealed -> "voting"
      [] s.active # None /\ s.revealed /\ s.active \notin Listed(s) -> "idle"
      [] OTHER -> IF s.result[s.active] = None THEN "revealed" ELSE "finished"

Voters(s, i) == {p \in Players : s.votes[i][p] # None}

\* The code compares counts: a vote of a player who is not listed counts too.
AllPlayersVoted(s) ==
    /\ s.active \in Listed(s)
    /\ Cardinality(Voters(s, s.active)) = Cardinality(s.players)

OpenPositions(s) == {k \in DOMAIN s.issues : s.result[s.issues[k]] = None}

\* The first unestimated issue from the finished one on, around the list.
GetNextIssueToDeal(s, finished) ==
    LET open  == OpenPositions(s)
        after == {k \in open : \E j \in 1..k : s.issues[j] = finished}
    IN  IF open = {} THEN None
        ELSE s.issues[Min(IF after # {} THEN after ELSE open)]

\* hiddenCurrentState: the votes of the issue being voted on lose their value.
Hidden(s) ==
    IF VoteState(s) # "voting" THEN s
    ELSE [s EXCEPT !.votes[s.active] =
            [p \in Players |-> IF @[p] = None THEN None
                               ELSE [@[p] EXCEPT !.value = None]]]

-----------------------------------------------------------------------------
(* Changing a room *)

\* Mutant: the new issue goes to the head of the list.
WithIssueFirst(s, i) ==
    [s EXCEPT !.issues = <<i>> \o @, !.votes[i] = NoVotes, !.result[i] = None]

WithIssue(s, i) ==
    [s EXCEPT !.issues = Append(@, i), !.votes[i] = NoVotes, !.result[i] = None]

WithSelected(s, i) ==
    [s EXCEPT !.result[i] = None, !.votes[i] = NoVotes, !.active = i]

WithRevealed(s) == [s EXCEPT !.revealed = TRUE]

\* Mutant: VotesRevealed is not reset.
WithResultStillShown(s, card) ==
    LET done == [s EXCEPT !.result[s.active] = card]
    IN  [done EXCEPT !.active = GetNextIssueToDeal(done, s.active)]

WithResult(s, card) ==
    LET done == [s EXCEPT !.result[s.active] = card]
    IN  [done EXCEPT !.active = GetNextIssueToDeal(done, s.active),
                     !.revealed = FALSE]

WithDeck(s, deck) == [s EXCEPT !.deck = deck]

\* A vote with the empty value retracts the player's vote.
WithVote(s, p, value, ts) ==
    [s EXCEPT !.votes[s.active][p] =
        IF value = None THEN None ELSE [value |-> value, ts |-> ts]]

WithOnline(s, p) ==
    [s EXCEPT !.players = @ \cup {p}, !.online = @ \cup {p}]

WithOffline(s, gone) == [s EXCEPT !.online = @ \ gone]

\* Mutant: the vote state is not checked, only that the issue is active.
VoteAcceptedLate(s, p, i, value, sent) ==
    /\ value # None => value \in s.deck
    /\ s.active = i
    /\ i \in Listed(s)
    /\ s.votes[i][p] # None => s.votes[i][p].ts < sent

\* The checks handlePlayerVoteMessage makes before it takes a vote.
VoteAccepted(s, p, i, value, sent) ==
    /\ VoteState(s) = "voting"
    /\ value # None => value \in s.deck
    /\ s.active = i
    /\ i \in Listed(s)
    /\ s.votes[i][p] # None => s.votes[i][p].ts < sent

-----------------------------------------------------------------------------
(* What the operations keep true of a room *)

\* A round is on a listed issue without an estimate, and is only shown while
\* there is one.
RoundIsOpen(s) ==
    /\ s.active # None => s.active \in Unestimated(s)
    /\ s.revealed => s.active # None

\* Votes on an issue without an estimate are cards of the deck, also those
\* that a dropped round left behind.
VotesFitDeck(s) ==
    \A i \in Unestimated(s), p \in Players :
        s.votes[i][p] # None => s.votes[i][p].value \in s.deck

\* With no round in progress, no issue without an estimate has a vote: this
\* is why the deck can be changed then.
IdleIsClean(s) ==
    s.active = None => \A i \in Unestimated(s) : s.votes[i] = NoVotes

UnlistedIsEmpty(s) ==
    \A i \in Issues \ Listed(s) : s.votes[i] = NoVotes /\ s.result[i] = None

Consistent(s) ==
    /\ s \in State
    /\ RoundIsOpen(s)
    /\ VotesFitDeck(s)
    /\ IdleIsClean(s)
    /\ UnlistedIsEmpty(s)

=============================================================================
