------------------------------- MODULE Dealer -------------------------------
(***************************************************************************)
(* The dealer's side of pkg/game: the process that owns a room, from the   *)
(* moment it has created it.  The network is open: any message a player's  *)
(* client can send may arrive at any moment, in any order, any number of   *)
(* times.  The dealer may leave the room, come back to it, crash and be    *)
(* restarted.  Each handler or method is one action; what it hands to      *)
(* another goroutine (the publication of a state, the timer's callback,    *)
(* the routine that callback starts) is an action of its own.              *)
(***************************************************************************)
EXTENDS RoomState, SequencesExt

CONSTANTS
    Self,          \* the dealer's own player id
    DefaultDeck,   \* the deck of a new room
    HasStorage,    \* whether the room is saved and can be loaded
    AutoReveal,    \* config.AutoRevealEnabled
    MaxOutbox,     \* bound: publications in progress at one time
    WritesFail,    \* bound: writes "never" fail, "singly" (not twice in a row), or
                   \* whenever they may ("ever")
    MaxPending     \* bound: expired timers of one issue still being processed

ASSUME SelfIsPlayer == Self \in Players
ASSUME DefaultIsDeck == DefaultDeck \in Decks
ASSUME FlagsAreBoolean == {HasStorage, AutoReveal} \subseteq BOOLEAN
ASSUME FailuresAreNamed == WritesFail \in {"never", "singly", "ever"}

VARIABLES
    status,     \* "dealer", or where the process is instead
    state,      \* g.state, or None
    stored,     \* the room that storage would load, or None
    forgotten,  \* history: the dealer has left issues behind that the file lacks
    myVote,     \* the card of g.myVote, None for the empty vote
    timer,      \* g.revealTimer, or None
    callbacks,  \* per issue, callbacks of expired timers not yet run
    routines,   \* per issue, routines started by a callback not yet run
    outbox      \* the states handed to `go publishState`, not yet marshalled

vars == <<status, state, stored, forgotten, myVote, timer, callbacks, routines, outbox>>
alarm == <<timer, callbacks, routines>>

Status == {"dealer", "outside", "crashed", "panicked"}
Timer == [issue : Issues, fired : BOOLEAN]
Snapshot == [shared : BOOLEAN, live : BOOLEAN, room : State]

\* None is also no timer: g.revealTimer is nil.
ASSUME NoneIsNoTimer == None \notin Timer

NoPending == [i \in Issues |-> 0]

IsDealer == status = "dealer"

-----------------------------------------------------------------------------
(* notifyChangedState *)

\* Mutant: the issues are never copied.
NewSnapshotShared(s) == [shared |-> TRUE, live |-> TRUE, room |-> Hidden(s)]

\* The state that is published is a copy with the votes hidden when a round
\* is open; otherwise it shares its issues with g.state.  Either way it shares
\* the array of the players.
NewSnapshot(s) ==
    [shared |-> VoteState(s) # "voting", live |-> TRUE, room |-> Hidden(s)]

\* What the snapshot x shows once g.state has become s: json.Marshal will read
\* what it shares as it is when its goroutine gets to run.
Following(x, s) ==
    LET room == x.room
        shows(i) == x.shared /\ i \in Listed(room)
        online == IF x.live THEN s.online \cap room.players ELSE room.online
        votes  == [i \in Issues |-> IF shows(i) THEN s.votes[i] ELSE room.votes[i]]
        result == [i \in Issues |-> IF shows(i) THEN s.result[i] ELSE room.result[i]]
    IN  [x EXCEPT !.room = [room EXCEPT !.online = online, !.votes = votes,
                                        !.result = result]]

\* Once append has moved the players of g.state to a larger array, an earlier
\* snapshot is left with the old one.
Detached(x) == [x EXCEPT !.live = FALSE]

\* Once g.state is nil, nothing that a snapshot shares changes any more.
Frozen(x) == [x EXCEPT !.shared = FALSE, !.live = FALSE]

Due(s) == AutoReveal /\ VoteState(s) = "voting" /\ AllPlayersVoted(s)

MayFail ==
    \/ WritesFail = "ever"
    \/ WritesFail = "singly" /\ (IsDealer => stored = state)

\* SaveRoomState truncates the file and writes it; its error is only logged.
\* The file has the room, or the one before, or nothing that can be parsed.
Save(s) ==
    IF ~HasStorage THEN UNCHANGED stored
    ELSE stored' = s \/ (MayFail /\ stored' \in {stored, None})

\* Append moves the array only for a player who is new, and not every time.
Publish(s) == \E moves \in BOOLEAN :
    /\ moves => IsDealer /\ s.players # state.players
    /\ LET waiting == {Following(IF moves THEN Detached(x) ELSE x, s) : x \in outbox}
       IN  outbox' = IF Cardinality(waiting) < MaxOutbox
                     THEN waiting \cup {NewSnapshot(s)} ELSE waiting

\* Mutant: the timer of an earlier round is left running.
RearmWithoutCancel(s) ==
    timer' = IF Due(s) THEN [issue |-> s.active, fired |-> FALSE] ELSE timer

\* Any pending timer is stopped; a new one is started when the round is due.
Rearm(s) ==
    timer' = IF Due(s) THEN [issue |-> s.active, fired |-> FALSE] ELSE None

\* Mutant: the votes are hidden in the room itself, not in a copy.
NotifyChangedStateInPlace(s) ==
    /\ state' = Hidden(s)
    /\ Save(s)
    /\ Publish(Hidden(s))
    /\ Rearm(s)

\* The room becomes s and everyone is told.
NotifyChangedState(s) ==
    /\ state' = s
    /\ Save(s)
    /\ Publish(s)
    /\ Rearm(s)

Notify(s) ==
    NotifyChangedState(s) /\ UNCHANGED <<status, forgotten, callbacks, routines>>

-----------------------------------------------------------------------------
(* The dealer's commands *)

AddIssue(i) ==
    /\ IsDealer
    /\ i \notin Listed(state)
    /\ Notify(WithIssue(state, i))
    /\ UNCHANGED myVote

SelectIssue(i) ==
    /\ IsDealer
    /\ VoteState(state) # "revealed"
    /\ i \in Listed(state)
    /\ Notify(WithSelected(state, i))
    /\ UNCHANGED myVote

Deal(i) ==
    /\ IsDealer
    /\ VoteState(state) # "revealed"
    /\ i \notin Listed(state)
    /\ Notify(WithSelected(WithIssue(state, i), i))
    /\ UNCHANGED myVote

Reveal ==
    /\ IsDealer
    /\ VoteState(state) = "voting"
    /\ Notify(WithRevealed(state))
    /\ UNCHANGED myVote

\* Mutant: the dealer's own vote is not reset.
FinishKeepsMyVote(card) ==
    /\ IsDealer
    /\ VoteState(state) = "revealed"
    /\ card \in state.deck
    /\ state.active \in Listed(state)
    /\ Notify(WithResult(state, card))
    /\ UNCHANGED myVote

Finish(card) ==
    /\ IsDealer
    /\ VoteState(state) = "revealed"
    /\ card \in state.deck
    /\ state.active \in Listed(state)
    /\ Notify(WithResult(state, card))
    /\ myVote' = None

\* Mutant: only a revealed round keeps the deck from being changed.
SetDeckWhileVoting(deck) ==
    /\ IsDealer
    /\ VoteState(state) # "revealed"
    /\ Notify(WithDeck(state, deck))
    /\ UNCHANGED myVote

SetDeck(deck) ==
    /\ IsDealer
    /\ VoteState(state) \in {"idle", "finished"}
    /\ Notify(WithDeck(state, deck))
    /\ UNCHANGED myVote

\* The dealer's own vote (None retracts it): it is remembered and sent; it
\* reaches the room as any player's does, through HandlePlayerVote.
PublishVote(card) ==
    /\ IsDealer
    /\ VoteState(state) = "voting"
    /\ card \in state.deck \cup {None}
    /\ myVote' = card
    /\ UNCHANGED <<status, state, stored, forgotten, alarm, outbox>>

-----------------------------------------------------------------------------
(* Messages and clocks *)

\* Nothing is announced when the player was online under the same name.
HandlePlayerOnline(p, renamed) ==
    /\ IsDealer
    /\ p \in state.players /\ p \in state.online => renamed
    /\ Notify(WithOnline(state, p))
    /\ UNCHANGED myVote

HandlePlayerOffline(p) ==
    /\ IsDealer
    /\ p \in state.players
    /\ Notify(WithOffline(state, {p}))
    /\ UNCHANGED myVote

HandlePlayerVote(p, i, card, voted, sent) ==
    /\ IsDealer
    /\ VoteAccepted(state, p, i, card, sent)
    /\ Notify(WithVote(state, p, card, voted))
    /\ UNCHANGED myVote

\* Some players have not been heard of for playerOnlineTimeout.
WatchPlayersState(gone) ==
    /\ IsDealer
    /\ gone # {}
    /\ gone \subseteq state.online
    /\ Notify(WithOffline(state, gone))
    /\ UNCHANGED myVote

\* Mutant: nothing is sent between two rounds.
PublishStateLoopInRounds ==
    /\ IsDealer
    /\ VoteState(state) # "idle"
    /\ Notify(state)
    /\ UNCHANGED myVote

PublishStateLoop ==
    /\ IsDealer
    /\ Notify(state)
    /\ UNCHANGED myVote

\* publishState gives up when the process is no longer a dealer.
PublishState(x) ==
    /\ x \in outbox
    /\ outbox' = outbox \ {x}
    /\ UNCHANGED <<status, state, stored, forgotten, myVote, alarm>>

-----------------------------------------------------------------------------
(* Auto reveal: the timer expires, its callback runs, a routine reveals *)

\* The room is gone from memory and stays as the file has it, if it does.
LeaveBehind ==
    forgotten' = (forgotten \/ (IsDealer /\ stored # None /\ stored.issues # state.issues))

\* The process dies; what storage holds remains.
Die(how) ==
    /\ LeaveBehind
    /\ status' = how
    /\ state' = None
    /\ timer' = None
    /\ callbacks' = NoPending
    /\ routines' = NoPending
    /\ outbox' = {}
    /\ UNCHANGED <<stored, myVote>>

TimerExpires ==
    /\ timer # None
    /\ ~timer.fired
    /\ callbacks[timer.issue] + routines[timer.issue] < MaxPending
    /\ timer' = [timer EXCEPT !.fired = TRUE]
    /\ callbacks' = [callbacks EXCEPT ![timer.issue] = @ + 1]
    /\ UNCHANGED <<status, state, stored, forgotten, myVote, routines, outbox>>

\* Mutant: the callback does nothing when another timer has replaced its own.
TimerCallbackChecksTimer(i) ==
    /\ callbacks[i] > 0
    /\ callbacks' = [callbacks EXCEPT ![i] = @ - 1]
    /\ routines' = IF timer # None /\ timer.fired
                   THEN [routines EXCEPT ![i] = @ + 1] ELSE routines
    /\ timer' = None
    /\ UNCHANGED <<status, state, stored, forgotten, myVote, outbox>>

\* cancelAutoReveal stops whichever timer g.revealTimer holds by now.
TimerCallback(i) ==
    /\ callbacks[i] > 0
    /\ callbacks' = [callbacks EXCEPT ![i] = @ - 1]
    /\ routines' = [routines EXCEPT ![i] = @ + 1]
    /\ timer' = None
    /\ UNCHANGED <<status, state, stored, forgotten, myVote, outbox>>

\* Mutant: the routine returns when the issue changed, as its log line says;
\* the callback that started it may have cancelled the timer of that issue.
AutoRevealRoutineReturns(i) ==
    /\ routines[i] > 0
    /\ IsDealer
    /\ routines' = [routines EXCEPT ![i] = @ - 1]
    /\ IF VoteState(state) = "voting" /\ state.active = i
       THEN NotifyChangedState(WithRevealed(state))
       ELSE UNCHANGED <<state, stored, outbox, timer>>
    /\ UNCHANGED <<status, forgotten, myVote, callbacks>>

\* The routine looks at the active issue, logs that it changed, and reveals.
AutoRevealRoutine(i) ==
    /\ routines[i] > 0
    /\ IsDealer
    /\ routines' = [routines EXCEPT ![i] = @ - 1]
    /\ IF VoteState(state) = "voting"
       THEN NotifyChangedState(WithRevealed(state))
       ELSE UNCHANGED <<state, stored, outbox, timer>>
    /\ UNCHANGED <<status, forgotten, myVote, callbacks>>

\* The same routine after the room was left: g.state is nil.
AutoRevealPanics(i) ==
    /\ routines[i] > 0
    /\ ~IsDealer
    /\ Die("panicked")

-----------------------------------------------------------------------------
(* Leaving, crashing and coming back *)

\* notifyChangedState dereferences the nil state when a timer is pending.
LeaveRoomPanics ==
    /\ IsDealer
    /\ timer # None
    /\ Die("panicked")

\* Mutant: g.state is not cleared.
LeaveRoomKeepsState ==
    /\ IsDealer
    /\ timer = None
    /\ status' = "outside"
    /\ outbox' = {Frozen(x) : x \in outbox}
    /\ LeaveBehind
    /\ UNCHANGED <<state, stored, myVote, alarm>>

LeaveRoom ==
    /\ IsDealer
    /\ timer = None
    /\ status' = "outside"
    /\ state' = None
    /\ outbox' = {Frozen(x) : x \in outbox}
    /\ LeaveBehind
    /\ UNCHANGED <<stored, myVote, alarm>>

Crash ==
    /\ status \in {"dealer", "outside"}
    /\ Die("crashed")

\* JoinRoom of the saved room, in the same process or a new one: everyone
\* whose last message is older than playerOnlineTimeout is offline.
Rejoin(online) ==
    /\ ~IsDealer
    /\ stored # None
    /\ online \subseteq stored.players
    /\ status' = "dealer"
    /\ myVote' = None
    /\ NotifyChangedState([stored EXCEPT !.online = online])
    /\ UNCHANGED <<forgotten, callbacks, routines>>

-----------------------------------------------------------------------------
(* Specification *)

\* CreateNewRoom and JoinRoom have run.
Init ==
    /\ status = "dealer"
    /\ state = NewRoom(Self, DefaultDeck)
    /\ \/ HasStorage /\ stored = state
       \/ (HasStorage => WritesFail # "never") /\ stored = None
    /\ forgotten = FALSE
    /\ myVote = None
    /\ timer = None
    /\ callbacks = NoPending
    /\ routines = NoPending
    /\ outbox = IF MaxOutbox > 0 THEN {NewSnapshot(state)} ELSE {}

Command ==
    \/ \E i \in Issues : AddIssue(i) \/ SelectIssue(i) \/ Deal(i)
    \/ Reveal
    \/ \E card \in Cards : Finish(card)
    \/ \E deck \in Decks : SetDeck(deck)
    \/ \E card \in Cards \cup {None} : PublishVote(card)

Message ==
    \/ \E p \in Players, renamed \in BOOLEAN : HandlePlayerOnline(p, renamed)
    \/ \E p \in Players : HandlePlayerOffline(p)
    \/ \E p \in Players, i \in Issues, card \in Cards \cup {None},
         voted \in Time, sent \in Time :
           voted <= sent /\ HandlePlayerVote(p, i, card, voted, sent)

Tick ==
    \/ \E gone \in SUBSET Players : WatchPlayersState(gone)
    \/ PublishStateLoop

AutoRevealStep ==
    \/ TimerExpires
    \/ \E i \in Issues : TimerCallback(i) \/ AutoRevealRoutine(i)

Lifecycle ==
    \/ \E i \in Issues : AutoRevealPanics(i)
    \/ LeaveRoomPanics
    \/ LeaveRoom
    \/ Crash
    \/ \E online \in SUBSET Players : Rejoin(online)

Next ==
    \/ Command
    \/ Message
    \/ Tick
    \/ AutoRevealStep
    \/ \E x \in outbox : PublishState(x)
    \/ Lifecycle

Spec == Init /\ [][Next]_vars

\* The Go runtime runs every goroutine that is ready, and clockwork's timer
\* fires once its delay has passed.  Nothing is assumed of commands, messages
\* or of the process coming back.
Fairness ==
    /\ WF_vars(TimerExpires)
    /\ \A i \in Issues :
        WF_vars(TimerCallback(i)) /\ WF_vars(AutoRevealRoutine(i))

FairSpec == Spec /\ Fairness

-----------------------------------------------------------------------------
(* Properties *)

\* The type invariant: every variable holds a value the Go types and the
\* modelled protocol allow.
TypeOK ==
    /\ status \in Status
    /\ state \in State \cup {None}
    /\ stored \in State \cup {None}
    /\ forgotten \in BOOLEAN
    /\ myVote \in Cards \cup {None}
    /\ timer \in Timer \cup {None}
    /\ callbacks \in [Issues -> Nat]
    /\ routines \in [Issues -> Nat]
    /\ outbox \subseteq Snapshot
    /\ IsDealer <=> state # None

\* A round is always on a listed issue that has no estimate yet, and votes
\* are shown only during a round.  So VoteState is never "finished", Finish
\* always finds its issue, and GetNextIssueToDeal its starting point.
ActiveIssueIsOpen ==
    IsDealer => /\ state.active # None => state.active \in Unestimated(state)
                /\ state.revealed => state.active # None

\* Every vote on an issue that has no estimate is a card of the deck in use,
\* votes left behind by an abandoned round included: the deck can change
\* only when no such vote exists, so GetResultHint never fails on a reveal.
OpenVotesInDeck ==
    IsDealer => \A i \in Unestimated(state), p \in Players :
        state.votes[i][p] # None => state.votes[i][p].value \in state.deck

\* The card g.myVote holds, which the dealer's screen marks as chosen, is a
\* card of the deck on that screen.
MyVoteFitsDeck == IsDealer /\ myVote # None => myVote \in state.deck

\* Whenever everyone has voted, a reveal is on its way: a running timer, or
\* an expired one whose callback or routine has yet to run.  No order of
\* votes, cancellations, expiries and returns to the room loses it.
AutoRevealArmed ==
    IsDealer /\ Due(state) =>
        \/ timer # None /\ ~timer.fired
        \/ \E i \in Issues : callbacks[i] > 0 \/ routines[i] > 0

\* A running timer belongs to the round in progress, and everyone has voted
\* in that round: a reveal, a retraction, a newcomer or another issue never
\* leaves the timer of the earlier round running.
RunningTimerIsDue ==
    timer # None /\ ~timer.fired =>
        IsDealer /\ Due(state) /\ timer.issue = state.active

\* A publication that was delayed, even across the dealer's leaving and
\* coming back, shows a prefix of the list of issues the dealer has now, unless
\* the dealer has once gone with issues that it failed to save.
SnapshotsAreBehind ==
    ~forgotten => \A x \in outbox : IsDealer => IsPrefix(x.room.issues, state.issues)

\* The room: the dealer's, or the saved one while the dealer is away.  Without
\* a file there is nothing to come back to.
RoomExists == IsDealer \/ stored # None
EmptyRoom == NewRoom(Self, DefaultDeck)
Room == IF IsDealer THEN state ELSE IF stored # None THEN stored ELSE EmptyRoom

CardsDown(s) ==
    [i \in Issues |-> [p \in Players |->
        IF s.votes[i][p] = None THEN None ELSE s.votes[i][p].value]]

RoundsOf(s) == <<Listed(s), s.active, s.revealed, CardsDown(s), s.result>>

Rounds == INSTANCE Voting WITH
    open <- IsDealer,
    agenda <- Listed(Room), current <- Room.active, shown <- Room.revealed,
    ballots <- CardsDown(Room), estimates <- Room.result,
    kept <- IF stored = None THEN {} ELSE {RoundsOf(stored)}

\* The dealer implements Voting: shown votes never change, and a shown round
\* ends in an estimate and in no other way, unless the dealer goes; then the
\* room comes back whole, as it was saved last, or not at all.
ImplementsVoting == Rounds!Spec

\* Once the room is left alone, a round in which everyone has voted is
\* revealed (or its dealer is gone): the machinery of timer, callback and
\* routine cannot get stuck.  Notifications that keep arriving within the
\* delay do postpone the reveal, hence the premise.
AutoRevealHappens ==
    <>[][AutoRevealStep \/ \E x \in outbox : PublishState(x)]_vars
        => []<>(IsDealer => ~Due(state))

-----------------------------------------------------------------------------
(* What the repository says of the program, and the code does not do *)

\* The routine that finds another issue active logs "auto reveal cancelled:
\* issue changed" (game.go:864): it reveals the votes of no other issue.
AutoRevealKeepsToItsIssue ==
    [][\A i \in Issues :
        AutoRevealRoutine(i) /\ state' # state => state.active = i]_vars

\* "Exit room" (shortcuts.go:89) leaves the room; the program goes on.
LeavingIsSafe == status # "panicked"

\* What is published is a deep copy of the state (game.go:632), made with
\* the votes of the open round hidden: whenever the publication runs, it
\* does not show a card of the round that is open.
PublicationsHideOpenVotes ==
    \A x \in outbox : IsDealer /\ VoteState(state) = "voting" =>
        \A p \in Players :
            LET vote == x.room.votes[state.active][p]
            IN  vote # None => vote.value = None

=============================================================================
