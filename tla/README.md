# Verification of 2-story-points-cli

Formal models of `2sp`, a planning-poker program for the terminal: a *dealer*
owns a room, players join it over a gossip network, issues are estimated in
rounds of hidden votes. TLA+ modules model the code under `src/`; TLC checks
them on small instances; TLAPS proves the main safety results for every
instance.

## 1. Inventory

| Part | Code | State it keeps | Operations | What makes it correct |
|---|---|---|---|---|
| Room state | `pkg/protocol` | players, issues with votes / result / hint, active issue, revealed flag, deck | `VoteState`, `AllPlayersVoted`, `GetNextIssueToDeal` | the active issue exists and is open; votes fit the deck |
| Dealer | `pkg/game/game.go`, `game_handle.go` | `state`, `isDealer`, `myVote`, `revealTimer` | AddIssue, Deal, SelectIssue, Reveal, Finish, SetDeck, PublishVote, message handlers, `notifyChangedState`, Leave / Join | rounds end in an estimate; shown votes are final while the dealer stays; a restart finds the room as it was saved, or none |
| Auto reveal | `scheduleAutoReveal`, `cancelAutoReveal` | timer, callbacks and routines under way | schedule, cancel, fire | reveals exactly the round that is complete, and does reveal it |
| Hint | `pkg/game/hints.go` | none | `GetResultHint` | proposes the nearest card, accepts agreement only |
| Player | `handleStateMessage`, `PublishVote` | copy of the state, `myVote` | receive a state, vote, retract | sees only states the dealer had; own vote matches the round |
| Presence | `publishOnlineState`, `watchPlayersStateLoop`, `loadStateFromStorage` | last-seen times | online / offline messages, timeout | a player who keeps sending stays online; one who is gone does not |
| Room routines | `JoinRoom`, `LeaveRoom`, `startRoutines` and its loops | `room`, `exitRoom`, `g.messages` | start, stop, loop back | routines of a room end with it; a room shown is served |
| Storage | `pkg/storage` | player and room files | load, save | what was saved can be loaded; a player keeps its identity |
| Events | `pkg/game/events.go`, `eventhandler` | subscriber channels | Send, Subscribe, Close, WaitForEvent | the screen ends on the latest state |
| Transport | `internal/transport` | peers, subscriptions, topic cache | start, publish, subscribe, status | subscriptions are released; status is current |
| Application | `internal/view/model.go`, `cmd.go`, `commands` | application state, the name prompt, the status shown | messages of the start, keys, room commands | the wait for peers ends; commands act on the room shown |
| Deck, cursors, issue list | `deckview`, `cursor`, `issuesview`, `userinput` | cursors, copies of mode, focus and room | keys, states, mode and room messages | cursors stay inside deck and list; one part has the keys |
| Issue fetch | `issueview` | titles by issue | request, result | asked once, and answered |
| Configuration and start | `cmd/2sp/main.go`, `internal/config` | flags | start, end | |
| Topic cache, room identifier, message format, rendering, demo, test support | `topic_cache.go`, `pkg/protocol`, view components, `demo` | none of a protocol | | not modelled |

How the parts meet: commands of the screen run in goroutines of their own and
call the dealer's methods; the dealer's handlers run in the goroutine that
reads the transport and in the one that reads the messages the dealer sends to
itself (`g.messages`); the loops run in others. All share `g.state` without a
lock. Every change ends in `notifyChangedState`, which saves, computes the
hint, sends an event to the screen, starts a goroutine that publishes the
state, and cancels or schedules the auto reveal.

Hard behaviours: interleavings of commands, messages and the three steps of an
auto reveal; publications that marshal a state others are changing; messages
lost, duplicated or reordered; leaving a room while any of this is under way;
restarts from a saved room. `PROJECT.json` lists them as hazards, each with the
line where it bites and the property that covers it, or the reason none does.

## 2. Modules

### `RoomState`
The data of a room and the operations on it, as functions from room to room
named after what the code does (`WithIssue` is `addIssue`, `WithResult` the
update made by `Finish`, and so on). No variables. An issue is its title, which
`addIssue` keeps unique; a deck is the set of its cards; names and presence
times are left out. `Consistent` collects what every operation keeps true.

### `Voting`
The abstract specification: an agenda, a current round that is open or shown,
ballots, estimates, and at most one copy of all that in safe keeping, which is of
the room as it is, of the one before, or spoiled. The room closes when its
dealer goes; it opens again as the copy, whole, or not at all. No messages,
timers, decks, files or processes.

### `Dealer`
One process, the dealer's. Variables and what they stand for:

| Variable | Code |
|---|---|
| `status` | in the room as dealer / out of it / process crashed / process panicked |
| `state` | `g.state` |
| `stored` | the room file, `None` if it is missing or cannot be parsed |
| `forgotten` | none; history: the dealer has once gone with issues that the file lacks |
| `myVote` | `g.myVote.Value` |
| `timer` | `g.revealTimer`: its issue, and whether it has fired while its callback has yet to run |
| `callbacks`, `routines` | per issue, how many callbacks of fired timers, and routines those callbacks started, have yet to run |
| `outbox` | states given to `go g.publishState` that are not marshalled yet, as they would be marshalled now |

Each command, handler, loop tick and routine is one action, with everything
`notifyChangedState` does inside it (`NotifyChangedState`): saving, handing a
snapshot to publication, stopping and starting the timer. Inputs are open: a
vote message may come from any player, for any issue, with any card and any
timestamps whose order a client can produce (the vote is made before its
message), at any time, again and again; presence messages likewise. So loss,
duplication and reordering on the way *to* the dealer are all covered. A
snapshot of a room with a round open has a deep copy of its issues, with hidden
votes; any other shares its issues with `state`, and every snapshot shares the
array of the players, as long as `append` has not moved it (`live`). So with
each change of `state` the snapshots in the outbox change too (`Following`).
Leaving freezes them (`Frozen`), because the next room is loaded as new objects.

`Save` is `SaveRoomState`, whose error `notifyChangedState` only logs before it
goes on: the file holds the new room, the one before, or nothing that can be
parsed. `WritesFail` bounds how often: "never", "singly" (a write may fail only
if the one before did not) or "ever". A dealer that comes back finds what the
file has; with a spoiled file it would come back as a player, which `Dealer`
takes for the room's end (`Presence` goes on with it).

Leaving with a timer pending and an auto reveal routine that runs after leaving
dereference nil: the process ends (`LeaveRoomPanics`, `AutoRevealPanics`).

### `Hints`
`GetResultHint` and its helpers, and the votes it is asked about as they are
cast and retracted. Mean deviations are kept as a sum and a count.

### `Room`
Dealer (by EXTENDS, with all its variables) together with the players who are
not dealers and the network. `view` and `ownVote` are `g.state` and `g.myVote`
of each of those players; `votesSent` holds every vote message ever sent, any of
which may arrive at any time and again; `wire` holds state messages under way,
which are delivered in any order, perhaps more than once, or lost; `newest` is
bookkeeping for a property. A player votes on the state it has, however old;
the dealer's own votes take the same way. `SendState` is `publishState` run to
its end: the snapshot, as it is by then, goes onto the wire. Leaving and joining forgets
state and vote. A vote before the first state is a nil dereference in
`PublishVote`: it kills the player's process, which the model sees as leaving
and joining. The auto reveal timer that players start too is left out, since
`Reveal` refuses them; leaving with it pending panics as the dealer's does.
`Visitors` bounds whose presence changes.

### `Presence`
Players who announce themselves every period, the network, and the dealer's
list with the room file. `since` is where the player's timer is, `quiet` how
long ago it was last sure to be sent, `gone` how long ago the player was in the
room; the last two are history. A time stamp is kept as its age, which `Tick`
makes grow for the list, the file and the messages under way. `Save` is
`SaveRoomState`: not atomic, and its error only logged, so the file is the new
list, the old one, or `Torn`. `HandlePlayerOnline` does not save when the list
looks the same afterwards, so the file's stamps are as old as the last change:
a restarted dealer may find everyone offline. The dealer's clock is taken to be
the players': only its own stamps are compared. They are cut to milliseconds
(`game.go:447`), the clock they are compared with is not (`game.go:282`): a
player whose stamp is exactly as old as the timeout is normally over it, and is
not if the stamp was taken at a full millisecond. `WatchPlayersState` marks any
of those `AtLimit`. `loadStateFromStorage` compares with "before", where the cut
makes no difference. A dealer with a torn file comes
back as a player (`lost`) and stays one.

### `Startup`
From `InitializeApp` to the prompt. `flags`, `file`, `stored`, `player` and `pc`
are configuration, `player.json`, the storage, `g.player` and the command's
progress; `state`, `focused` and `shown` belong to the screen's model;
`inbox` is a bag, because commands run in goroutines of their own and their
messages come in any order; `channel`, `unsent` and `sent` are the status
subscription. While the event handler's `Init` has a status to send (`unsent`),
Update is busy. `Restart` is the end of the process and another start with
other flags, at any time.

### `Screen`
What the keys act on. `deckView`, `issuesListView` and `input` keep copies of
mode, focus and room; since all are passed every message in one `Update`, one
variable stands for copies that cannot differ, and those that could (what a
cursor's focus was computed from, and when) are the cursors' own fields. States
come in any order, any number of times. `enter` is the delay that disables
Enter after a paste: the flag, the channel, signals in it, and how many
`DelayMessage` goroutines run and have sent. `infos` and `fetches` are
`issueView`: a request may end while any issue is active.

### `Sessions`
Rooms one after the other. A session is one stay in a room and names its
`exitRoom` channel. `command` is the join or exit under way, in the steps at
whose ends routines can see a difference; `crew` is, per session and kind, where
a routine is in its loop and which channel the select statement found in
`g.exitRoom`; `subs` is the transport's subscription with its buffer, and the
goroutine that fills it. The user gives one room command at a time and waits
for its answer; overlapping ones are left out (see below). What a routine does
with a message or a timer is in the other modules.

### Proof modules
`RoomStateProofs` (lemmas, one per operation), `DealerProofs` (the inductive
invariant, the safety theorems, Dealer implements Voting, what is published is
behind), `RoomProofs` (a room's dealer is Dealer's; what screens show),
`HintsProofs` (the algorithm meets its reference definition), `PresenceProofs`,
`SessionsProofs`, `StartupProofs` and `ScreenProofs` (inductive invariants and
what follows from them).

### Abstractions to keep in mind
* A handler is atomic. The code takes no lock, so two handlers can interleave
  inside; that data race is a hazard of its own, not modelled yet.
* The action given on the command line, run when the wait for peers is over
  (`model.go:171`), is modelled nowhere: it is a command like any other, at a time
  at which the user could give it too.
* `Screen` takes no empty deck. A player without a deck falls back to Fibonacci
  (`game_handle.go:28`), and `parseDeck` makes none; a state with a literal `[]`,
  or a dealer's room file from before decks were saved, would be one.
* The hint is not a field of `State` here; `OpenVotesInDeck` is what `Dealer`
  contributes to it (its computation cannot fail), `Hints` the rest. `Screen`
  takes any hint in the deck, or none.
* Presence messages are not sent by the players of `Room`: they are the open
  choice they are in `Dealer`, of which loss and delay, as in `Presence`, are
  special cases.
* `Startup`, `Screen` and `Sessions` meet in `Update`, each with the messages it
  is about; none of the variables of one is read by another's actions, but for
  the application's state `Playing`, in which `Screen` is.

Operators marked *Mutant* are plausible mistakes, one per property; with the
definition that follows replaced by it, the property fails. They play no part
in the specification.

## 3. Runs

| Run | Question | Bounds |
|---|---|---|
| `rounds` | types, rounds on open issues, votes within the deck, late publications behind, never beside, the dealer's list; Dealer implements Voting, with a file that may be behind or spoiled | 2 issues, 1 player, 2 decks of 1 card each, 1 publication under way, 1 fired timer per issue, any write may fail unless the one before did; issues interchangeable |
| `auto_reveal` | no due reveal lost, no stale timer running, a room left alone with all votes in is revealed | 2 issues, 2 players, 1 card, 2 timestamps, 1 fired timer per issue under way, no publications, writes succeed |
| `hints` | the hint against a reference definition | all votes of 5 players: 6 cards and one that is in no deck, decks of 6 and 3 of them |
| `room` | no screen shows a card of an open round; the votes in the room and on screens were cast; players catch up | 1 issue, 1 player beside the dealer, both vote once, auto reveal off, 1 publication and 1 state message under way |
| `presence` | who stays is online, who is gone is not | 1 player, a message every 2, delayed by up to 1, no two in a row lost, and the shortest timeout these need, 6 |
| `startup` | identity kept, statuses shown in order and the last one shown, the wait for peers has a message under way to end it, and ends | 2 ids, 1 name, 2 peers, buffer of 2, 2 names entered and not yet saved |
| `screen` | Enter in range, one part has the keys, Enter comes back, titles; what is waited for is under way | decks of 1 and 2 cards, 2 issues, 1 of them unparsable, 1 paste signalled |
| `sessions` | no routine waits for a lost channel, rooms shown are served, routines of rooms left end | 2 rooms, a routine every player has and one of dealers, buffer of 1 |
| `outdated` | finding, see below | a player who votes twice |
| `other_issue`, `leave`, `alias` | findings, see below | smallest that shows them |

Why the bounds are enough: two issues are needed for a round to be dropped for
another and for a timer to meet the wrong issue, and a third adds no new
relation between the active issue and an earlier one; two decks without a common
card let a deck change orphan a vote; two timestamps order a vote, its
replacement, its retraction and a late copy. `rounds` has the dealer as its only
player, since its invariants speak of single votes; two players, who make
"everyone" differ from "someone", are in `auto_reveal`, and the theorems hold for
any number. Its two issues start out alike and no property tells them apart, so
permuting them is sound; it checks no liveness. Its view keeps of a publication
under way only the list of issues: no property of the run and no action reads
more of it. It does not look for deadlocks, since a dealer whose file is lost does
not come back. `MaxOutbox` and `MaxPending` bound goroutines under way; the timer
of each issue can be under way at the same time.

Writes fail "singly" in `rounds`: what a dealer that comes back finds is one earlier
room, and by one step or by many, it is behind. `auto_reveal` has a file that is
never behind and `room` a dealer without one: their questions are about timers
and messages of one stay. The theorems hold for "ever".

In `presence` the players meet only in the file, which any player's message may
cause to be written; `PublishState` writes it at any time already. Time stamps
need no more values than the timeout, after which they stay too old. The timeout
is the least that the delay and the losses allow (`TimeoutIsLongEnough`: longer
than the two together, since a stamp at the limit may already be over it; in the
code, with 5 and 20 seconds, a delay below 5 seconds and two lost messages in a
row), so a stamp that is not refreshed in time is found. In `startup`, two peers make
the status take three values, so that one may be skipped or overtaken, and two
names let the prompt be answered twice. In `screen`, a deck can shrink under a
cursor and an issue be replaced by another while its title is fetched. In
`sessions`, the leftovers of one room meet the next; a third room would meet
those of two, which do not meet each other. The kinds of routines differ in who
starts them and in what wakes them; the two that are looked at take both
differences.

### Fairness
`auto_reveal` assumes weak fairness of `TimerExpires`, `TimerCallback` and
`AutoRevealRoutine`: the runtime runs ready goroutines and a timer fires when
its delay is over. It assumes nothing of players, commands or the return of the
dealer. Each notification restarts the delay, so a room that is notified more
often than once per delay is never revealed; `AutoRevealHappens` therefore
speaks of behaviours in which, from some point on, only the auto reveal and
publications take steps.

`room` assumes that the dealer's 30 second loop ticks and its publications run
(weak), that a state sent again and again reaches each player (strong: the
network may lose it any number of times, not every time), and that an old copy
does not stay under way for ever (weak). Nothing is assumed of players or
commands; `PlayersCatchUp` speaks of behaviours in which they come to rest.
One copy under way is enough to reorder, since it can arrive again after newer
ones were sent and while another waits in the outbox. `MaxOutbox`, `MaxWire`
and `MaxSent` bound `Room`; a state that finds the wire full is lost.

The passing run of `Room` has one issue, no storage, no auto reveal and a player
who stays: two issues, or a restarted dealer in a room with players, are more
than it can enumerate. `RoomHasADealer`, `VotesStayHidden`, `VotesAreAuthentic`
and `ScreensBehind` are proved for any number of issues and with all of these.

`presence`: time passes, each player's loop sends when its period is over, the
watch loop marks who is silent, and messages that are not lost arrive (weak
fairness of each). Nothing is assumed of who joins, leaves or restarts;
`StayersEndOnline` and `LeaversEndOffline` speak of a player and a dealer who
stay, or stay away, from some point on. That not every message is lost is
`MaxQuiet`, a bound on time, as the timeout is one.

`startup`: goroutines run and Update takes every message it is sent (weak). A
rename may fail as often as it likes, users need not press keys, peers need not
come. `screen`: messages to itself are taken, delays and requests end (the
request has a timeout of ten seconds). `sessions`: commands come to an end,
routines and the subscription run; a routine that waits with its channel closed
ends or wakes once more (weak fairness of either: a select takes what is ready).
None assumes that a room is left, a message received or a key pressed.

### Findings
* `other_issue`: the reveal routine logs that the issue changed and reveals it
  all the same. Returning there is not a full repair: the callback may have
  cancelled the timer of the new round, which would then never be revealed
  (the mutant of `AutoRevealArmed` is that repair).
* `leave`: leaving with a reveal pending is a nil dereference.
* `alias`: a publication made without a copy shows votes of a later open round.
* `outdated`: the timestamp check needs the earlier vote; a retraction deletes
  it, so a vote delayed behind its own retraction comes back.

Behaviours met on the way that have no run of their own:

* A player resets its vote when the active issue differs from the one before
  (`game_handle.go:22`). Missing the states between two rounds on the same
  issue, it keeps the old vote, even one the new deck does not have.
* The reveal routine does not look again whether all votes are still in, so a
  retraction handled after the timer fired does not stop it.
* `Finish` deals an issue with the votes of its dropped round.
* The uncertainty card in the middle of a deck (`deck.go:11` allows it anywhere)
  counts as a step between its neighbours.
* `JoinRoom` wraps a nil error for a room of another version (`game.go:516`), and
  so reports success: the screen is told of a room, the empty one
  (`JoinUnsupported`). Pasting such a room's identifier
  shows no error either (`model.go:358`).
* A failing subscription leaves the game in a room without routines that the
  screen does not show (`SubscribeFails`); only "exit" helps.
* A routine that is busy while a room is left and looks at `exitRoom` before the
  next is joined waits on nil, and outlives the process's rooms; if the next
  room is joined first, it serves that room (`Select`). `LeftRoutinesEnd` says
  that no other routine is left over.
* The goroutine of a subscription waits for room in a full channel without
  looking at `leaveRoom` (`waku.go:495`): if the room is left then, the topic is
  never unsubscribed. `SubscriptionKeepsUp` holds only while the room is there.
* The event handler's `Init` sends a status read before, behind statuses notified
  since the subscription (`event_handler.go:31`): until the next change the
  screen shows the older one. `StatusIsShown` is about what was sent last.
* A second Enter at the name prompt saves an empty name and, when it is handled
  after the wait for peers was over, takes the application back to it
  (`cmd.go:26`); `PeersEndTheWait` says it does not stay there. The wait may then
  end twice, and with it the initial action run twice (`model.go:171`).
* A paste between the end of a delay and its message is undone by that message:
  Enter is enabled before the paste's own tenth of a second is over.
* Every state of a round with votes shown puts the finish cursor back on the
  hint, since `votesRevealed` is never set (`deckview.go:57`).

## 4. Proofs

The theorems about `Dealer` and `Room` hold for every finite or infinite choice
of issues, cards, decks and times, any finite set of players, with or without
storage and auto reveal. Assumed of the constants: `None` is none of the other
values, decks are sets of cards, the dealer is a player, the two flags are
Boolean. None assumes that a write succeeds: `WritesFail` may be any of its three
values.

`Inductive`: `Spec => []IInv`, where `IInv` adds to the checked invariants

* `RoomsConsistent`: the dealer's and the saved room satisfy `Consistent`.
  `OpenVotesInDeck` alone is not inductive: the deck can change in an idle room,
  so one needs that an idle room has no votes on open issues (`IdleIsClean`),
  for which an issue outside the list must be empty (`UnlistedIsEmpty`) and the
  next issue found by `Finish` must be one without estimate (`NextIssueIsOpen`,
  from the existence of a least position, `MinOfNats`).
* `MyVoteBelongs`: without a round the own vote is empty, hence a deck change
  cannot orphan it.

`NotifyEstablishes` is the centre: whatever led to it, a notification of a
consistent room establishes every conjunct, timer included. Each action then
only has to show that its room is consistent, by the lemma of its operation.
`TypeCorrect`, `RoundsAreOpen`, `HintsFindTheirCards`, `MyVoteInDeck`,
`AutoRevealIsNeverLost` and `TimersAreDue` follow.

`Refinement`: `Spec => ImplementsVoting`, with storage or without. The mapping
takes the file for the copy in safe keeping, and for the room while the dealer
is away. Every notification makes a copy, or fails to (`NotifyCopies`); leaving,
dying and the panics close the room, which drops to the copy (`GoingCloses`);
nothing but the file can bring it back. So a failed write can undo rounds that
players have seen, back to the copy and no further, and only if the dealer goes
before the next write succeeds; while it stays, shown votes stay.
`RoomImplementsVoting` carries it over to a room with players and their network.

`SnapshotsBehind`: `Spec => []SnapshotsAreBehind`, and `IssuesAreOnlyAdded`:
`Spec => [][RoomGrows]_vars`. Both are about a room that still exists, and about a
dealer that has never gone with issues the file lacked (`forgotten`): after that,
states that show those issues may be under way in a room that has others in
their places. `OutboxIsBehind` is inductive because every step that notifies
appends at most one issue to the room (`OperationsAppend`, over all operations
of `RoomState`; `NotifyStaysBehind`), going leaves the issues of the room as they
are, loses the room or is noted (`GoingStaysBehind`), and prefixes of prefixes are
prefixes. That a file is behind in votes, rounds or estimates does no harm here.

`RoomHasADealer`: `RoomSpec => Spec`. Every step of a room is one of `Dealer`
or leaves its variables alone, so the theorems above hold in a room. Needed are
the types of messages: a vote that was sent has a timestamp in `Time`, an issue
and a card of a state that has its type (`RoomTypeOK`, with `votesSent` finite,
since its size gives the next timestamp). Assumed: each player's bound on
messages is a number and the timestamps up to it are in `Time`.

`VotesStayHidden`: `RoomSpec => []OpenRoundsShowNoCards`. What a player sees was
marshalled at some time from a snapshot made at an earlier one, and a shared
snapshot has followed the dealer's room in between. `RoomInv` therefore says of
every snapshot under way that it is shared only if it was not made in an open
round (`SnapshotHidden`); following changes neither the active issue nor the
revealed flag, so the result does not show an open round either. The finding
`alias` is the other half: such a state shows cards of a round that is open at
the dealer, on a screen that does not know of the round yet.

`VotesAreAuthentic`: `RoomSpec => []VotesWereCast`, in the dealer's room and on
every player's screen. Kept for the saved room too (`AllCast`), since it comes
back; `CommandsMakeNoVotes` says of every operation but `WithVote` that a vote
it leaves was there before, for the same issue. On the way to a screen a vote
may be masked, and a shared snapshot takes over the dealer's votes, which are
then mixed with the rest of an older room: `SentInv` says of states in the
outbox, on the wire and shown that each vote in them was sent (`AllSent`, which
leaves masked votes out), and `OutboxComes` names the ways in which a state in
the outbox can have come to be there and to show what it shows.

`ScreensBehind`: `RoomSpec => []ScreensAreBehind`: the issues on a screen are the
first of the room's, in its order, with the same proviso (`forgotten`). `ListsInv`
is the same of outbox and wire; the step is `StaysBehind` of `DealerProofs` again. It has no run of its own, since with
one issue, all that the run of `room` can enumerate, it says little; TLC looked
at it with two issues to a depth of 17 steps.

`HintsProofs`: the four properties of `hints`, for any finite set of players, any
cards and any decks. A sum over a set is defined by choosing its elements one by
one, and what a sum of distances does when its middle moves cannot be computed
from that. A distance, however, is a number of cards stepped over, so the sum is
the size of a set of pairs, player and step (`Gap`, `SumIsGap`). Moving on by one
card adds the pairs of the votes up to there and removes those of the votes
beyond (`CostGrows`); at the median neither side has more than half of the
votes, so the cost is least there (`ValleyIsLeast`), and right of it, as the upper
of two middle positions is taken, strictly more (`HintsAreNearest`). The sum
bounds the number of votes that differ from the median, exactly when all are
within a card of it, which turns the threshold of one half into "at least half
agree" (`AcceptedHintsAreAgreed`). Induction is over sets, by a least number or a
smallest counterexample, because the library's induction rules are out of reach.

`PresenceProofs`: `Spec => []Inv`, for any players, periods, delays, losses and
timeouts that meet the module's assumptions. `LoopInv` says how long ago a
player in the room was last sure to publish (`quiet`), which is bounded only
together with the state of its timer. `Fresh`, for a player who was heard of:
its stamp is no older than that, or that message is still under way; either way
the stamp is at most `MaxQuiet + MaxDelay` old, which `TimeoutIsLongEnough`
keeps short of the timeout (`StayersHeard`), so that the cut of the stamp does
not matter. For `OnlineHereLately` `WireInv`
dates the messages and `DatedInv` the stamps, in the file too, since it comes
back. `TypeCorrect` is the third theorem.

`SessionsProofs`: `Spec => []SInv`, for any number of rooms, any buffer and any
set of routines. `RoomHasChannel` ties the room to its channel, which only the
last step but one of leaving closes; `CommandInv` says what each step of a
command may rely on; `CrewInv` that sessions to come have no routines and those
of the room have only ever looked at its channel. With these a routine of the
room cannot have ended (`Serves`), since it ends only on a closed channel, and
`ShownInv` carries that from the start of the routines to the message that shows
the room. Three theorems: `SessionsTypeCorrect`, `ExitsAreHeard`,
`ShownRoomsAreServed`.

`StartupProofs`: `IdentityKept`, from `IdInv`: an id that was saved and not
spoiled since is in the file, and after the storage was initialised also in
memory, whatever write failed in between. The other three are about the messages
under way, for any ids, names, buffers and any finite set of peers. The inbox is
a bag, of which a few lemmas say what adding and taking one message does to the
number of each (`Sends`, `Counts`). `OneTurn` says that the start, the
announcement that it is over, the event handler's `Init`, a waiting routine and
a status on its way exclude one another, and that there is never more than one
of the last two (`OneWaits`): although each status is brought by a goroutine of
its own, the next one starts only when `Update` has taken the last. So the status
taken last from the channel is shown or under way (`LastSent`), which is
`StatusesKeepTheirOrder`. `WaitsEnd` adds that whatever starts the wait, or
finds peers during it, leaves a message that comes back to look at the status.
`StartupTypeCorrect` needs both parts.

`ScreenProofs`: `ScreenInv`, for decks and lists of any size. Beside types it
says of every cursor where it may be for the deck or list shown (`CursorInv`),
what its focus was computed from (`FocusInv`), and how requests and titles go
together. `ScreenTypeCorrect`, `EnterInRange`, `OnePartHasTheKeys` and
`TitlesFetchedOnce` follow. `NothingAwaitedInVain` adds `UnderWay`: as long as
Enter is disabled there is a channel, and with it, as `ScreenInv` says, exactly
one delay or one message of it; and a state that makes an issue the active one
has asked for its title when it is shown (`GameStateAsks`). `EnterInRange` is
why the comparison in `cursorCommand` that lets one index too many through
(`model.go:327`) does no harm.

Every safety property of the passing runs is a theorem. Only model-checked is
all liveness (`PlayersCatchUp`, `AutoRevealHappens`, `StayersEndOnline`,
`LeaversEndOffline`, `StatusIsShown`, `PeersEndTheWait`, `EnterComesBack`,
`TitleIsFetched`, `LeftRoutinesEnd`, `SubscriptionKeepsUp`): fairness is about
ENABLED, which the prover does not know. `LastStatusIsShown`, `WaitIsEnding` and
`AwaitedIsUnderWay` are the safety halves of four of them: what is waited for
is under way, and only its arrival is left to fairness.

## 5. Not modelled, and the plan

Left, in this order:

1. Races: the dealer's handlers with checks and updates as separate steps, as the
   code has no lock.
2. Room commands that overlap in `Sessions` (`game.go:131`, `501` to `523`): two
   joins or exits at once can lose a channel or close it twice. Messages left in
   `g.messages`, by content.
3. Events of the game: `Send`, which blocks on a full channel while
   `revealTimerLock` is held, the many goroutines that wait for it, and `Close`.
4. The copy of the own vote that `deckview` highlights.

Left out for good: peer discovery and message relay (go-waku), encryption and
base58 (library functions), the topic cache (a pure function of the room), JSON
layout, rendering, the demo script, logging and version information, test
support. They keep no protocol state of their own. Of the commands with
arguments (`actions.go`), the parsing is left out, and the calls are the game's
operations; of errors, that they are shown. The comment at
`shortcutsview.go:89` contradicts its condition, which only decides a help text.
