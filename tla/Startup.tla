------------------------------- MODULE Startup -------------------------------
(***************************************************************************)
(* From the start of the program to the prompt: the transport and the game *)
(* are initialised by a command, the player's identity is read from its    *)
(* file, a name is asked for if there is none, and the application waits   *)
(* for a peer.  Commands run in goroutines of their own, so the messages   *)
(* they return reach Update in any order.  The process may end at any time *)
(* and be started again, with other flags.                                 *)
(***************************************************************************)
EXTENDS Integers, Sequences, FiniteSets, Bags

CONSTANTS
    PlayerIDs,
    Names,
    Peers,
    StatusBuffer,   \* what a status subscription holds; 10 in the code
    NameLimit,      \* bound: names entered and not yet saved
    Empty,          \* the empty string
    Missing,        \* there is no player file
    Torn            \* content of a file whose writing was cut short

ASSUME SomeIdsToChooseFrom == Cardinality(PlayerIDs) >= 2
ASSUME PeersFinite == IsFiniteSet(Peers)
ASSUME IdsAreNotEmpty == Empty \notin PlayerIDs
ASSUME BufferHoldsTwo == StatusBuffer \in Nat \ {0, 1}

VARIABLES
    flags,        \* anonymous and -name, of config
    file,         \* player.json
    stored,       \* LocalStorage.player
    player,       \* g.player; the empty one before Initialize
    pc,           \* how far InitializeApp is
    renames,      \* names whose RenamePlayer has not run yet
    state,        \* the model's AppState
    focused,      \* input.Focused(); the command mode is left to Screen
    inbox,        \* bag of messages on their way to Update
    peers,        \* Node.connectedPeers; its size is Node.connectionStatus
    channel,      \* the status subscription, and how many goroutines wait for it
    unsent,       \* what Init read of the status and has not sent yet, or None
    shown,        \* model.connectionStatus.PeersCount
    id,           \* history: the id last saved; Empty if the file was spoiled since
    sent          \* history: the status that was last put into the channel

game == <<flags, file, stored, player, pc, renames, id>>
ui == <<state, focused>>
net == <<peers, channel, unsent, sent>>
vars == <<game, ui, inbox, net, shown>>

None == -1
AppStates == {"Initializing", "InputPlayerName", "WaitingForPeers", "Playing"}
NoPlayer == [id |-> Empty, name |-> Empty]
PlayerRecord == [id : PlayerIDs \cup {Empty}, name : Names \cup {Empty}]

ASSUME NoFileIsNoPlayer == {Missing, Torn} \cap PlayerRecord = {}

Finished(s) == [type |-> "AppStateFinished", state |-> s]
Entered(s) == [type |-> "AppState", state |-> s]
Status(n) == [type |-> "ConnectionStatus", count |-> n]

\* Update took m and appended the messages of sends to its commands.
Replace(m, sends) == inbox' = (inbox (-) SetToBag({m})) (+) SetToBag(sends)

OnTheWay(m) == IF BagIn(m, inbox) THEN inbox[m] ELSE 0

-----------------------------------------------------------------------------
(* The player's file *)

\* WriteFile is not atomic: when it fails the file is the old one or a part.
Written(p) == file' = p /\ id' = p.id
NotWritten ==
    \/ UNCHANGED <<file, id>>
    \/ file' = Torn /\ id' = Empty

\* A file that cannot be parsed is replaced by an empty player; one that cannot be
\* read, or a folder that is not found, ends the start.
InitializeStorage ==
    /\ pc = "storage"
    /\ \/ flags.anonymous /\ pc' = "player" /\ UNCHANGED <<file, stored, id>>
       \/ /\ ~flags.anonymous /\ file # Torn
          /\ stored' = IF file = Missing THEN NoPlayer ELSE file
          /\ pc' = "player"
          /\ UNCHANGED <<file, id>>
       \/ /\ ~flags.anonymous /\ file = Torn
          /\ stored' = NoPlayer
          /\ \/ Written(NoPlayer) /\ pc' = "player"
             \/ NotWritten /\ pc' = "fatal"
       \/ ~flags.anonymous /\ pc' = "fatal" /\ UNCHANGED <<file, stored, id>>
    /\ UNCHANGED <<flags, player, renames, ui, inbox, net, shown>>

Named(i) ==
    [id |-> i, name |-> IF flags.name # Empty THEN flags.name ELSE stored.name]

Initialized(p) ==
    /\ player' = p
    /\ pc' = "done"
    /\ inbox' = inbox (+) SetToBag({Finished("Initializing")})

\* Mutant: an id is generated although there is one.
LoadPlayerAnew ==
    /\ pc = "player"
    /\ \E i \in PlayerIDs \ {id} :
          IF flags.anonymous
          THEN Initialized(Named(i)) /\ UNCHANGED <<file, stored, id>>
          ELSE /\ stored' = [stored EXCEPT !.id = i]
               /\ Written(stored') /\ Initialized(Named(i))
    /\ UNCHANGED <<flags, renames, ui, net, shown>>

\* loadPlayer: an id that was not found is generated, and saved with the name.
LoadPlayer ==
    /\ pc = "player"
    /\ \/ /\ ~flags.anonymous /\ stored.id # Empty
          /\ Initialized(Named(stored.id))
          /\ UNCHANGED <<file, stored, id>>
       \/ \E i \in PlayerIDs \ {id} :
          \/ flags.anonymous /\ Initialized(Named(i)) /\ UNCHANGED <<file, stored, id>>
          \/ /\ ~flags.anonymous /\ stored.id = Empty
             /\ stored' = [stored EXCEPT !.id = i]
             /\ \/ Written(stored') /\ Initialized(Named(i))
                \/ NotWritten /\ pc' = "fatal" /\ UNCHANGED <<player, inbox>>
    /\ UNCHANGED <<flags, renames, ui, net, shown>>

\* The command of processPlayerNameInput.  The name in memory is set before the
\* file, and stays when writing fails; the prompt then stays, too.
RenamePlayer(name) ==
    /\ BagIn(name, renames)
    /\ renames' = renames (-) SetToBag({name})
    /\ \/ /\ IF flags.anonymous
             THEN UNCHANGED <<file, stored, id>>
             ELSE stored' = [stored EXCEPT !.name = name] /\ Written(stored')
          /\ player' = [player EXCEPT !.name = name]
          /\ inbox' = inbox (+) SetToBag({Finished("InputPlayerName")})
       \/ /\ ~flags.anonymous
          /\ stored' = [stored EXCEPT !.name = name]
          /\ NotWritten
          /\ UNCHANGED <<player, inbox>>
    /\ UNCHANGED <<flags, pc, ui, net, shown>>

-----------------------------------------------------------------------------
(* The transport *)

StartTransport ==
    /\ pc = "transport"
    /\ pc' \in {"storage", "fatal"}
    /\ UNCHANGED <<flags, file, stored, player, renames, id, ui, inbox, net, shown>>

Subscribed == channel.waiters + Len(channel.queue) > 0 \/ unsent # None \/ sent # None

Push(n) ==
    /\ Len(channel.queue) < StatusBuffer
    /\ channel' = [channel EXCEPT !.queue = Append(@, n)]
    /\ sent' = n

\* watchConnectionStatus: it waits while a subscriber's channel is full.  That
\* it is filled before Init has sent, with nobody to empty it, is left out.
PeerConnection(p) ==
    /\ pc \in {"storage", "player", "done"}
    /\ unsent # None => Len(channel.queue) < StatusBuffer - 1   \* bound
    /\ peers' = IF p \in peers THEN peers \ {p} ELSE peers \cup {p}
    /\ IF Subscribed THEN Push(Cardinality(peers')) ELSE UNCHANGED <<channel, sent>>
    /\ UNCHANGED <<game, ui, inbox, unsent, shown>>

\* The event handler's Init, after the subscription: the status it was given is
\* sent behind whatever was notified meanwhile, and a first goroutine waits.
SendLastEvent ==
    /\ unsent # None
    /\ Len(channel.queue) < StatusBuffer
    /\ channel' = [queue |-> Append(channel.queue, unsent), waiters |-> 1]
    /\ sent' = unsent
    /\ unsent' = None
    /\ UNCHANGED <<game, ui, inbox, peers, shown>>

WaitForEvent ==
    /\ channel.waiters > 0 /\ channel.queue # <<>>
    /\ channel' = [queue |-> Tail(channel.queue), waiters |-> channel.waiters - 1]
    /\ inbox' = inbox (+) SetToBag({Status(Head(channel.queue))})
    /\ UNCHANGED <<game, ui, peers, unsent, sent, shown>>

-----------------------------------------------------------------------------
(* Update: it takes messages while it is not in SendLastEvent *)

Handling(m) == BagIn(m, inbox) /\ unsent = None

\* Before the messages, the handler subscribes and reads the status.
HandleInitialized ==
    LET next == IF player.name = Empty THEN "InputPlayerName" ELSE "WaitingForPeers" IN
    /\ Handling(Finished("Initializing"))
    /\ state' = next
    /\ Replace(Finished("Initializing"), {Entered(next)})
    /\ unsent' = Cardinality(peers)
    /\ UNCHANGED <<game, focused, peers, channel, sent, shown>>

HandleNameEntered ==
    /\ Handling(Finished("InputPlayerName"))
    /\ state' = "WaitingForPeers"
    /\ Replace(Finished("InputPlayerName"), {Entered("WaitingForPeers")})
    /\ focused' = FALSE
    /\ UNCHANGED <<game, net, shown>>

\* The initial action is left to Screen.
HandlePeersFound ==
    /\ Handling(Finished("WaitingForPeers"))
    /\ state' = "Playing"
    /\ Replace(Finished("WaitingForPeers"), {Entered("Playing")})
    /\ UNCHANGED <<game, focused, net, shown>>

\* Bound: a message is on its way at most twice.
WaitIsOver(s, count) ==
    {m \in {Finished("WaitingForPeers")} :
        s = "WaitingForPeers" /\ count > 0 /\ OnTheWay(m) < 2}

\* The input hears of every state the application enters.
InputFocus(s) == focused' = (focused \/ s = "InputPlayerName")

\* Mutant: the peers that are there already are not noticed.
HandleAppStateWaits(s) ==
    /\ Handling(Entered(s))
    /\ Replace(Entered(s), {})
    /\ InputFocus(s)
    /\ UNCHANGED <<game, state, net, shown>>

HandleAppState(s) ==
    /\ Handling(Entered(s))
    /\ Replace(Entered(s), WaitIsOver(state, shown))
    /\ InputFocus(s)
    /\ UNCHANGED <<game, state, net, shown>>

\* The event handler starts a goroutine for the next status.
WaitAgain == channel' = [channel EXCEPT !.waiters = @ + 1]

\* Mutant: a second goroutine waits, as every message starts one for the events
\* of the game.
HandleConnectionStatusTwoWait(n) ==
    /\ Handling(Status(n))
    /\ shown' = n
    /\ Replace(Status(n), WaitIsOver(state, n))
    /\ channel' = [channel EXCEPT !.waiters = 2]
    /\ UNCHANGED <<game, ui, peers, unsent, sent>>

HandleConnectionStatus(n) ==
    /\ Handling(Status(n))
    /\ shown' = n
    /\ Replace(Status(n), WaitIsOver(state, n))
    /\ WaitAgain
    /\ UNCHANGED <<game, ui, peers, unsent, sent>>

\* The user has typed name, and presses Enter: whatever is done with it, the
\* input is empty afterwards.  The prompt takes an empty name, and a second Enter
\* before the first is done.
KeyEnter(name) ==
    /\ unsent = None
    /\ focused /\ state = "InputPlayerName"
    /\ BagCardinality(renames) + OnTheWay(Finished("InputPlayerName")) < NameLimit
    /\ renames' = renames (+) SetToBag({name})
    /\ UNCHANGED <<flags, file, stored, player, pc, id, ui, inbox, net, shown>>

-----------------------------------------------------------------------------
(* Specification *)

\* Bound: a name is not given to an anonymous player, for whom it changes little.
Flags == {f \in [anonymous : BOOLEAN, name : Names \cup {Empty}] : f.anonymous => f.name = Empty}

Init ==
    /\ flags \in Flags
    /\ file = Missing
    /\ stored = NoPlayer
    /\ player = NoPlayer
    /\ pc = "transport"
    /\ renames = EmptyBag
    /\ state = "Initializing"
    /\ focused = FALSE
    /\ inbox = EmptyBag
    /\ peers = {}
    /\ channel = [queue |-> <<>>, waiters |-> 0]
    /\ unsent = None
    /\ shown = 0
    /\ id = Empty
    /\ sent = None

\* The process ends, or is killed, and is started again: as in Init, but the
\* file is still there.
Restart ==
    /\ flags' \in Flags
    /\ stored' = NoPlayer
    /\ player' = NoPlayer
    /\ pc' = "transport"
    /\ renames' = EmptyBag
    /\ state' = "Initializing"
    /\ focused' = FALSE
    /\ inbox' = EmptyBag
    /\ peers' = {}
    /\ channel' = [queue |-> <<>>, waiters |-> 0]
    /\ unsent' = None
    /\ shown' = 0
    /\ sent' = None
    /\ UNCHANGED <<file, id>>

Next ==
    \/ StartTransport
    \/ InitializeStorage
    \/ LoadPlayer
    \/ \E name \in Names \cup {Empty} : RenamePlayer(name)
    \/ \E p \in Peers : PeerConnection(p)
    \/ SendLastEvent
    \/ WaitForEvent
    \/ HandleInitialized
    \/ HandleNameEntered
    \/ HandlePeersFound
    \/ \E s \in AppStates : HandleAppState(s)
    \/ \E n \in 0..Cardinality(Peers) : HandleConnectionStatus(n)
    \/ \E name \in Names \cup {Empty} : KeyEnter(name)
    \/ Restart

Spec == Init /\ [][Next]_vars

\* Goroutines run, and Update takes every message; nothing is asked of the user.
Fairness ==
    /\ WF_vars(StartTransport) /\ WF_vars(InitializeStorage) /\ WF_vars(LoadPlayer)
    /\ \A name \in Names \cup {Empty} : WF_vars(RenamePlayer(name))
    /\ WF_vars(SendLastEvent) /\ WF_vars(WaitForEvent)
    /\ WF_vars(HandleInitialized) /\ WF_vars(HandleNameEntered) /\ WF_vars(HandlePeersFound)
    /\ \A s \in AppStates : WF_vars(HandleAppState(s))
    /\ \A n \in 0..Cardinality(Peers) : WF_vars(HandleConnectionStatus(n))

FairSpec == Spec /\ Fairness

-----------------------------------------------------------------------------
(* Properties *)

\* Values the variables take; at most one goroutine waits for a status.
TypeOK ==
    /\ flags \in Flags
    /\ file \in PlayerRecord \cup {Missing, Torn}
    /\ stored \in PlayerRecord /\ player \in PlayerRecord
    /\ pc \in {"transport", "storage", "player", "done", "fatal"}
    /\ IsABag(renames) /\ BagToSet(renames) \subseteq Names \cup {Empty}
    /\ state \in AppStates
    /\ focused \in BOOLEAN
    /\ IsABag(inbox)
    /\ peers \subseteq Peers
    /\ channel.waiters \in {0, 1} /\ Len(channel.queue) <= StatusBuffer
    /\ unsent \in 0..Cardinality(Peers) \cup {None}
    /\ shown \in 0..Cardinality(Peers)
    /\ id \in PlayerIDs \cup {Empty}

\* Statuses are not shown in another order: once none is left in the channel or
\* on its way, the last one put into the subscription is on the screen, though
\* each was brought by a goroutine of its own.
LastStatusIsShown ==
    sent # None /\ channel.queue = <<>>
        /\ (\A n \in 0..Cardinality(Peers) : ~BagIn(Status(n), inbox))
      => shown = sent

\* No wait for peers that are known to be there goes unnoticed: as long as it
\* lasts, a message that will end it, or that will look for them, is on its way.
WaitIsEnding ==
    state = "WaitingForPeers" /\ shown > 0 =>
        BagIn(Entered("WaitingForPeers"), inbox) \/ BagIn(Finished("WaitingForPeers"), inbox)

\* Others know a player by its id, and a dealer's votes are stored under it: who
\* once has an id keeps it over restarts and renames, in whatever step they cut
\* the start or a rename short, unless a write was cut short in the file itself.
IdentityIsKept ==
    [][~flags.anonymous /\ id # Empty /\ pc = "player" /\ pc' = "done" => player'.id = id]_vars

\* What was put into the subscription last ends up on the screen: one goroutine
\* waits at a time, so statuses are not shown in another order.  (It need not be
\* the node's status: SendLastEvent may put an older one behind it.)
StatusIsShown ==
    \A n \in 0..Cardinality(Peers) : <>[](sent = n) => <>[](shown = n)

\* The application does not wait for peers it knows to be there: neither a peer
\* found before the wait began, nor one found later, nor a prompt that was
\* answered twice leaves it waiting.
PeersEndTheWait ==
    <>[](state \notin {"Initializing", "InputPlayerName"} /\ shown > 0) => <>[](state = "Playing")

=============================================================================
