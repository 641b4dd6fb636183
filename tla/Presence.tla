------------------------------ MODULE Presence ------------------------------
(***************************************************************************)
(* Who is online: players announce themselves every period, the dealer     *)
(* notes when it heard of whom, marks the silent offline, and keeps all of *)
(* this in the room file over a restart.  Time passes in Tick; a time      *)
(* stamp is kept as its age, which no longer counts beyond the timeout.    *)
(* Stamps are cut to milliseconds and a unit of time is not shorter: the   *)
(* age that the dealer computes lies between this one and the next, which  *)
(* makes a difference to a comparison with <= and only at the limit.       *)
(* Names are left out (a rename saves, as PublishStateLoop does), and so   *)
(* is the dealer's own entry.                                              *)
(***************************************************************************)
EXTENDS Integers

CONSTANTS
    Players,
    OnlineMessagePeriod,
    playerOnlineTimeout,
    MaxDelay,   \* a message that is not lost arrives within this time
    MaxQuiet,   \* the longest time between two messages that are not lost
    Torn        \* content of a file whose writing was cut short

ASSUME PeriodIsPositive == OnlineMessagePeriod \in Nat \ {0}
ASSUME TimesAreNat == playerOnlineTimeout \in Nat /\ MaxDelay \in Nat /\ MaxQuiet \in Nat
ASSUME NetworkIsQuick == MaxDelay < OnlineMessagePeriod
ASSUME TimeoutIsLongEnough == MaxQuiet + MaxDelay < playerOnlineTimeout
ASSUME SomeGetThrough == OnlineMessagePeriod <= MaxQuiet

VARIABLES
    inRoom,   \* players whose publishOnlineState loop runs
    since,    \* per player, time since its loop published
    quiet,    \* per player, time since it joined or published without loss
    gone,     \* per player, time since it was in the room
    wire,     \* online and offline messages under way
    dealer,   \* "up"; "down"; "lost": back in the room, but not as its dealer
    list,     \* g.state.Players: per listed player, online, and age of the time stamp
    file,     \* the same in the room file, or Torn
    heard     \* players heard of since they joined and the dealer came up

vars == <<inRoom, since, quiet, gone, wire, dealer, list, file, heard>>

\* The first age of which the dealer only knows that it is too old.
TooOld == playerOnlineTimeout + 1
LongGone == playerOnlineTimeout + MaxDelay + 1

Entry == [online : BOOLEAN, seen : 0..TooOld]
Message == [player : Players, online : BOOLEAN, age : 0..MaxDelay]

Listed == DOMAIN list
Nobody == [p \in {} |-> [online |-> FALSE, seen |-> TooOld]]

\* SaveRoomState is not atomic and its error is only logged: the file may hold
\* the new list, still the old one, or a part.
Save(l) ==
    /\ list' = l
    /\ file' \in {l, file, Torn}

-----------------------------------------------------------------------------
(* Players *)

Send(p, online) ==
    wire' = wire \cup {[player |-> p, online |-> online, age |-> 0]}

\* startRoutines begins with an online message, which may be lost.
JoinRoom(p) ==
    /\ p \notin inRoom
    /\ inRoom' = inRoom \cup {p}
    /\ since' = [since EXCEPT ![p] = 0]
    /\ quiet' = [quiet EXCEPT ![p] = 0]
    /\ gone' = [gone EXCEPT ![p] = 0]
    /\ heard' = heard \ {p}
    /\ Send(p, TRUE) \/ UNCHANGED wire
    /\ UNCHANGED <<dealer, list, file>>

\* One turn of publishOnlineState.
PublishOnline(p) ==
    /\ p \in inRoom
    /\ since[p] = OnlineMessagePeriod
    /\ since' = [since EXCEPT ![p] = 0]
    /\ \/ Send(p, TRUE) /\ quiet' = [quiet EXCEPT ![p] = 0]
       \/ /\ quiet[p] + OnlineMessagePeriod <= MaxQuiet
          /\ UNCHANGED <<wire, quiet>>
    /\ UNCHANGED <<inRoom, gone, dealer, list, file, heard>>

\* LeaveRoom announces it; the message may be lost, and is not sent on a crash.
LeaveRoom(p) ==
    /\ p \in inRoom
    /\ inRoom' = inRoom \ {p}
    /\ since' = [since EXCEPT ![p] = 0]
    /\ quiet' = [quiet EXCEPT ![p] = 0]
    /\ heard' = heard \ {p}
    /\ Send(p, FALSE) \/ UNCHANGED wire
    /\ UNCHANGED <<gone, dealer, list, file>>

-----------------------------------------------------------------------------
(* The dealer *)

\* Mutant: a player who is listed is not set online again.
HandlePlayerOnlineStampsOnly(m) ==
    /\ dealer = "up"
    /\ m \in wire /\ m.online
    /\ wire' = wire \ {m}
    /\ heard' = heard \cup ({m.player} \cap inRoom)
    /\ IF m.player \in Listed
       THEN list' = [list EXCEPT ![m.player].seen = 0] /\ UNCHANGED file
       ELSE Save([p \in Listed \cup {m.player} |->
                    IF p = m.player THEN [online |-> TRUE, seen |-> 0] ELSE list[p]])
    /\ UNCHANGED <<inRoom, since, quiet, gone, dealer>>

\* Mutant: nothing changed, nothing is noted.
HandlePlayerOnlineIgnoresKnown(m) ==
    /\ dealer = "up"
    /\ m \in wire /\ m.online
    /\ wire' = wire \ {m}
    /\ heard' = heard \cup ({m.player} \cap inRoom)
    /\ IF m.player \in Listed /\ list[m.player].online
       THEN UNCHANGED <<list, file>>
       ELSE Save([p \in Listed \cup {m.player} |->
                    IF p = m.player THEN [online |-> TRUE, seen |-> 0] ELSE list[p]])
    /\ UNCHANGED <<inRoom, since, quiet, gone, dealer>>

\* handlePlayerOnlineMessage saves only when the list looks different then.
HandlePlayerOnline(m) ==
    /\ dealer = "up"
    /\ m \in wire /\ m.online
    /\ wire' = wire \ {m}
    /\ heard' = heard \cup ({m.player} \cap inRoom)
    /\ LET l == [p \in Listed \cup {m.player} |->
                    IF p = m.player THEN [online |-> TRUE, seen |-> 0] ELSE list[p]]
       IN IF m.player \in Listed /\ list[m.player].online
          THEN list' = l /\ UNCHANGED file
          ELSE Save(l)
    /\ UNCHANGED <<inRoom, since, quiet, gone, dealer>>

HandlePlayerOffline(m) ==
    /\ dealer = "up"
    /\ m \in wire /\ ~m.online
    /\ wire' = wire \ {m}
    /\ IF m.player \in Listed
       THEN Save([list EXCEPT ![m.player].online = FALSE])
       ELSE UNCHANGED <<list, file>>
    /\ UNCHANGED <<inRoom, since, quiet, gone, dealer, heard>>

\* Nobody is subscribed for the dealer.
Miss(m) ==
    /\ dealer # "up"
    /\ m \in wire
    /\ wire' = wire \ {m}
    /\ UNCHANGED <<inRoom, since, quiet, gone, dealer, list, file, heard>>

Silent == {p \in Listed : list[p].online /\ list[p].seen > playerOnlineTimeout}

\* Late already, unless the stamp was taken at a full millisecond.
AtLimit == {p \in Listed : list[p].online /\ list[p].seen = playerOnlineTimeout}

\* Mutant: the loop variable is marked, a copy of the entry.
WatchPlayersStateOfCopy ==
    /\ dealer = "up"
    /\ Silent \cup AtLimit # {}
    /\ Save(list)
    /\ UNCHANGED <<inRoom, since, quiet, gone, wire, dealer, heard>>

\* One tick of watchPlayersStateLoop that finds somebody silent.
WatchPlayersState ==
    /\ dealer = "up"
    /\ \E some \in SUBSET AtLimit :
         LET silent == Silent \cup some
         IN  /\ silent # {}
             /\ Save([p \in Listed |-> [list[p] EXCEPT !.online = @ /\ p \notin silent]])
    /\ UNCHANGED <<inRoom, since, quiet, gone, wire, dealer, heard>>

\* Every other notification, that of the 30 second loop for one.
PublishState ==
    /\ dealer = "up"
    /\ Save(list)
    /\ UNCHANGED <<inRoom, since, quiet, gone, wire, dealer, heard>>

\* Mutant: leaving does not forget the state.
GoDownKeepsState ==
    /\ dealer = "up"
    /\ dealer' = "down"
    /\ heard' = {}
    /\ UNCHANGED <<inRoom, since, quiet, gone, wire, list, file>>

\* The dealer leaves its room, or its process ends.
GoDown ==
    /\ dealer = "up"
    /\ dealer' = "down"
    /\ list' = Nobody
    /\ heard' = {}
    /\ UNCHANGED <<inRoom, since, quiet, gone, wire, file>>

\* Mutant: loading counts as hearing of everyone.
LoadedAsHeard == [p \in DOMAIN file |-> [online |-> TRUE, seen |-> 0]]

\* loadStateFromStorage judges by the time stamps alone; its limit is not that
\* of the watch loop.
Loaded == [p \in DOMAIN file |-> [file[p] EXCEPT !.online = file[p].seen < playerOnlineTimeout]]

\* JoinRoom for the room of the file: whoever has a state is the dealer.  A file
\* that cannot be parsed is no state.
Rejoin ==
    /\ dealer = "down"
    /\ IF file = Torn
       THEN dealer' = "lost" /\ UNCHANGED <<list, file>>
       ELSE dealer' = "up" /\ Save(Loaded)
    /\ UNCHANGED <<inRoom, since, quiet, gone, wire, heard>>

-----------------------------------------------------------------------------
(* Time *)

Aged(l) == [p \in DOMAIN l |-> [l[p] EXCEPT !.seen = IF @ > playerOnlineTimeout THEN @ ELSE @ + 1]]

\* Timers of the loops fire in time, and messages keep to MaxDelay.
Tick ==
    /\ \A p \in inRoom : since[p] < OnlineMessagePeriod
    /\ \A m \in wire : m.age < MaxDelay
    /\ since' = [p \in Players |-> IF p \in inRoom THEN since[p] + 1 ELSE 0]
    /\ quiet' = [p \in Players |-> IF p \in inRoom THEN quiet[p] + 1 ELSE 0]
    /\ gone' = [p \in Players |->
                 IF p \in inRoom THEN 0
                 ELSE IF gone[p] = LongGone THEN LongGone ELSE gone[p] + 1]
    /\ wire' = {[m EXCEPT !.age = @ + 1] : m \in wire}
    /\ list' = Aged(list)
    /\ file' = IF file = Torn THEN Torn ELSE Aged(file)
    /\ UNCHANGED <<inRoom, dealer, heard>>

-----------------------------------------------------------------------------
(* Specification *)

\* CreateNewRoom, without the dealer's own entry.
Init ==
    /\ inRoom = {}
    /\ since = [p \in Players |-> 0]
    /\ quiet = [p \in Players |-> 0]
    /\ gone = [p \in Players |-> LongGone]
    /\ wire = {}
    /\ dealer = "up"
    /\ list = Nobody
    /\ file = Nobody
    /\ heard = {}

Handling == \E m \in wire : HandlePlayerOnline(m) \/ HandlePlayerOffline(m) \/ Miss(m)

Next ==
    \/ \E p \in Players : JoinRoom(p)
    \/ \E p \in Players : PublishOnline(p)
    \/ \E p \in Players : LeaveRoom(p)
    \/ \E m \in wire : HandlePlayerOnline(m)
    \/ \E m \in wire : HandlePlayerOffline(m)
    \/ \E m \in wire : Miss(m)
    \/ WatchPlayersState
    \/ PublishState
    \/ GoDown
    \/ Rejoin
    \/ Tick

Spec == Init /\ [][Next]_vars

\* Time passes, loops run, and what is under way arrives.
Fairness ==
    /\ WF_vars(Tick)
    /\ WF_vars(WatchPlayersState)
    /\ WF_vars(Handling)
    /\ \A p \in Players : WF_vars(PublishOnline(p))

FairSpec == Spec /\ Fairness

-----------------------------------------------------------------------------
(* Properties *)

\* Values the variables take; there is a list only while there is a dealer.
TypeOK ==
    /\ inRoom \subseteq Players
    /\ since \in [Players -> 0..OnlineMessagePeriod]
    /\ quiet \in [Players -> 0..MaxQuiet]
    /\ gone \in [Players -> 0..LongGone]
    /\ wire \subseteq Message
    /\ dealer \in {"up", "down", "lost"}
    /\ Listed \subseteq Players /\ list \in [Listed -> Entry]
    /\ dealer # "up" => Listed = {}
    /\ file # Torn => DOMAIN file \subseteq Players /\ file \in [DOMAIN file -> Entry]
    /\ heard \subseteq inRoom

\* What the five and the twenty seconds are for: however its messages are
\* delayed, and as many as MaxQuiet allows are lost, a player who stays in the
\* room and was heard once is never silent for the timeout, so that
\* watchPlayersStateLoop cannot mark it offline, however its stamp was cut.
StayersAreHeard ==
    dealer = "up" => heard \subseteq Listed /\ heard \cap (Silent \cup AtLimit) = {}

\* No ghosts: whoever is online in the list, and not about to be marked by the
\* watch loop, was in the room no longer ago than the timeout and the delay of a
\* message, also when the list was saved, and loaded after a restart.
OnlineWereHereLately ==
    dealer = "up" => \A p \in Listed :
        list[p].online /\ p \notin Silent => gone[p] <= playerOnlineTimeout + MaxDelay

\* A player who is in the room to stay ends up online, whatever was late or
\* lost, and whatever an old offline message or a restart from a room file with
\* old time stamps made of it meanwhile.
StayersEndOnline ==
    \A p \in Players :
        <>[](p \in inRoom /\ dealer = "up") => <>[](p \in Listed /\ list[p].online)

\* A player who is gone for good ends up offline, though the goodbye may be
\* lost, or overtaken by an earlier message, or forgotten by a restart.
LeaversEndOffline ==
    \A p \in Players :
        <>[](p \notin inRoom /\ dealer = "up") => <>[](p \notin Listed \/ ~list[p].online)

=============================================================================
