------------------------------ MODULE Sessions ------------------------------
(***************************************************************************)
(* Rooms one after the other: the commands that join and leave a room, the *)
(* routines a game runs in a room, and the transport's subscription to it. *)
(* The routines of a room learn that it was left from the channel          *)
(* exitRoom, which is closed then and replaced by the next room's: every   *)
(* turn of a routine looks at it anew.  A session is one stay in a room,   *)
(* and its number also names its channel.                                  *)
(***************************************************************************)
EXTENDS Integers

CONSTANTS
    Routines,       \* the kinds that are looked at
    MaxSessions,    \* bound: rooms joined
    MessageBuffer,  \* what a subscription's channel holds; 10 in the code
    NoRoom

Kinds == {"loopPublishedMessages", "processIncomingMessages", "publishOnlineState",
          "publishStateLoop", "watchPlayersStateLoop"}
DealerKinds == {"publishStateLoop", "watchPlayersStateLoop"}

ASSUME RoutinesAreKinds == Routines \subseteq Kinds
ASSUME SomeSessions == MaxSessions \in Nat \ {0}
ASSUME NoRoomIsNoSession == NoRoom \notin Nat
ASSUME BufferHoldsSomething == MessageBuffer \in Nat \ {0}

VARIABLES
    room,        \* g.room, as the session it was joined in, or NoRoom
    isDealer,
    exitRoom,    \* g.exitRoom: a session's channel, or Nil
    closed,      \* channels that were closed
    last,        \* the last session there was
    command,     \* the room command that runs, and where it is
    shown,       \* what RoomJoin told the screen last: model.roomID and isDealer
    crew,        \* per session and kind, the routine and the channel it waits for
    subs         \* per session, the transport's subscription

vars == <<room, isDealer, exitRoom, closed, last, command, shown, crew, subs>>

Sessions == 1..MaxSessions
Nil == 0
NotShown == [room |-> NoRoom, isDealer |-> FALSE]
NoCommand == [op |-> "none", pc |-> "none", dealer |-> FALSE]
NoRoutine == [pc |-> "none", exit |-> Nil]
NoSub == [state |-> "none", queue |-> 0, blocked |-> FALSE]

-----------------------------------------------------------------------------
(* Commands; the user waits for the answer to one before giving the next *)

\* CreateNewRoom makes a dealer; of a room that is joined the game is the dealer
\* if it has its state in a file.
AskToJoin(dealer) ==
    /\ command = NoCommand /\ last < MaxSessions
    /\ command' = [op |-> "join", pc |-> "asked", dealer |-> dealer]
    /\ UNCHANGED <<room, isDealer, exitRoom, closed, last, shown, crew, subs>>

\* The identifier does not parse, or there is a room.
JoinRefused ==
    /\ command.op = "join" /\ command.pc = "asked"
    /\ command' = NoCommand
    /\ UNCHANGED <<room, isDealer, exitRoom, closed, last, shown, crew, subs>>

\* The room has another version: JoinRoom wraps an error that is nil, so the
\* caller takes it for joined, and tells the screen of the room there is, none.
JoinUnsupported ==
    /\ command.op = "join" /\ command.pc = "asked"
    /\ room = NoRoom
    /\ command' = [command EXCEPT !.pc = "done"]
    /\ UNCHANGED <<room, isDealer, exitRoom, closed, last, shown, crew, subs>>

\* Mutant: a room is joined from another.
EnterRoomFromAnother ==
    /\ command.op = "join" /\ command.pc = "asked"
    /\ last' = last + 1
    /\ exitRoom' = last + 1
    /\ room' = last + 1
    /\ isDealer' = command.dealer
    /\ command' = [command EXCEPT !.pc = "entered"]
    /\ UNCHANGED <<closed, shown, crew, subs>>

EnterRoom ==
    /\ command.op = "join" /\ command.pc = "asked"
    /\ room = NoRoom
    /\ last' = last + 1
    /\ exitRoom' = last + 1
    /\ room' = last + 1
    /\ isDealer' = command.dealer
    /\ command' = [command EXCEPT !.pc = "entered"]
    /\ UNCHANGED <<closed, shown, crew, subs>>

\* Mutant: only the creator's loops are started for a dealer.
StartRoutinesForOne ==
    /\ command.op = "join" /\ command.pc = "entered"
    /\ command' = [command EXCEPT !.pc = "done"]
    /\ crew' = [crew EXCEPT ![room] =
          [k \in Routines |-> IF isDealer = (k \in DealerKinds) THEN [pc |-> "ready", exit |-> Nil]
                              ELSE NoRoutine]]
    /\ subs' = [subs EXCEPT ![room].state = "open"]
    /\ UNCHANGED <<room, isDealer, exitRoom, closed, last, shown>>

StartRoutines ==
    /\ command.op = "join" /\ command.pc = "entered"
    /\ command' = [command EXCEPT !.pc = "done"]
    /\ crew' = [crew EXCEPT ![room] =
          [k \in Routines |-> IF k \in DealerKinds => isDealer THEN [pc |-> "ready", exit |-> Nil]
                              ELSE NoRoutine]]
    /\ subs' = [subs EXCEPT ![room].state = "open"]
    /\ UNCHANGED <<room, isDealer, exitRoom, closed, last, shown>>

\* SubscribeToMessages fails: JoinRoom returns the error and stays in the room,
\* without routines; the screen shows none.
SubscribeFails ==
    /\ command.op = "join" /\ command.pc = "entered"
    /\ command' = NoCommand
    /\ UNCHANGED <<room, isDealer, exitRoom, closed, last, shown, crew, subs>>

\* The key works if a room is shown, the command "exit" always.
AskToExit ==
    /\ command = NoCommand
    /\ command' = [op |-> "exit", pc |-> "asked", dealer |-> FALSE]
    /\ UNCHANGED <<room, isDealer, exitRoom, closed, last, shown, crew, subs>>

\* Mutant: the channel is only replaced by the next.
CloseExitRoomForgets ==
    /\ command.op = "exit" /\ command.pc = "asked"
    /\ UNCHANGED closed
    /\ command' = [command EXCEPT !.pc = "closed"]
    /\ UNCHANGED <<room, isDealer, exitRoom, last, shown, crew, subs>>

\* LeaveRoom in two steps, as routines look at exitRoom in between.
CloseExitRoom ==
    /\ command.op = "exit" /\ command.pc = "asked"
    /\ closed' = closed \cup ({exitRoom} \ {Nil})
    /\ command' = [command EXCEPT !.pc = "closed"]
    /\ UNCHANGED <<room, isDealer, exitRoom, last, shown, crew, subs>>

LeaveRoom ==
    /\ command.op = "exit" /\ command.pc = "closed"
    /\ exitRoom' = Nil
    /\ isDealer' = FALSE
    /\ room' = NoRoom
    /\ command' = [command EXCEPT !.pc = "done"]
    /\ UNCHANGED <<closed, last, shown, crew, subs>>

\* The command's RoomJoin message reaches Update.
HandleRoomJoin ==
    /\ command.pc = "done"
    /\ command' = NoCommand
    /\ shown' = [room |-> room, isDealer |-> isDealer]
    /\ UNCHANGED <<room, isDealer, exitRoom, closed, last, crew, subs>>

-----------------------------------------------------------------------------
(* Routines *)

Becomes(s, k, r) ==
    /\ crew' = [crew EXCEPT ![s][k] = r]
    /\ UNCHANGED <<room, isDealer, exitRoom, closed, last, command, shown>>

\* The select statement evaluates g.exitRoom: what it was, the next room's, or
\* nil, from which nothing is ever received.
Select(s, k) ==
    /\ crew[s][k].pc = "ready"
    /\ Becomes(s, k, [pc |-> "waiting", exit |-> exitRoom])
    /\ UNCHANGED subs

\* A timer, or a message; it may be taken although the room has just been left.
Wake(s, k) ==
    /\ crew[s][k].pc = "waiting"
    /\ IF k = "processIncomingMessages"
       THEN subs[s].queue > 0 /\ subs' = [subs EXCEPT ![s].queue = @ - 1]
       ELSE UNCHANGED subs
    /\ Becomes(s, k, [pc |-> "busy", exit |-> Nil])

\* Mutant: a message that cannot be handled ends the routine.
HandleOnce(s, k) ==
    /\ crew[s][k].pc = "busy"
    /\ Becomes(s, k, [pc |-> "finished", exit |-> Nil])
    /\ UNCHANGED subs

\* What was received is handled, or the loop's work done: other modules say how.
Handle(s, k) ==
    /\ crew[s][k].pc = "busy"
    /\ Becomes(s, k, [pc |-> "ready", exit |-> Nil])
    /\ UNCHANGED subs

\* The deferred Unsubscribe tells the subscription.
Finish(s, k) ==
    /\ crew[s][k].pc = "waiting" /\ crew[s][k].exit \in closed
    /\ Becomes(s, k, [pc |-> "finished", exit |-> Nil])
    /\ IF k = "processIncomingMessages"
       THEN subs' = [subs EXCEPT ![s].state = "left"]
       ELSE UNCHANGED subs

-----------------------------------------------------------------------------
(* The goroutine of SubscribeToMessages *)

SubscriptionBecomes(s, sub) ==
    /\ subs' = [subs EXCEPT ![s] = sub]
    /\ UNCHANGED <<room, isDealer, exitRoom, closed, last, command, shown, crew>>

\* Mutant: the goroutine keeps what does not fit.
ReceiveBeyond(s) ==
    /\ subs[s].state \in {"open", "left"} /\ ~subs[s].blocked
    /\ SubscriptionBecomes(s,
          IF subs[s].queue <= MessageBuffer THEN [subs[s] EXCEPT !.queue = @ + 1]
          ELSE [subs[s] EXCEPT !.blocked = TRUE])

\* A message is put into the channel; when it is full the goroutine waits, and
\* does not see that the room was left.
Receive(s) ==
    /\ subs[s].state \in {"open", "left"} /\ ~subs[s].blocked
    /\ SubscriptionBecomes(s,
          IF subs[s].queue < MessageBuffer THEN [subs[s] EXCEPT !.queue = @ + 1]
          ELSE [subs[s] EXCEPT !.blocked = TRUE])

Unblock(s) ==
    /\ subs[s].blocked /\ subs[s].queue < MessageBuffer
    /\ SubscriptionBecomes(s, [subs[s] EXCEPT !.queue = @ + 1, !.blocked = FALSE])

Unsubscribe(s) ==
    /\ subs[s].state = "left" /\ ~subs[s].blocked
    /\ SubscriptionBecomes(s, [subs[s] EXCEPT !.state = "closed"])

-----------------------------------------------------------------------------
(* Specification *)

Init ==
    /\ room = NoRoom
    /\ isDealer = FALSE
    /\ exitRoom = Nil
    /\ closed = {}
    /\ last = 0
    /\ command = NoCommand
    /\ shown = NotShown
    /\ crew = [s \in Sessions |-> [k \in Routines |-> NoRoutine]]
    /\ subs = [s \in Sessions |-> NoSub]

Next ==
    \/ \E dealer \in BOOLEAN : AskToJoin(dealer)
    \/ JoinRefused
    \/ JoinUnsupported
    \/ EnterRoom
    \/ StartRoutines
    \/ SubscribeFails
    \/ AskToExit
    \/ CloseExitRoom
    \/ LeaveRoom
    \/ HandleRoomJoin
    \/ \E s \in Sessions, k \in Routines : Select(s, k)
    \/ \E s \in Sessions, k \in Routines : Wake(s, k)
    \/ \E s \in Sessions, k \in Routines : Handle(s, k)
    \/ \E s \in Sessions, k \in Routines : Finish(s, k)
    \/ \E s \in Sessions : Receive(s)
    \/ \E s \in Sessions : Unblock(s)
    \/ \E s \in Sessions : Unsubscribe(s)

Spec == Init /\ [][Next]_vars

\* Goroutines run, and a command comes to its end.
Fairness ==
    /\ WF_vars(JoinRefused \/ JoinUnsupported \/ EnterRoom \/ StartRoutines)
    /\ WF_vars(CloseExitRoom \/ LeaveRoom)
    /\ WF_vars(HandleRoomJoin)
    /\ \A s \in Sessions, k \in Routines :
          /\ WF_vars(Select(s, k))
          /\ WF_vars(Handle(s, k))
          /\ WF_vars(Wake(s, k) \/ Finish(s, k))
    /\ \A s \in Sessions : WF_vars(Unblock(s)) /\ WF_vars(Unsubscribe(s))

FairSpec == Spec /\ Fairness

-----------------------------------------------------------------------------
(* Properties *)

\* Values the variables take.
TypeOK ==
    /\ room \in Sessions \cup {NoRoom}
    /\ isDealer \in BOOLEAN
    /\ exitRoom \in Sessions \cup {Nil}
    /\ closed \subseteq Sessions
    /\ last \in 0..MaxSessions
    /\ command \in [op : {"none", "join", "exit"}, dealer : BOOLEAN,
                    pc : {"none", "asked", "entered", "closed", "done"}]
    /\ shown \in [room : Sessions \cup {NoRoom}, isDealer : BOOLEAN]
    /\ crew \in [Sessions -> [Routines ->
          [pc : {"none", "ready", "waiting", "busy", "finished"}, exit : Sessions \cup {Nil}]]]
    /\ subs \in [Sessions -> [state : {"none", "open", "left", "closed"},
                              queue : 0..MessageBuffer, blocked : BOOLEAN]]

\* No routine waits for a channel that nobody will close any more: it is closed,
\* or the one that leaving closes.  The exception are routines that looked when
\* there was none; those wait for the timer or the message of another turn.
NobodyWaitsForALostChannel ==
    \A s \in Sessions, k \in Routines :
        crew[s][k].pc = "waiting" => crew[s][k].exit \in closed \cup {exitRoom, Nil}

\* A room that the screen shows is the room of the game, and served by all the
\* routines it needs, whatever is left over of rooms before.
ShownRoomIsServed ==
    command = NoCommand /\ shown.room # NoRoom =>
        /\ shown = [room |-> room, isDealer |-> isDealer]
        /\ exitRoom = room /\ exitRoom \notin closed
        /\ \A k \in Routines :
              (k \in DealerKinds => isDealer) => crew[room][k].pc \in {"ready", "waiting", "busy"}
        /\ subs[room].state = "open"

\* Who leaves for good is left alone: in the end every routine of the rooms left
\* has finished, but those that were busy when exitRoom was set to nil.
LeftRoutinesEnd ==
    <>[](room = NoRoom) =>
        <>[](\A s \in Sessions, k \in Routines :
                crew[s][k].pc = "waiting" => crew[s][k].exit = Nil)

\* A subscription whose channel is full is emptied while its room is there.
SubscriptionKeepsUp ==
    \A s \in Sessions : subs[s].blocked ~> ~subs[s].blocked \/ room # s

=============================================================================
