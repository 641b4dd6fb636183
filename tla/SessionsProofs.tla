--------------------------- MODULE SessionsProofs ---------------------------
(***************************************************************************)
(* Proofs about Sessions, for every number of rooms and every choice of    *)
(* routines: no routine waits for a channel that nobody will close any     *)
(* more, and a room that the screen shows is served by its routines.       *)
(*                                                                         *)
(* Both need to know what a command leaves behind at each of its steps,    *)
(* and that a routine of the current room has only ever looked at the      *)
(* current channel, as sessions that are yet to come have no routines.     *)
(***************************************************************************)
EXTENDS Sessions, TLAPS

Routine == [pc : {"none", "ready", "waiting", "busy", "finished"}, exit : Sessions \cup {Nil}]
Subscription == [state : {"none", "open", "left", "closed"}, queue : 0..MessageBuffer,
                 blocked : BOOLEAN]

\* The room of the game has the channel that leaving closes.
RoomHasChannel ==
    /\ room = NoRoom <=> exitRoom = Nil
    /\ room # NoRoom => room = exitRoom /\ room = last
    /\ closed \subseteq 1..last
    /\ exitRoom \in closed => command.pc = "closed"

\* What the steps of a command rely on.
CommandInv ==
    /\ command.op = "none" => command.pc = "none"
    /\ command.op = "join" /\ command.pc = "asked" => last < MaxSessions
    /\ command.pc = "entered" => command.op = "join" /\ room # NoRoom
    /\ command.pc = "closed" => command.op = "exit" /\ exitRoom \in closed \cup {Nil}

\* Sessions to come have no routines; those of the room know its channel.
CrewInv ==
    /\ \A s \in Sessions, k \in Routines : s > last => crew[s][k] = NoRoutine
    /\ \A k \in Routines :
          room # NoRoom /\ crew[room][k].pc = "waiting" => crew[room][k].exit = exitRoom

Serves ==
    /\ \A k \in Routines :
          (k \in DealerKinds => isDealer) => crew[room][k].pc \in {"ready", "waiting", "busy"}
    /\ subs[room].state = "open"

ShownInv ==
    /\ command.pc \in {"none", "asked"} /\ shown.room # NoRoom =>
          shown = [room |-> room, isDealer |-> isDealer] /\ Serves
    /\ command.pc = "entered" => shown.room = NoRoom
    /\ command.pc = "done" /\ room # NoRoom => Serves

SInv == TypeOK /\ RoomHasChannel /\ CommandInv /\ NobodyWaitsForALostChannel /\ CrewInv /\ ShownInv

-----------------------------------------------------------------------------
(* What a step of a routine or of a subscription changes *)

LEMMA CrewUpdate ==
    ASSUME crew \in [Sessions -> [Routines -> Routine]],
           NEW s \in Sessions, NEW k \in Routines, NEW r \in Routine, Becomes(s, k, r)
    PROVE  /\ crew' \in [Sessions -> [Routines -> Routine]]
           /\ \A t \in Sessions, j \in Routines :
                 crew'[t][j] = IF t = s /\ j = k THEN r ELSE crew[t][j]
BY DEF Becomes

LEMMA SubsUpdate ==
    ASSUME subs \in [Sessions -> Subscription],
           NEW s \in Sessions, NEW x \in Subscription, subs' = [subs EXCEPT ![s] = x]
    PROVE  /\ subs' \in [Sessions -> Subscription]
           /\ \A t \in Sessions : subs'[t] = IF t = s THEN x ELSE subs[t]
OBVIOUS

-----------------------------------------------------------------------------
(* Commands *)

LEMMA CommandSteps ==
    ASSUME SInv,
           \/ \E dealer \in BOOLEAN : AskToJoin(dealer)
           \/ JoinRefused \/ JoinUnsupported \/ EnterRoom \/ SubscribeFails
           \/ AskToExit \/ CloseExitRoom \/ LeaveRoom \/ HandleRoomJoin
    PROVE  SInv'
<1> USE SomeSessions, NoRoomIsNoSession DEF SInv, Sessions, Nil, NoCommand, NotShown, NoRoutine
<1>1. ASSUME NEW dealer \in BOOLEAN, AskToJoin(dealer)  PROVE SInv'
  BY <1>1 DEF AskToJoin, TypeOK, RoomHasChannel, CommandInv, NobodyWaitsForALostChannel, CrewInv,
              ShownInv, Serves
<1>2. CASE JoinRefused
  BY <1>2 DEF JoinRefused, TypeOK, RoomHasChannel, CommandInv, NobodyWaitsForALostChannel, CrewInv,
              ShownInv, Serves
<1>3. CASE JoinUnsupported
  BY <1>3 DEF JoinUnsupported, TypeOK, RoomHasChannel, CommandInv, NobodyWaitsForALostChannel, CrewInv,
              ShownInv, Serves
<1>4. CASE EnterRoom
  <2>1. /\ last \in 0..MaxSessions /\ last < MaxSessions /\ exitRoom = 0
        /\ last' = last + 1 /\ exitRoom' = last + 1 /\ room' = last + 1
    BY <1>4 DEF EnterRoom, TypeOK, RoomHasChannel, CommandInv
  <2>2. last' \in 1..MaxSessions /\ last' > last
    BY <2>1
  <2>3. command'.op = "join" /\ command'.pc = "entered"
    BY <1>4 DEF EnterRoom, TypeOK
  <2>4. TypeOK'
    BY <1>4, <2>1, <2>2 DEF EnterRoom, TypeOK
  <2>5. RoomHasChannel' /\ CommandInv'
    BY <1>4, <2>1, <2>2, <2>3 DEF EnterRoom, RoomHasChannel, CommandInv
  <2>6. NobodyWaitsForALostChannel' /\ CrewInv'
    BY <1>4, <2>1, <2>2 DEF EnterRoom, NobodyWaitsForALostChannel, CrewInv
  <2>7. ShownInv'
    BY <1>4, <2>3 DEF EnterRoom, ShownInv
  <2>8. QED
    BY <2>4, <2>5, <2>6, <2>7
<1>5. CASE SubscribeFails
  BY <1>5 DEF SubscribeFails, TypeOK, RoomHasChannel, CommandInv, NobodyWaitsForALostChannel, CrewInv,
              ShownInv, Serves
<1>6. CASE AskToExit
  BY <1>6 DEF AskToExit, TypeOK, RoomHasChannel, CommandInv, NobodyWaitsForALostChannel, CrewInv,
              ShownInv, Serves
<1>7. CASE CloseExitRoom
  BY <1>7 DEF CloseExitRoom, TypeOK, RoomHasChannel, CommandInv, NobodyWaitsForALostChannel, CrewInv,
              ShownInv, Serves
<1>8. CASE LeaveRoom
  <2>1. TypeOK'
    BY <1>8 DEF LeaveRoom, TypeOK
  <2>2. RoomHasChannel' /\ CommandInv'
    BY <1>8 DEF LeaveRoom, TypeOK, RoomHasChannel, CommandInv
  <2>3. NobodyWaitsForALostChannel' /\ CrewInv'
    BY <1>8 DEF LeaveRoom, TypeOK, RoomHasChannel, CommandInv, NobodyWaitsForALostChannel, CrewInv
  <2>4. ShownInv'
    BY <1>8 DEF LeaveRoom, TypeOK, RoomHasChannel, CommandInv, ShownInv, Serves
  <2>5. QED
    BY <2>1, <2>2, <2>3, <2>4
<1>9. CASE HandleRoomJoin
  <2>1. TypeOK'
    BY <1>9 DEF HandleRoomJoin, TypeOK
  <2>2. RoomHasChannel' /\ CommandInv'
    BY <1>9 DEF HandleRoomJoin, TypeOK, RoomHasChannel, CommandInv
  <2>3. NobodyWaitsForALostChannel' /\ CrewInv'
    BY <1>9 DEF HandleRoomJoin, TypeOK, RoomHasChannel, CommandInv, NobodyWaitsForALostChannel, CrewInv
  <2>4. ShownInv'
    BY <1>9 DEF HandleRoomJoin, TypeOK, RoomHasChannel, CommandInv, ShownInv, Serves
  <2>5. QED
    BY <2>1, <2>2, <2>3, <2>4
<1>10. QED
  BY <1>1, <1>2, <1>3, <1>4, <1>5, <1>6, <1>7, <1>8, <1>9

-----------------------------------------------------------------------------
(* Routines and subscriptions *)

LEMMA StartRoutinesStep ==
    ASSUME SInv, StartRoutines
    PROVE  SInv'
<1> DEFINE c == [k \in Routines |-> IF k \in DealerKinds => isDealer
                                    THEN [pc |-> "ready", exit |-> Nil] ELSE NoRoutine]
           x == [subs[room] EXCEPT !.state = "open"]
<1>1. /\ room \in Sessions /\ room = last /\ exitRoom = room
      /\ crew \in [Sessions -> [Routines -> Routine]] /\ subs \in [Sessions -> Subscription]
  BY DEF SInv, TypeOK, StartRoutines, RoomHasChannel, CommandInv, Routine, Subscription
<1>2. c \in [Routines -> Routine]
  BY DEF Routine, NoRoutine, Nil
<1>3. crew' = [crew EXCEPT ![room] = c] /\ subs' = [subs EXCEPT ![room] = x]
  BY DEF StartRoutines
<1>4. x \in Subscription /\ x.state = "open"
  BY <1>1 DEF Subscription
<1>5. /\ command'.op = command.op /\ command'.pc = "done"
      /\ command' \in [op : {"none", "join", "exit"}, dealer : BOOLEAN,
                       pc : {"none", "asked", "entered", "closed", "done"}]
      /\ command.op = "join" /\ command.pc = "entered"
  BY DEF SInv, TypeOK, StartRoutines
<1>6. \A k \in Routines :
         /\ c[k].pc # "waiting"
         /\ (k \in DealerKinds => isDealer) => c[k].pc = "ready"
  BY DEF NoRoutine
<1> HIDE DEF c, x
<1>7. crew' \in [Sessions -> [Routines -> Routine]]
      /\ \A s \in Sessions, k \in Routines :
            crew'[s][k] = IF s = room THEN c[k] ELSE crew[s][k]
  BY <1>1, <1>2, <1>3
<1>8. subs' \in [Sessions -> Subscription] /\ subs'[room] = x
  BY <1>1, <1>3, <1>4
<1>9. TypeOK'
  BY <1>5, <1>7, <1>8 DEF SInv, TypeOK, StartRoutines, Routine, Subscription
<1>10. RoomHasChannel' /\ CommandInv'
  BY <1>5 DEF SInv, RoomHasChannel, CommandInv, StartRoutines
<1>11. NobodyWaitsForALostChannel' /\ CrewInv'
  <2>1. \A t \in Sessions : t > last => t # room
    BY <1>1, SomeSessions DEF Sessions
  <2>2. \A t \in Sessions, k \in Routines :
           crew'[t][k].pc = "waiting" => t # room /\ crew'[t][k] = crew[t][k]
    <3> SUFFICES ASSUME NEW t \in Sessions, NEW k \in Routines, crew'[t][k].pc = "waiting"
                 PROVE  t # room /\ crew'[t][k] = crew[t][k]
      OBVIOUS
    <3>1. crew'[t][k] = IF t = room THEN c[k] ELSE crew[t][k]
      BY <1>7
    <3>2. c[k].pc # "waiting"
      BY <1>6
    <3>3. QED
      BY <3>1, <3>2
  <2>3. UNCHANGED <<room, exitRoom, closed, last>>
    BY DEF StartRoutines
  <2>4. QED
    BY <1>1, <1>7, <2>1, <2>2, <2>3 DEF SInv, NobodyWaitsForALostChannel, CrewInv
<1>12. ShownInv'
  BY <1>1, <1>4, <1>5, <1>6, <1>7, <1>8 DEF ShownInv, Serves, StartRoutines
<1>13. QED
  BY <1>9, <1>10, <1>11, <1>12 DEF SInv

\* A routine of the room does not see a closed channel.
LEMMA RoutineSteps ==
    ASSUME SInv, NEW s \in Sessions, NEW k \in Routines,
           Select(s, k) \/ Wake(s, k) \/ Handle(s, k) \/ Finish(s, k)
    PROVE  SInv'
<1>1. crew \in [Sessions -> [Routines -> Routine]] /\ subs \in [Sessions -> Subscription]
  BY DEF SInv, TypeOK, Routine, Subscription
<1>2. PICK r \in Routine :
         /\ Becomes(s, k, r)
         /\ r.pc \in {"ready", "waiting", "busy", "finished"}
         /\ r.pc = "waiting" => r.exit = exitRoom
         /\ r.pc = "finished" => crew[s][k].exit \in closed
         /\ crew[s][k].pc # "none"
         /\ r.pc = "finished" => crew[s][k].pc = "waiting"
  BY DEF Select, Wake, Handle, Finish, SInv, TypeOK, Routine, Nil
<1>3. /\ crew' \in [Sessions -> [Routines -> Routine]]
      /\ \A t \in Sessions, j \in Routines :
            crew'[t][j] = IF t = s /\ j = k THEN r ELSE crew[t][j]
  BY <1>1, <1>2, CrewUpdate
<1>4. UNCHANGED <<room, isDealer, exitRoom, closed, last, command, shown>>
  BY <1>2 DEF Becomes
<1>5. /\ subs' \in [Sessions -> Subscription]
      /\ \A t \in Sessions : subs'[t].state # subs[t].state => t = s /\ r.pc = "finished"
  <2>1. CASE UNCHANGED subs
    BY <1>1, <2>1
  <2>2. CASE Wake(s, k) /\ subs[s].queue > 0 /\ subs' = [subs EXCEPT ![s].queue = @ - 1]
    <3> DEFINE x == [subs[s] EXCEPT !.queue = @ - 1]
    <3>1. x \in Subscription /\ x.state = subs[s].state
      BY <1>1, <2>2, BufferHoldsSomething DEF Subscription
    <3>2. QED
      BY <1>1, <2>2, <3>1, SubsUpdate
  <2>3. CASE Finish(s, k) /\ subs' = [subs EXCEPT ![s].state = "left"]
    <3> DEFINE x == [subs[s] EXCEPT !.state = "left"]
    <3>1. x \in Subscription
      BY <1>1 DEF Subscription
    <3>2. r.pc = "finished"
      BY <1>1, <1>2, <1>3, <2>3 DEF Finish, Becomes
    <3>3. QED
      BY <1>1, <2>3, <3>1, <3>2, SubsUpdate
  <2>4. QED
    BY <2>1, <2>2, <2>3 DEF Select, Wake, Handle, Finish
<1>6. s = room /\ r.pc = "finished" => command.pc = "closed"
  BY <1>2, NoRoomIsNoSession, SomeSessions DEF SInv, CrewInv, RoomHasChannel, Sessions
<1>7. TypeOK'
  BY <1>3, <1>4, <1>5 DEF SInv, TypeOK, Routine, Subscription
<1>8. RoomHasChannel' /\ CommandInv'
  BY <1>4 DEF SInv, RoomHasChannel, CommandInv
<1>9. NobodyWaitsForALostChannel'
  BY <1>2, <1>3, <1>4 DEF SInv, NobodyWaitsForALostChannel
<1>10. CrewInv'
  <2>1. s <= last
    BY <1>2, SomeSessions DEF SInv, CrewInv, NoRoutine, TypeOK, Sessions
  <2>2. \A t \in Sessions, j \in Routines : t > last => crew'[t][j] = crew[t][j]
    BY <1>3, <2>1, SomeSessions DEF SInv, TypeOK, Sessions
  <2>3. room \in Sessions \cup {NoRoom}
    BY DEF SInv, TypeOK
  <2>4. \A j \in Routines : room # NoRoom /\ crew'[room][j].pc = "waiting" =>
           crew'[room][j].exit = exitRoom
    BY <1>2, <1>3, <2>3 DEF SInv, CrewInv
  <2>5. QED
    BY <1>4, <2>2, <2>4 DEF SInv, CrewInv
<1>11. ShownInv'
  <2>1. ASSUME command.pc # "closed", room # NoRoom, Serves  PROVE Serves'
    <3>1. room \in Sessions /\ subs'[room].state = "open"
      BY <1>5, <1>6, <2>1 DEF Serves, SInv, TypeOK
    <3>2. \A j \in Routines : crew[room][j].pc \in {"ready", "waiting", "busy"} =>
             crew'[room][j].pc \in {"ready", "waiting", "busy"}
      BY <1>2, <1>3, <1>6, <2>1, <3>1
    <3>3. QED
      BY <1>4, <2>1, <3>1, <3>2 DEF Serves
  <2>2. QED
    BY <1>4, <2>1 DEF SInv, ShownInv
<1>12. QED
  BY <1>7, <1>8, <1>9, <1>10, <1>11 DEF SInv

LEMMA SubscriptionSteps ==
    ASSUME SInv, NEW s \in Sessions, Receive(s) \/ Unblock(s) \/ Unsubscribe(s)
    PROVE  SInv'
<1>1. subs \in [Sessions -> Subscription]
  BY DEF SInv, TypeOK, Subscription
<1>2. PICK x \in Subscription :
         /\ subs' = [subs EXCEPT ![s] = x]
         /\ x.state = subs[s].state \/ subs[s].state = "left"
  <2> DEFINE put == [subs[s] EXCEPT !.queue = @ + 1]
             wait == [subs[s] EXCEPT !.blocked = TRUE]
             go == [subs[s] EXCEPT !.queue = @ + 1, !.blocked = FALSE]
             end == [subs[s] EXCEPT !.state = "closed"]
  <2>1. subs[s].queue < MessageBuffer => put \in Subscription /\ go \in Subscription
    <3>1. ASSUME subs[s].queue < MessageBuffer  PROVE subs[s].queue + 1 \in 0..MessageBuffer
      BY <1>1, <3>1, BufferHoldsSomething DEF Subscription
    <3>2. QED
      BY <1>1, <3>1 DEF Subscription
  <2>2. wait \in Subscription /\ end \in Subscription
    BY <1>1 DEF Subscription
  <2>3. /\ put.state = subs[s].state /\ wait.state = subs[s].state
        /\ go.state = subs[s].state
    BY <1>1 DEF Subscription
  <2>4. \/ subs[s].queue < MessageBuffer /\ subs' = [subs EXCEPT ![s] = put]
        \/ subs' = [subs EXCEPT ![s] = wait]
        \/ subs[s].queue < MessageBuffer /\ subs' = [subs EXCEPT ![s] = go]
        \/ subs[s].state = "left" /\ subs' = [subs EXCEPT ![s] = end]
    <3>1. CASE Receive(s)
      BY <3>1 DEF Receive, SubscriptionBecomes
    <3>2. CASE Unblock(s)
      BY <3>2 DEF Unblock, SubscriptionBecomes
    <3>3. CASE Unsubscribe(s)
      BY <3>3 DEF Unsubscribe, SubscriptionBecomes
    <3>4. QED
      BY <3>1, <3>2, <3>3
  <2> HIDE DEF put, wait, go, end
  <2>5. QED
    BY <2>1, <2>2, <2>3, <2>4
<1>3. subs' \in [Sessions -> Subscription]
      /\ \A t \in Sessions : subs[t].state = "open" => subs'[t].state = "open"
  BY <1>1, <1>2, SubsUpdate
<1>4. UNCHANGED <<room, isDealer, exitRoom, closed, last, command, shown, crew>>
  BY DEF Receive, Unblock, Unsubscribe, SubscriptionBecomes
<1>5. TypeOK'
  BY <1>3, <1>4 DEF SInv, TypeOK, Subscription
<1>6. RoomHasChannel' /\ CommandInv' /\ NobodyWaitsForALostChannel' /\ CrewInv'
  BY <1>4 DEF SInv, RoomHasChannel, CommandInv, NobodyWaitsForALostChannel, CrewInv
<1>7. ASSUME room # NoRoom, Serves  PROVE Serves'
  BY <1>3, <1>4, <1>7 DEF Serves, SInv, TypeOK
<1>8. ShownInv'
  BY <1>4, <1>7 DEF SInv, ShownInv
<1>9. QED
  BY <1>5, <1>6, <1>8 DEF SInv

-----------------------------------------------------------------------------
(* Theorems *)

LEMMA SInvHolds == Spec => []SInv
<1>1. Init => SInv
  <2> SUFFICES ASSUME Init PROVE SInv
    OBVIOUS
  <2> USE SomeSessions, NoRoomIsNoSession, BufferHoldsSomething
          DEF Init, Nil, NotShown, NoCommand, NoRoutine
  <2>1. TypeOK
    <3>1. NoRoutine \in Routine
      BY DEF Routine
    <3>2. NoSub \in Subscription
      BY DEF NoSub, Subscription
    <3>3. crew \in [Sessions -> [Routines -> Routine]] /\ subs \in [Sessions -> Subscription]
      BY <3>1, <3>2
    <3>4. 0 \in 0..MaxSessions
      BY SomeSessions
    <3>5. closed = {} /\ last = 0 /\ exitRoom = 0 /\ room = NoRoom /\ isDealer = FALSE
      OBVIOUS
    <3>6. /\ command \in [op : {"none", "join", "exit"}, dealer : BOOLEAN,
                         pc : {"none", "asked", "entered", "closed", "done"}]
          /\ shown \in [room : Sessions \cup {NoRoom}, isDealer : BOOLEAN]
      OBVIOUS
    <3> HIDE DEF Init
    <3>7. QED
      BY <3>3, <3>4, <3>5, <3>6 DEF TypeOK, Subscription, Routine
  <2>2. RoomHasChannel /\ CommandInv
    BY DEF RoomHasChannel, CommandInv
  <2>3. NobodyWaitsForALostChannel /\ CrewInv /\ ShownInv
    BY DEF NobodyWaitsForALostChannel, CrewInv, ShownInv
  <2>4. QED
    BY <2>1, <2>2, <2>3 DEF SInv
<1>2. SInv /\ [Next]_vars => SInv'
  <2> SUFFICES ASSUME SInv, [Next]_vars PROVE SInv'
    OBVIOUS
  <2>1. CASE UNCHANGED vars
    BY <2>1 DEF vars, SInv, TypeOK, RoomHasChannel, CommandInv, NobodyWaitsForALostChannel,
                CrewInv, ShownInv, Serves
  <2>2. CASE Next
    BY <2>2, CommandSteps, StartRoutinesStep, RoutineSteps, SubscriptionSteps DEF Next
  <2>3. QED
    BY <2>1, <2>2
<1>3. QED
  BY <1>1, <1>2, PTL DEF Spec

\* Type correctness.
THEOREM SessionsTypeCorrect == Spec => []TypeOK
BY SInvHolds, PTL DEF SInv

\* However many rooms are joined and left one after the other, no routine waits
\* for a channel that will not be closed.
THEOREM ExitsAreHeard == Spec => []NobodyWaitsForALostChannel
BY SInvHolds, PTL DEF SInv

\* A room that is shown is the game's, and its routines run, also after joins
\* that failed half way.
THEOREM ShownRoomsAreServed == Spec => []ShownRoomIsServed
<1>1. SInv => ShownRoomIsServed
  BY DEF SInv, ShownInv, Serves, ShownRoomIsServed, RoomHasChannel, NoCommand
<1>2. QED
  BY <1>1, SInvHolds, PTL

=============================================================================
