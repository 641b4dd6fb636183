--------------------------- MODULE PresenceProofs ---------------------------
(***************************************************************************)
(* Proofs about Presence, for any players, delays, losses and timeout that *)
(* meet its assumptions: whoever was heard of and stays is not marked      *)
(* offline, and whoever is online was in the room lately.                  *)
(*                                                                         *)
(* For the first, the age of a player's time stamp is compared with the    *)
(* time since it was last sure to publish: the stamp is no older, or that  *)
(* message is still under way.  For the second, with the time since the    *)
(* player was in the room: a message is at least as old as that, and a     *)
(* stamp, wherever it was kept, at most the delay of a message younger.    *)
(***************************************************************************)
EXTENDS Presence, TLAPS

ListOK(l) == DOMAIN l \subseteq Players /\ l \in [DOMAIN l -> Entry]

\* The stamps of l are no younger than they can be.
Dated(l) == \A p \in DOMAIN l : l[p].seen = TooOld \/ gone[p] <= l[p].seen + MaxDelay

LoopInv ==
    \A p \in inRoom :
        /\ gone[p] = 0
        /\ since[p] <= quiet[p]
        /\ quiet[p] + OnlineMessagePeriod <= MaxQuiet + since[p]

\* The last message of p that was sure to be sent is there, or on its way.
Fresh(p) ==
    \/ list[p].seen <= quiet[p]
    \/ \E m \in wire : /\ m.player = p /\ m.online /\ m.age = quiet[p]
                       /\ list[p].seen <= MaxQuiet + m.age

HeardInv ==
    /\ dealer # "up" => heard = {}
    /\ \A p \in heard : p \in Listed /\ Fresh(p)

WireInv == \A m \in wire : m.online => gone[m.player] <= m.age

DatedInv == Dated(list) /\ (file # Torn => Dated(file))

Inv == TypeOK /\ LoopInv /\ HeardInv /\ WireInv /\ DatedInv

LEMMA Numbers ==
    /\ OnlineMessagePeriod \in Nat /\ OnlineMessagePeriod >= 1
    /\ playerOnlineTimeout \in Nat /\ MaxDelay \in Nat /\ MaxQuiet \in Nat
    /\ MaxDelay < OnlineMessagePeriod /\ OnlineMessagePeriod <= MaxQuiet
    /\ MaxQuiet + MaxDelay < playerOnlineTimeout
    /\ TooOld \in Nat /\ LongGone \in Nat
BY PeriodIsPositive, TimesAreNat, NetworkIsQuick, TimeoutIsLongEnough, SomeGetThrough
   DEF TooOld, LongGone

LEMMA EntryShape ==
    ASSUME NEW l, ListOK(l), NEW p \in DOMAIN l
    PROVE  p \in Players /\ l[p] \in Entry /\ l[p].seen \in Nat /\ l[p].seen <= TooOld
                         /\ l[p].online \in BOOLEAN
<1>1. p \in Players /\ l[p] \in Entry
  BY DEF ListOK
<1>2. QED
  BY <1>1, Numbers DEF Entry

LEMMA MessageShape ==
    ASSUME TypeOK, NEW m \in wire
    PROVE  m \in Message /\ m.player \in Players /\ m.online \in BOOLEAN
                         /\ m.age \in Nat /\ m.age <= MaxDelay
<1>1. m \in Message
  BY DEF TypeOK
<1>2. QED
  BY <1>1, Numbers DEF Message

LEMMA TypeParts ==
    ASSUME TypeOK
    PROVE  /\ ListOK(list) /\ (file # Torn => ListOK(file))
           /\ \A p \in Players : since[p] \in Nat /\ quiet[p] \in Nat /\ gone[p] \in Nat
                                 /\ gone[p] <= LongGone /\ quiet[p] <= MaxQuiet
                                 /\ since[p] <= OnlineMessagePeriod
BY Numbers DEF TypeOK, ListOK, Listed

-----------------------------------------------------------------------------
(* The list *)

\* Saving keeps what is true of the list and of the file before.
LEMMA SaveStep ==
    ASSUME Inv, NEW l, ListOK(l), Dated(l), Save(l), gone' = gone
    PROVE  /\ ListOK(list') /\ (file' # Torn => ListOK(file'))
           /\ DatedInv'
<1>1. list' = l /\ (file' = l \/ file' = file \/ file' = Torn)
  BY DEF Save
<1>2. file # Torn => ListOK(file) /\ Dated(file)
  BY TypeParts DEF Inv, DatedInv
<1>3. QED
  BY <1>1, <1>2 DEF DatedInv, Dated

-----------------------------------------------------------------------------
(* Players *)

LEMMA JoinRoomStep ==
    ASSUME Inv, NEW p \in Players, JoinRoom(p)
    PROVE  Inv'
<1>1. /\ inRoom' = inRoom \cup {p} /\ heard' = heard \ {p}
      /\ since' = [since EXCEPT ![p] = 0] /\ quiet' = [quiet EXCEPT ![p] = 0]
      /\ gone' = [gone EXCEPT ![p] = 0]
      /\ dealer' = dealer /\ list' = list /\ file' = file
  BY DEF JoinRoom
<1>2. wire \subseteq wire' /\ \A m \in wire' : m \in wire \/ m = [player |-> p, online |-> TRUE, age |-> 0]
  BY DEF JoinRoom, Send
<1>3. TypeOK
  BY DEF Inv
<1>4. TypeOK'
  <2>1. [player |-> p, online |-> TRUE, age |-> 0] \in Message
    BY Numbers DEF Message
  <2>2. wire' \subseteq Message
    BY <1>2, <1>3, <2>1 DEF TypeOK
  <2>3. QED
    BY <1>1, <1>3, <2>2, Numbers DEF TypeOK, Listed
<1>5. \A q \in Players : gone'[q] = IF q = p THEN 0 ELSE gone[q]
  BY <1>1, <1>3 DEF TypeOK
<1>6. \A q \in Players : q # p => since'[q] = since[q] /\ quiet'[q] = quiet[q]
  BY <1>1, <1>3 DEF TypeOK
<1>7. since'[p] = 0 /\ quiet'[p] = 0
  BY <1>1, <1>3 DEF TypeOK
<1>8. LoopInv'
  <2>1. inRoom \subseteq Players
    BY <1>3 DEF TypeOK
  <2>2. QED
    BY <1>1, <1>5, <1>6, <1>7, <2>1, Numbers DEF Inv, LoopInv
<1>9. HeardInv'
  <2>1. heard \subseteq Players
    BY <1>3 DEF TypeOK
  <2>2. ASSUME NEW q \in heard, q # p
        PROVE  q \in Listed' /\ Fresh(q)'
    BY <1>1, <1>2, <1>6, <2>1, <2>2 DEF Inv, HeardInv, Fresh, Listed
  <2>3. QED
    BY <1>1, <2>2 DEF Inv, HeardInv
<1>10. WireInv'
  <2>1. \A m \in wire : m.player \in Players /\ m.age \in Nat
    BY <1>3, MessageShape
  <2>2. \A q \in Players : gone'[q] <= gone[q] /\ gone[q] \in Nat
    BY <1>3, <1>5, TypeParts
  <2>3. \A m \in wire : m.online => gone'[m.player] <= m.age
    BY <1>5, <2>1 DEF Inv, WireInv
  <2>4. QED
    BY <1>2, <1>5, <2>3 DEF WireInv
<1>11. DatedInv'
  <2>1. \A q \in Players : gone'[q] \in Nat /\ gone'[q] <= gone[q] /\ gone[q] \in Nat
    BY <1>3, <1>5, TypeParts
  <2>2. ASSUME NEW l, ListOK(l), Dated(l), NEW q \in DOMAIN l
        PROVE  l[q].seen = TooOld \/ gone'[q] <= l[q].seen + MaxDelay
    BY <2>1, <2>2, EntryShape, Numbers DEF Dated
  <2>3. QED
    BY <1>1, <1>3, <2>2, TypeParts DEF Inv, DatedInv, Dated
<1>12. QED
  BY <1>4, <1>8, <1>9, <1>10, <1>11 DEF Inv

LEMMA PublishOnlineStep ==
    ASSUME Inv, NEW p \in Players, PublishOnline(p)
    PROVE  Inv'
<1>1. /\ p \in inRoom /\ since[p] = OnlineMessagePeriod
      /\ inRoom' = inRoom /\ heard' = heard /\ gone' = gone
      /\ since' = [since EXCEPT ![p] = 0]
      /\ dealer' = dealer /\ list' = list /\ file' = file
  BY DEF PublishOnline
<1>2. \/ Send(p, TRUE) /\ quiet' = [quiet EXCEPT ![p] = 0]
      \/ quiet[p] + OnlineMessagePeriod <= MaxQuiet /\ wire' = wire /\ quiet' = quiet
  BY DEF PublishOnline
<1>3. TypeOK
  BY DEF Inv
<1>4. wire \subseteq wire' /\ \A m \in wire' : m \in wire \/ m = [player |-> p, online |-> TRUE, age |-> 0]
  BY <1>2 DEF Send
<1>5. TypeOK'
  <2>1. [player |-> p, online |-> TRUE, age |-> 0] \in Message
    BY Numbers DEF Message
  <2>2. wire' \subseteq Message
    BY <1>3, <1>4, <2>1 DEF TypeOK
  <2>3. quiet' \in [Players -> 0..MaxQuiet]
    <3>1. quiet \in [Players -> 0..MaxQuiet] /\ 0 \in 0..MaxQuiet
      BY <1>3, Numbers DEF TypeOK
    <3>2. quiet' = [quiet EXCEPT ![p] = 0] \/ quiet' = quiet
      BY <1>2
    <3>3. QED
      BY <3>1, <3>2
  <2>4. QED
    BY <1>1, <1>3, <2>2, <2>3, Numbers DEF TypeOK, Listed
<1>6. \A q \in Players : q # p => since'[q] = since[q] /\ quiet'[q] = quiet[q]
  BY <1>1, <1>2, <1>3 DEF TypeOK
<1>7. /\ since'[p] = 0
      /\ quiet'[p] = 0 \/ (quiet'[p] = quiet[p] /\ quiet[p] + OnlineMessagePeriod <= MaxQuiet)
  BY <1>1, <1>2, <1>3 DEF TypeOK
<1>8. quiet[p] \in Nat /\ quiet[p] <= MaxQuiet /\ OnlineMessagePeriod <= quiet[p]
  BY <1>1, <1>3, TypeParts DEF Inv, LoopInv
<1>9. LoopInv'
  <2>1. inRoom \subseteq Players
    BY <1>3 DEF TypeOK
  <2>2. QED
    BY <1>1, <1>6, <1>7, <1>8, <2>1, Numbers DEF Inv, LoopInv
<1>10. HeardInv'
  <2>1. heard \subseteq Players
    BY <1>3 DEF TypeOK
  <2>2. ASSUME NEW q \in heard, q # p
        PROVE  q \in Listed' /\ Fresh(q)'
    BY <1>1, <1>4, <1>6, <2>1, <2>2 DEF Inv, HeardInv, Fresh, Listed
  <2>3. ASSUME p \in heard
        PROVE  p \in Listed' /\ Fresh(p)'
    <3>1. p \in Listed /\ Fresh(p)
      BY <2>3 DEF Inv, HeardInv
    <3>2. \A m \in wire : m.age < quiet[p]
      BY <1>3, <1>8, MessageShape, Numbers
    <3>3. list[p].seen <= quiet[p] /\ list[p].seen \in Nat
      <4>1. list[p].seen \in Nat
        BY <1>3, <3>1, TypeParts, EntryShape DEF Listed
      <4>2. \A m \in wire : m.age # quiet[p]
        BY <1>3, <1>8, <3>2, MessageShape
      <4>3. QED
        BY <3>1, <4>1, <4>2 DEF Fresh
    <3>4. CASE Send(p, TRUE) /\ quiet' = [quiet EXCEPT ![p] = 0]
      <4>1. [player |-> p, online |-> TRUE, age |-> 0] \in wire'
        BY <3>4 DEF Send
      <4>2. quiet'[p] = 0
        BY <1>3, <3>4 DEF TypeOK
      <4>3. list[p].seen <= MaxQuiet + 0
        BY <1>8, <3>3, Numbers
      <4> DEFINE m == [player |-> p, online |-> TRUE, age |-> 0]
      <4>4. m \in wire' /\ m.player = p /\ m.online /\ m.age = quiet'[p] /\ list'[p].seen <= MaxQuiet + m.age
        BY <1>1, <4>1, <4>2, <4>3
      <4> HIDE DEF m
      <4>5. QED
        BY <1>1, <3>1, <4>4 DEF Fresh, Listed
    <3>5. CASE quiet' = quiet
      BY <1>1, <3>1, <3>3, <3>5 DEF Fresh, Listed
    <3>6. QED
      BY <1>2, <3>4, <3>5
  <2>4. QED
    BY <1>1, <2>2, <2>3 DEF Inv, HeardInv
<1>11. WireInv'
  <2>1. gone[p] = 0
    BY <1>1 DEF Inv, LoopInv
  <2>2. QED
    BY <1>1, <1>4, <2>1 DEF Inv, WireInv
<1>12. DatedInv'
  BY <1>1 DEF Inv, DatedInv, Dated
<1>13. QED
  BY <1>5, <1>9, <1>10, <1>11, <1>12 DEF Inv

LEMMA LeaveRoomStep ==
    ASSUME Inv, NEW p \in Players, LeaveRoom(p)
    PROVE  Inv'
<1>1. /\ inRoom' = inRoom \ {p} /\ heard' = heard \ {p} /\ gone' = gone
      /\ since' = [since EXCEPT ![p] = 0] /\ quiet' = [quiet EXCEPT ![p] = 0]
      /\ dealer' = dealer /\ list' = list /\ file' = file
  BY DEF LeaveRoom
<1>2. wire \subseteq wire' /\ \A m \in wire' : m \in wire \/ m = [player |-> p, online |-> FALSE, age |-> 0]
  BY DEF LeaveRoom, Send
<1>3. TypeOK
  BY DEF Inv
<1>4. TypeOK'
  <2>1. [player |-> p, online |-> FALSE, age |-> 0] \in Message
    BY Numbers DEF Message
  <2>2. wire' \subseteq Message
    BY <1>2, <1>3, <2>1 DEF TypeOK
  <2>3. QED
    BY <1>1, <1>3, <2>2, Numbers DEF TypeOK, Listed
<1>5. \A q \in Players : q # p => since'[q] = since[q] /\ quiet'[q] = quiet[q]
  BY <1>1, <1>3 DEF TypeOK
<1>6. LoopInv'
  <2>1. inRoom \subseteq Players
    BY <1>3 DEF TypeOK
  <2>2. QED
    BY <1>1, <1>5, <2>1 DEF Inv, LoopInv
<1>7. HeardInv'
  <2>1. heard \subseteq Players
    BY <1>3 DEF TypeOK
  <2>2. ASSUME NEW q \in heard, q # p
        PROVE  q \in Listed' /\ Fresh(q)'
    BY <1>1, <1>2, <1>5, <2>1, <2>2 DEF Inv, HeardInv, Fresh, Listed
  <2>3. QED
    BY <1>1, <2>2 DEF Inv, HeardInv
<1>8. WireInv'
  BY <1>1, <1>2 DEF Inv, WireInv
<1>9. DatedInv'
  BY <1>1 DEF Inv, DatedInv, Dated
<1>10. QED
  BY <1>4, <1>6, <1>7, <1>8, <1>9 DEF Inv

-----------------------------------------------------------------------------
(* The dealer *)

LEMMA HandlePlayerOnlineStep ==
    ASSUME Inv, NEW m \in wire, HandlePlayerOnline(m)
    PROVE  Inv'
<1> DEFINE l == [p \in Listed \cup {m.player} |->
                    IF p = m.player THEN [online |-> TRUE, seen |-> 0] ELSE list[p]]
<1>1. /\ dealer = "up" /\ dealer' = dealer /\ m.online /\ wire' = wire \ {m}
      /\ heard' = heard \cup ({m.player} \cap inRoom)
      /\ inRoom' = inRoom /\ since' = since /\ quiet' = quiet /\ gone' = gone
  BY DEF HandlePlayerOnline
<1>2. list' = l /\ (Save(l) \/ file' = file)
  BY DEF HandlePlayerOnline, Save
<1>3. TypeOK
  BY DEF Inv
<1>4. m.player \in Players /\ m.age \in Nat /\ m.age <= MaxDelay
  BY <1>3, MessageShape
<1>5. ListOK(list) /\ Dated(list)
  BY <1>3, TypeParts DEF Inv, DatedInv
<1>6. DOMAIN l = Listed \cup {m.player} /\ l[m.player] = [online |-> TRUE, seen |-> 0]
  OBVIOUS
<1>7. \A p \in Listed : p # m.player => l[p] = list[p]
  OBVIOUS
<1> HIDE DEF l
<1>8. [online |-> TRUE, seen |-> 0] \in Entry /\ l[m.player].seen = 0
  BY <1>6, Numbers DEF Entry
<1>9. ListOK(l)
  <2>1. DOMAIN l \subseteq Players
    BY <1>4, <1>5, <1>6 DEF ListOK, Listed
  <2>2. \A p \in DOMAIN l : l[p] \in Entry
    BY <1>5, <1>6, <1>7, <1>8 DEF ListOK, Listed
  <2>3. l = [p \in DOMAIN l |-> l[p]]
    BY DEF l
  <2>4. QED
    BY <2>1, <2>2, <2>3 DEF ListOK
<1>10. Dated(l)
  <2>1. gone[m.player] <= 0 + MaxDelay
    <3>1. gone[m.player] <= m.age /\ gone[m.player] \in Nat
      BY <1>1, <1>3, <1>4, TypeParts DEF Inv, WireInv
    <3>2. QED
      BY <1>4, <3>1, Numbers
  <2>2. QED
    BY <1>5, <1>6, <1>7, <1>8, <2>1 DEF Dated, Listed
<1>11. ListOK(list') /\ (file' # Torn => ListOK(file')) /\ DatedInv'
  <2>1. CASE Save(l)
    BY <1>1, <1>9, <1>10, <2>1, SaveStep
  <2>2. CASE file' = file
    BY <1>1, <1>2, <1>3, <1>9, <1>10, <2>2, TypeParts DEF Inv, DatedInv, Dated
  <2>3. QED
    BY <1>2, <2>1, <2>2
<1>12. TypeOK'
  BY <1>1, <1>3, <1>11 DEF TypeOK, ListOK, Listed
<1>13. LoopInv'
  BY <1>1 DEF Inv, LoopInv
<1>14. HeardInv'
  <2>1. ASSUME NEW p \in heard, p # m.player
        PROVE  p \in Listed' /\ Fresh(p)'
    <3>1. p \in Listed /\ Fresh(p)
      BY DEF Inv, HeardInv
    <3>2. list'[p] = list[p] /\ p \in Listed'
      BY <1>2, <1>6, <1>7, <2>1, <3>1 DEF Listed
    <3>3. \A n \in wire : n.player = p => n \in wire'
      BY <1>1, <2>1
    <3>4. Fresh(p)'
      BY <1>1, <3>1, <3>2, <3>3 DEF Fresh
    <3>5. QED
      BY <3>2, <3>4
  <2>2. m.player \in Listed' /\ Fresh(m.player)'
    <3>1. list'[m.player].seen <= quiet'[m.player]
      BY <1>1, <1>2, <1>3, <1>4, <1>8, TypeParts
    <3>2. QED
      BY <1>2, <1>6, <3>1 DEF Fresh, Listed
  <2>3. QED
    BY <1>1, <2>1, <2>2 DEF HeardInv
<1>15. WireInv'
  BY <1>1 DEF Inv, WireInv
<1>16. QED
  BY <1>11, <1>12, <1>13, <1>14, <1>15 DEF Inv

\* Steps that change who is online, and nothing else of the list.
LEMMA SameStampsStep ==
    ASSUME Inv, NEW l, ListOK(l), DOMAIN l = Listed, \A p \in Listed : l[p].seen = list[p].seen,
           Save(l), dealer = "up", wire' \subseteq wire, \A m \in wire : m.online => m \in wire',
           inRoom' = inRoom, since' = since, quiet' = quiet, gone' = gone,
           dealer' = dealer, heard' = heard
    PROVE  Inv'
<1>1. Dated(l)
  BY DEF Dated, Inv, DatedInv, Listed
<1>2. ListOK(list') /\ (file' # Torn => ListOK(file')) /\ DatedInv'
  BY <1>1, SaveStep
<1>3. list' = l
  BY DEF Save
<1>4. TypeOK'
  BY <1>2 DEF Inv, TypeOK, ListOK, Listed
<1>5. LoopInv'
  BY DEF Inv, LoopInv
<1>6. HeardInv'
  BY <1>3 DEF Inv, HeardInv, Fresh, Listed
<1>7. WireInv'
  BY DEF Inv, WireInv
<1>8. QED
  BY <1>2, <1>4, <1>5, <1>6, <1>7 DEF Inv

LEMMA HandlePlayerOfflineStep ==
    ASSUME Inv, NEW m \in wire, HandlePlayerOffline(m)
    PROVE  Inv'
<1>1. /\ dealer = "up" /\ ~m.online /\ wire' = wire \ {m}
      /\ inRoom' = inRoom /\ since' = since /\ quiet' = quiet /\ gone' = gone
      /\ dealer' = dealer /\ heard' = heard
  BY DEF HandlePlayerOffline
<1>2. TypeOK /\ ListOK(list)
  BY TypeParts DEF Inv
<1>3. CASE m.player \in Listed
  <2> DEFINE l == [list EXCEPT ![m.player].online = FALSE]
  <2>1. Save(l)
    BY <1>3 DEF HandlePlayerOffline
  <2>2. DOMAIN l = Listed
    BY DEF Listed
  <2>3. \A p \in Listed : l[p] = IF p = m.player THEN [list[p] EXCEPT !.online = FALSE] ELSE list[p]
    BY DEF Listed
  <2>4. \A p \in Listed : list[p] \in Entry
    BY <1>2 DEF ListOK, Listed
  <2>5. \A p \in Listed : l[p] \in Entry /\ l[p].seen = list[p].seen
    <3> HIDE DEF l
    <3>1. ASSUME NEW p \in Listed PROVE l[p] \in Entry /\ l[p].seen = list[p].seen
      <4>1. [list[p] EXCEPT !.online = FALSE] \in Entry
            /\ [list[p] EXCEPT !.online = FALSE].seen = list[p].seen
        BY <2>4 DEF Entry
      <4>2. CASE p = m.player
        BY <2>3, <4>1, <4>2
      <4>3. CASE p # m.player
        BY <2>3, <2>4, <4>3
      <4>4. QED
        BY <4>2, <4>3
    <3>2. QED
      BY <3>1
  <2>6. l = [p \in DOMAIN l |-> l[p]]
    OBVIOUS
  <2> HIDE DEF l
  <2>7. ListOK(l)
    BY <1>2, <2>2, <2>5, <2>6 DEF ListOK, Listed
  <2>8. QED
    BY <1>1, <2>1, <2>2, <2>5, <2>7, SameStampsStep
<1>4. CASE m.player \notin Listed
  <2>1. list' = list /\ file' = file
    BY <1>4 DEF HandlePlayerOffline
  <2>2. TypeOK'
    BY <1>1, <1>2, <2>1 DEF TypeOK, Listed
  <2>3. LoopInv' /\ WireInv' /\ DatedInv'
    BY <1>1, <2>1 DEF Inv, LoopInv, WireInv, DatedInv, Dated
  <2>4. HeardInv'
    BY <1>1, <2>1 DEF Inv, HeardInv, Fresh, Listed
  <2>5. QED
    BY <2>2, <2>3, <2>4 DEF Inv
<1>5. QED
  BY <1>3, <1>4

LEMMA MissStep ==
    ASSUME Inv, NEW m \in wire, Miss(m)
    PROVE  Inv'
<1>1. /\ dealer # "up" /\ wire' \subseteq wire
      /\ inRoom' = inRoom /\ since' = since /\ quiet' = quiet /\ gone' = gone
      /\ dealer' = dealer /\ heard' = heard /\ list' = list /\ file' = file
  BY DEF Miss
<1>2. TypeOK'
  BY <1>1 DEF Inv, TypeOK, Listed
<1>3. LoopInv' /\ WireInv' /\ DatedInv'
  BY <1>1 DEF Inv, LoopInv, WireInv, DatedInv, Dated
<1>4. HeardInv'
  BY <1>1 DEF Inv, HeardInv
<1>5. QED
  BY <1>2, <1>3, <1>4 DEF Inv

LEMMA WatchPlayersStateStep ==
    ASSUME Inv, WatchPlayersState
    PROVE  Inv'
<1>0. PICK some \in SUBSET AtLimit :
        Save([p \in Listed |-> [list[p] EXCEPT !.online = @ /\ p \notin Silent \cup some]])
  BY DEF WatchPlayersState
<1> DEFINE l == [p \in Listed |-> [list[p] EXCEPT !.online = @ /\ p \notin Silent \cup some]]
<1>1. /\ dealer = "up" /\ Save(l) /\ wire' = wire
      /\ inRoom' = inRoom /\ since' = since /\ quiet' = quiet /\ gone' = gone
      /\ dealer' = dealer /\ heard' = heard
  BY <1>0 DEF WatchPlayersState
<1>2. ListOK(list)
  BY TypeParts DEF Inv
<1>3. DOMAIN l = Listed /\ \A p \in Listed : l[p] = [list[p] EXCEPT !.online = list[p].online /\ p \notin Silent \cup some]
  OBVIOUS
<1>4. \A p \in Listed : list[p] \in Entry
  BY <1>2 DEF ListOK, Listed
<1>5. \A p \in Listed : l[p] \in Entry /\ l[p].seen = list[p].seen
  <2>1. \A p \in Listed : (list[p].online /\ p \notin Silent \cup some) \in BOOLEAN
    OBVIOUS
  <2>2. QED
    BY <1>3, <1>4, <2>1 DEF Entry
<1>6. l = [p \in DOMAIN l |-> l[p]]
  OBVIOUS
<1> HIDE DEF l
<1>7. ListOK(l)
  BY <1>2, <1>3, <1>5, <1>6 DEF ListOK, Listed
<1>8. QED
  BY <1>1, <1>3, <1>5, <1>7, SameStampsStep

LEMMA PublishStateStep ==
    ASSUME Inv, PublishState
    PROVE  Inv'
<1>1. ListOK(list)
  BY TypeParts DEF Inv
<1>2. /\ dealer = "up" /\ Save(list) /\ wire' = wire
      /\ inRoom' = inRoom /\ since' = since /\ quiet' = quiet /\ gone' = gone
      /\ dealer' = dealer /\ heard' = heard
  BY DEF PublishState
<1>3. QED
  BY <1>1, <1>2, SameStampsStep DEF Listed

LEMMA GoDownStep ==
    ASSUME Inv, GoDown
    PROVE  Inv'
<1>1. /\ dealer' = "down" /\ list' = Nobody /\ heard' = {} /\ wire' = wire /\ file' = file
      /\ inRoom' = inRoom /\ since' = since /\ quiet' = quiet /\ gone' = gone
  BY DEF GoDown
<1>2. DOMAIN Nobody = {} /\ Nobody \in [{} -> Entry]
  BY DEF Nobody
<1>3. TypeOK'
  BY <1>1, <1>2 DEF Inv, TypeOK, Listed
<1>4. LoopInv' /\ WireInv'
  BY <1>1 DEF Inv, LoopInv, WireInv
<1>5. DatedInv'
  BY <1>1, <1>2 DEF Inv, DatedInv, Dated
<1>6. HeardInv'
  BY <1>1 DEF HeardInv
<1>7. QED
  BY <1>3, <1>4, <1>5, <1>6 DEF Inv

LEMMA RejoinStep ==
    ASSUME Inv, Rejoin
    PROVE  Inv'
<1>1. /\ dealer = "down" /\ heard' = heard /\ wire' = wire
      /\ inRoom' = inRoom /\ since' = since /\ quiet' = quiet /\ gone' = gone
  BY DEF Rejoin
<1>2. heard = {} /\ TypeOK
  BY <1>1 DEF Inv, HeardInv
<1>3. LoopInv' /\ WireInv' /\ HeardInv'
  BY <1>1, <1>2 DEF Inv, LoopInv, WireInv, HeardInv
<1>4. CASE file = Torn
  <2>1. dealer' = "lost" /\ list' = list /\ file' = file
    BY <1>4 DEF Rejoin
  <2>2. TypeOK'
    BY <1>1, <1>2, <2>1 DEF TypeOK, Listed
  <2>3. DatedInv'
    BY <1>1, <2>1 DEF Inv, DatedInv, Dated
  <2>4. QED
    BY <1>3, <2>2, <2>3 DEF Inv
<1>5. CASE file # Torn
  <2>1. dealer' = "up" /\ Save(Loaded)
    BY <1>5 DEF Rejoin
  <2>2. ListOK(file) /\ Dated(file)
    BY <1>2, <1>5, TypeParts DEF Inv, DatedInv
  <2>3. DOMAIN Loaded = DOMAIN file
        /\ \A p \in DOMAIN file : Loaded[p] = [file[p] EXCEPT !.online = file[p].seen < playerOnlineTimeout]
    BY DEF Loaded
  <2>4. \A p \in DOMAIN file : Loaded[p] \in Entry /\ Loaded[p].seen = file[p].seen
    <3>1. \A p \in DOMAIN file : file[p] \in Entry
      BY <2>2 DEF ListOK
    <3>2. \A p \in DOMAIN file : (file[p].seen < playerOnlineTimeout) \in BOOLEAN
      OBVIOUS
    <3>3. QED
      BY <2>3, <3>1, <3>2 DEF Entry
  <2>5. Loaded = [p \in DOMAIN Loaded |-> Loaded[p]]
    BY DEF Loaded
  <2>6. ListOK(Loaded)
    BY <2>2, <2>3, <2>4, <2>5 DEF ListOK
  <2>7. Dated(Loaded)
    BY <2>2, <2>3, <2>4 DEF Dated
  <2>8. ListOK(list') /\ (file' # Torn => ListOK(file')) /\ DatedInv'
    BY <1>1, <2>1, <2>6, <2>7, SaveStep
  <2>9. TypeOK'
    BY <1>1, <1>2, <2>1, <2>8 DEF TypeOK, ListOK, Listed
  <2>10. QED
    BY <1>3, <2>8, <2>9 DEF Inv
<1>6. QED
  BY <1>4, <1>5

-----------------------------------------------------------------------------
(* Time *)

LEMMA AgedShape ==
    ASSUME NEW l, ListOK(l)
    PROVE  /\ ListOK(Aged(l)) /\ DOMAIN Aged(l) = DOMAIN l
           /\ \A p \in DOMAIN l :
                /\ Aged(l)[p].seen = TooOld \/ Aged(l)[p].seen = l[p].seen + 1
                /\ Aged(l)[p].seen <= l[p].seen + 1
<1> DEFINE s(p) == IF l[p].seen > playerOnlineTimeout THEN l[p].seen ELSE l[p].seen + 1
<1>1. DOMAIN Aged(l) = DOMAIN l /\ \A p \in DOMAIN l : Aged(l)[p] = [l[p] EXCEPT !.seen = s(p)]
  BY DEF Aged
<1>2. \A p \in DOMAIN l : l[p] \in Entry /\ l[p].seen \in Nat /\ l[p].seen <= TooOld
  BY EntryShape
<1>3. \A p \in DOMAIN l :
        /\ s(p) \in 0..TooOld /\ s(p) <= l[p].seen + 1
        /\ s(p) = TooOld \/ s(p) = l[p].seen + 1
  BY <1>2, Numbers DEF TooOld
<1> HIDE DEF s
<1>4. \A p \in DOMAIN l : Aged(l)[p] \in Entry /\ Aged(l)[p].seen = s(p)
  BY <1>1, <1>2, <1>3 DEF Entry
<1>5. Aged(l) = [p \in DOMAIN Aged(l) |-> Aged(l)[p]]
  BY DEF Aged
<1>6. ListOK(Aged(l))
  BY <1>1, <1>4, <1>5 DEF ListOK
<1>7. QED
  BY <1>1, <1>3, <1>4, <1>6

LEMMA TickStep ==
    ASSUME Inv, Tick
    PROVE  Inv'
<1>1. /\ \A p \in inRoom : since[p] < OnlineMessagePeriod
      /\ \A m \in wire : m.age < MaxDelay
      /\ since' = [p \in Players |-> IF p \in inRoom THEN since[p] + 1 ELSE 0]
      /\ quiet' = [p \in Players |-> IF p \in inRoom THEN quiet[p] + 1 ELSE 0]
      /\ gone' = [p \in Players |->
                   IF p \in inRoom THEN 0
                   ELSE IF gone[p] = LongGone THEN LongGone ELSE gone[p] + 1]
      /\ wire' = {[m EXCEPT !.age = m.age + 1] : m \in wire}
      /\ list' = Aged(list)
      /\ file' = IF file = Torn THEN Torn ELSE Aged(file)
      /\ inRoom' = inRoom /\ dealer' = dealer /\ heard' = heard
  BY DEF Tick
<1>2. TypeOK
  BY DEF Inv
<1>3. inRoom \subseteq Players /\ heard \subseteq inRoom
  BY <1>2 DEF TypeOK
<1>4. \A p \in Players : /\ gone[p] \in Nat /\ gone[p] <= LongGone
                         /\ since[p] \in Nat /\ quiet[p] \in Nat
  BY <1>2, TypeParts
<1>5. \A p \in inRoom : since'[p] = since[p] + 1 /\ quiet'[p] = quiet[p] + 1 /\ gone'[p] = 0
  BY <1>1, <1>3
<1>6. \A p \in Players : gone'[p] \in Nat /\ gone'[p] <= LongGone /\ gone'[p] <= gone[p] + 1
  <2>1. \A p \in Players : \/ gone'[p] = 0
                           \/ (gone'[p] = LongGone /\ gone[p] = LongGone)
                           \/ (gone'[p] = gone[p] + 1 /\ gone[p] # LongGone)
    BY <1>1
  <2>2. QED
    BY <1>4, <2>1, Numbers
<1>7. LoopInv'
  BY <1>1, <1>3, <1>4, <1>5, Numbers DEF Inv, LoopInv
<1>8. \A p \in inRoom : quiet[p] + 1 <= MaxQuiet /\ since[p] + 1 <= OnlineMessagePeriod
  BY <1>1, <1>3, <1>4, Numbers DEF Inv, LoopInv
<1>9. \A m \in wire : /\ [m EXCEPT !.age = m.age + 1] \in Message /\ m \in Message
                      /\ m.age \in Nat /\ m.player \in Players
  <2>1. ASSUME NEW m \in wire PROVE m \in Message /\ m.age \in Nat /\ m.age + 1 \in 0..MaxDelay
    BY <1>1, <1>2, MessageShape, Numbers
  <2>2. QED
    BY <2>1 DEF Message
<1>10. \A m \in wire : LET n == [m EXCEPT !.age = m.age + 1]
                       IN  n.player = m.player /\ n.online = m.online /\ n.age = m.age + 1
  BY <1>9 DEF Message
<1>11. ListOK(list) /\ Dated(list) /\ (file # Torn => ListOK(file) /\ Dated(file))
  BY <1>2, TypeParts DEF Inv, DatedInv
<1>12. ASSUME NEW l, ListOK(l), Dated(l)
       PROVE  \A p \in DOMAIN Aged(l) : \/ Aged(l)[p].seen = TooOld
                                        \/ gone'[p] <= Aged(l)[p].seen + MaxDelay
  <2>1. SUFFICES ASSUME NEW p \in DOMAIN l, Aged(l)[p].seen # TooOld
                 PROVE  gone'[p] <= Aged(l)[p].seen + MaxDelay
    BY <1>12, AgedShape
  <2>2. Aged(l)[p].seen = l[p].seen + 1
    BY <1>12, <2>1, AgedShape
  <2>3. p \in Players /\ l[p].seen \in Nat /\ l[p].seen <= TooOld
    BY <1>12, EntryShape
  <2>4. l[p].seen = TooOld \/ gone[p] <= l[p].seen + MaxDelay
    BY <1>12 DEF Dated
  <2>5. l[p].seen # TooOld
    <3>1. l[p].seen = TooOld => Aged(l)[p] = [l[p] EXCEPT !.seen = TooOld]
      BY Numbers DEF Aged, TooOld
    <3>2. l[p] \in Entry
      BY <1>12, EntryShape
    <3>3. QED
      BY <2>1, <3>1, <3>2 DEF Entry
  <2>6. gone[p] <= l[p].seen + MaxDelay /\ gone'[p] <= gone[p] + 1 /\ gone[p] \in Nat /\ gone'[p] \in Nat
    BY <1>4, <1>6, <2>3, <2>4, <2>5
  <2>7. gone'[p] <= (l[p].seen + 1) + MaxDelay
    BY <2>3, <2>6, Numbers
  <2>8. QED
    BY <2>2, <2>7
<1>13. DatedInv'
  BY <1>1, <1>11, <1>12 DEF DatedInv, Dated
<1>14. TypeOK'
  <2>1. since' \in [Players -> 0..OnlineMessagePeriod]
    BY <1>1, <1>3, <1>4, <1>8, Numbers
  <2>2. quiet' \in [Players -> 0..MaxQuiet]
    BY <1>1, <1>3, <1>4, <1>8, Numbers
  <2>3. gone' \in [Players -> 0..LongGone]
    <3>1. \A p \in Players : gone'[p] \in 0..LongGone
      BY <1>6, Numbers
    <3>2. gone' = [p \in Players |-> gone'[p]]
      BY <1>1
    <3>3. QED
      BY <3>1, <3>2
  <2>4. wire' \subseteq Message
    BY <1>1, <1>9
  <2>5. ListOK(list') /\ DOMAIN list' = Listed /\ (file' # Torn => ListOK(file'))
    BY <1>1, <1>11, AgedShape DEF Listed
  <2>6. QED
    BY <1>1, <1>2, <2>1, <2>2, <2>3, <2>4, <2>5 DEF TypeOK, ListOK, Listed
<1>15. WireInv'
  <2>1. ASSUME NEW n \in wire', n.online PROVE gone'[n.player] <= n.age
    <3>1. PICK m \in wire : n = [m EXCEPT !.age = m.age + 1]
      BY <1>1
    <3>2. n.player = m.player /\ m.online /\ n.age = m.age + 1 /\ m.player \in Players /\ m.age \in Nat
      BY <1>9, <1>10, <2>1, <3>1
    <3>3. gone[m.player] <= m.age
      BY <3>2 DEF Inv, WireInv
    <3>4. gone'[m.player] <= m.age + 1
      BY <1>4, <1>6, <3>2, <3>3
    <3>5. QED
      BY <3>2, <3>4
  <2>2. QED
    BY <2>1 DEF WireInv
<1>16. HeardInv'
  <2>1. ASSUME NEW p \in heard PROVE p \in Listed' /\ Fresh(p)'
    <3>1. p \in Listed /\ Fresh(p) /\ p \in inRoom /\ p \in Players
      BY <1>3 DEF Inv, HeardInv
    <3>2. p \in Listed' /\ list'[p].seen <= list[p].seen + 1
      BY <1>1, <1>11, <3>1, AgedShape DEF Listed
    <3>3. list[p].seen \in Nat /\ list'[p].seen \in Nat
      BY <1>1, <1>11, <3>1, AgedShape, EntryShape DEF Listed
    <3>4. quiet'[p] = quiet[p] + 1 /\ quiet[p] \in Nat
      BY <1>4, <1>5, <3>1
    <3>5. CASE list[p].seen <= quiet[p]
      <4>1. list'[p].seen <= quiet'[p]
        BY <3>2, <3>3, <3>4, <3>5
      <4>2. QED
        BY <3>2, <4>1 DEF Fresh
    <3>6. CASE \E m \in wire : /\ m.player = p /\ m.online /\ m.age = quiet[p]
                               /\ list[p].seen <= MaxQuiet + m.age
      <4>1. PICK m \in wire : /\ m.player = p /\ m.online /\ m.age = quiet[p]
                              /\ list[p].seen <= MaxQuiet + m.age
        BY <3>6
      <4> DEFINE n == [m EXCEPT !.age = m.age + 1]
      <4>2. n \in wire' /\ n.player = p /\ n.online /\ n.age = m.age + 1 /\ m.age \in Nat
        BY <1>1, <1>9, <1>10, <4>1
      <4> HIDE DEF n
      <4>3. list'[p].seen <= MaxQuiet + (m.age + 1)
        BY <3>2, <3>3, <4>1, <4>2, Numbers
      <4>4. n.age = quiet'[p] /\ list'[p].seen <= MaxQuiet + n.age
        BY <3>4, <4>1, <4>2, <4>3
      <4>5. QED
        BY <3>2, <4>2, <4>4 DEF Fresh
    <3>7. QED
      BY <3>1, <3>5, <3>6 DEF Fresh
  <2>2. dealer' # "up" => heard' = {}
    BY <1>1 DEF Inv, HeardInv
  <2>3. QED
    BY <1>1, <2>1, <2>2 DEF HeardInv
<1>17. QED
  BY <1>7, <1>13, <1>14, <1>15, <1>16 DEF Inv

-----------------------------------------------------------------------------
(* Theorems *)

LEMMA InitInv == Init => Inv
<1>1. SUFFICES ASSUME Init PROVE Inv
  OBVIOUS
<1>2. DOMAIN Nobody = {} /\ Nobody \in [{} -> Entry]
  BY DEF Nobody
<1>3. inRoom = {} /\ wire = {} /\ heard = {} /\ list = Nobody /\ file = Nobody /\ dealer = "up"
  BY <1>1 DEF Init
<1>4. TypeOK
  BY <1>1, <1>2, <1>3, Numbers DEF Init, TypeOK, Listed
<1>5. LoopInv /\ HeardInv /\ WireInv /\ DatedInv
  BY <1>2, <1>3 DEF LoopInv, HeardInv, WireInv, DatedInv, Dated
<1>6. QED
  BY <1>4, <1>5 DEF Inv

LEMMA NextInv == Inv /\ [Next]_vars => Inv'
<1>1. SUFFICES ASSUME Inv, [Next]_vars PROVE Inv'
  OBVIOUS
<1>2. CASE \E p \in Players : JoinRoom(p)
  BY <1>1, <1>2, JoinRoomStep
<1>3. CASE \E p \in Players : PublishOnline(p)
  BY <1>1, <1>3, PublishOnlineStep
<1>4. CASE \E p \in Players : LeaveRoom(p)
  BY <1>1, <1>4, LeaveRoomStep
<1>5. CASE \E m \in wire : HandlePlayerOnline(m)
  BY <1>1, <1>5, HandlePlayerOnlineStep
<1>6. CASE \E m \in wire : HandlePlayerOffline(m)
  BY <1>1, <1>6, HandlePlayerOfflineStep
<1>7. CASE \E m \in wire : Miss(m)
  BY <1>1, <1>7, MissStep
<1>8. CASE WatchPlayersState
  BY <1>1, <1>8, WatchPlayersStateStep
<1>9. CASE PublishState
  BY <1>1, <1>9, PublishStateStep
<1>10. CASE GoDown
  BY <1>1, <1>10, GoDownStep
<1>11. CASE Rejoin
  BY <1>1, <1>11, RejoinStep
<1>12. CASE Tick
  BY <1>1, <1>12, TickStep
<1>13. CASE UNCHANGED vars
  <2>1. TypeOK'
    BY <1>1, <1>13 DEF vars, Inv, TypeOK, Listed
  <2>2. LoopInv' /\ WireInv' /\ DatedInv'
    BY <1>1, <1>13 DEF vars, Inv, LoopInv, WireInv, DatedInv, Dated
  <2>3. HeardInv'
    BY <1>1, <1>13 DEF vars, Inv, HeardInv, Fresh, Listed
  <2>4. QED
    BY <2>1, <2>2, <2>3 DEF Inv
<1>14. QED
  BY <1>1, <1>2, <1>3, <1>4, <1>5, <1>6, <1>7, <1>8, <1>9, <1>10, <1>11, <1>12, <1>13 DEF Next

LEMMA InvHolds == Spec => []Inv
<1>1. Init => Inv
  BY InitInv
<1>2. Inv /\ [Next]_vars => Inv'
  BY NextInv
<1>3. QED
  BY <1>1, <1>2, PTL DEF Spec

\* Every step, of players, dealer, network or time, keeps all variables to their
\* values, and there is a list only while there is a dealer.
THEOREM TypeCorrect == Spec => []TypeOK
<1>1. Inv => TypeOK
  BY DEF Inv
<1>2. QED
  BY <1>1, InvHolds, PTL

\* The periods of publishOnlineState and watchPlayersStateLoop fit together: a
\* player who stays and was heard of once is not marked offline, for any timeout
\* longer than the longest silence and the longest delay together.
THEOREM StayersHeard == Spec => []StayersAreHeard
<1>1. ASSUME Inv PROVE StayersAreHeard
  <2>1. SUFFICES ASSUME NEW p \in heard PROVE p \in Listed /\ p \notin Silent \cup AtLimit
    BY DEF StayersAreHeard
  <2>2. p \in Listed /\ Fresh(p) /\ p \in Players
    BY <1>1 DEF Inv, HeardInv, TypeOK
  <2>3. list[p].seen \in Nat /\ quiet[p] \in Nat /\ quiet[p] <= MaxQuiet
    BY <1>1, <2>2, TypeParts, EntryShape DEF Inv, Listed
  <2>4. list[p].seen < playerOnlineTimeout
    <3>1. CASE list[p].seen <= quiet[p]
      BY <2>3, <3>1, Numbers
    <3>2. CASE \E m \in wire : list[p].seen <= MaxQuiet + m.age
      <4>1. PICK m \in wire : list[p].seen <= MaxQuiet + m.age
        BY <3>2
      <4>2. m.age \in Nat /\ m.age <= MaxDelay
        BY <1>1, MessageShape DEF Inv
      <4>3. QED
        BY <2>3, <4>1, <4>2, Numbers
    <3>3. QED
      BY <2>2, <3>1, <3>2 DEF Fresh
  <2>5. QED
    BY <2>2, <2>3, <2>4, Numbers DEF Silent, AtLimit
<1>2. QED
  BY <1>1, InvHolds, PTL

\* Time stamps never make a player younger than its last message, in the list or
\* in the file it was loaded from: nobody who left is online for longer than the
\* timeout and the delay of that message.
THEOREM OnlineHereLately == Spec => []OnlineWereHereLately
<1>1. ASSUME Inv PROVE OnlineWereHereLately
  <2>1. SUFFICES ASSUME NEW p \in Listed, list[p].online, p \notin Silent
                 PROVE  gone[p] <= playerOnlineTimeout + MaxDelay
    BY DEF OnlineWereHereLately
  <2>2. p \in Players /\ list[p].seen \in Nat /\ gone[p] \in Nat
    BY <1>1, TypeParts, EntryShape DEF Inv, Listed
  <2>3. list[p].seen <= playerOnlineTimeout
    BY <2>1, <2>2, Numbers DEF Silent
  <2>4. list[p].seen = TooOld \/ gone[p] <= list[p].seen + MaxDelay
    BY <1>1 DEF Inv, DatedInv, Dated, Listed
  <2>5. QED
    BY <2>2, <2>3, <2>4, Numbers DEF TooOld
<1>2. QED
  BY <1>1, InvHolds, PTL

=============================================================================
