---------------------------- MODULE StartupProofs ----------------------------
(***************************************************************************)
(* Proofs about Startup, for every number of ids, names and peers and any  *)
(* size of the buffer.                                                     *)
(*                                                                         *)
(* A player keeps its id over restarts, renames and failed writes, as long *)
(* as the file itself was not spoiled: the id last saved is in the file,   *)
(* and once the storage is initialised in memory (IdInv).                  *)
(*                                                                         *)
(* Of the routines that read the status channel and the messages they      *)
(* become (a bag), there is one at a time (OneTurn), whose status is then  *)
(* the last that left the channel: statuses are shown in the order of the  *)
(* channel, and no wait for peers is left without a message to end it.     *)
(***************************************************************************)
EXTENDS Startup, FiniteSetTheorems, TLAPS

IdInv ==
    /\ flags \in Flags
    /\ stored \in PlayerRecord
    /\ file \in PlayerRecord \cup {Missing, Torn}
    /\ id # Empty => file \in PlayerRecord /\ file.id = id
    /\ ~flags.anonymous /\ id # Empty /\ pc \in {"player", "done"} => stored.id = id

\* A write that fails leaves the file alone or spoils it.
LEMMA FailedWrite ==
    ASSUME IdInv, NotWritten
    PROVE  /\ file' \in PlayerRecord \cup {Missing, Torn}
           /\ id' # Empty => id' = id /\ file' = file
BY DEF IdInv, NotWritten

LEMMA InitializeStorageStep ==
    ASSUME IdInv, InitializeStorage
    PROVE  IdInv'
<1>1. NoPlayer \in PlayerRecord /\ NoPlayer.id = Empty
  BY DEF NoPlayer, PlayerRecord
<1>2. flags' = flags /\ pc = "storage"
  BY DEF InitializeStorage
<1>3. CASE UNCHANGED <<file, stored, id>> /\ (flags.anonymous \/ pc' = "fatal")
  BY <1>2, <1>3 DEF IdInv
<1>4. CASE /\ file # Torn /\ UNCHANGED <<file, id>>
           /\ stored' = IF file = Missing THEN NoPlayer ELSE file
  BY <1>1, <1>2, <1>4, NoFileIsNoPlayer DEF IdInv
<1>5. CASE /\ file = Torn /\ stored' = NoPlayer
           /\ Written(NoPlayer) \/ (NotWritten /\ pc' = "fatal")
  <2>1. id = Empty
    BY <1>5, NoFileIsNoPlayer DEF IdInv
  <2>2. CASE Written(NoPlayer)
    BY <1>1, <1>2, <1>5, <2>1, <2>2 DEF Written, IdInv
  <2>3. CASE NotWritten /\ pc' = "fatal"
    BY <1>1, <1>2, <1>5, <2>1, <2>3, FailedWrite DEF IdInv
  <2>4. QED
    BY <1>5, <2>2, <2>3
<1>6. QED
  BY <1>3, <1>4, <1>5 DEF InitializeStorage

LEMMA LoadPlayerStep ==
    ASSUME IdInv, LoadPlayer
    PROVE  /\ IdInv'
           /\ ~flags.anonymous /\ id # Empty /\ pc' = "done" => player'.id = id
<1>1. flags' = flags /\ pc = "player"
  BY DEF LoadPlayer
<1>2. \A i : Named(i).id = i
  BY DEF Named
<1>3. CASE /\ ~flags.anonymous /\ stored.id # Empty
           /\ Initialized(Named(stored.id))
           /\ UNCHANGED <<file, stored, id>>
  BY <1>1, <1>2, <1>3 DEF IdInv, Initialized
<1>4. ASSUME NEW i \in PlayerIDs \ {id}, flags.anonymous,
             Initialized(Named(i)), UNCHANGED <<file, stored, id>>
      PROVE  IdInv'
  BY <1>1, <1>4 DEF IdInv
<1>5. ASSUME NEW i \in PlayerIDs \ {id}, ~flags.anonymous, stored.id = Empty,
             stored' = [stored EXCEPT !.id = i], Written(stored') \/ (NotWritten /\ pc' = "fatal")
      PROVE  IdInv' /\ id = Empty
  <2>1. id = Empty
    BY <1>1, <1>5 DEF IdInv
  <2>2. stored' \in PlayerRecord
    <3>1. stored \in PlayerRecord /\ i \in PlayerIDs /\ stored' = [stored EXCEPT !.id = i]
      BY <1>5 DEF IdInv
    <3>2. QED
      BY <3>1 DEF PlayerRecord
  <2>3. CASE Written(stored')
    BY <1>1, <2>1, <2>2, <2>3 DEF IdInv, Written
  <2>4. CASE NotWritten /\ pc' = "fatal"
    BY <1>1, <2>1, <2>2, <2>4, FailedWrite DEF IdInv
  <2>5. QED
    BY <1>5, <2>1, <2>3, <2>4
<1> DEFINE New(i) ==
             \/ flags.anonymous /\ Initialized(Named(i)) /\ UNCHANGED <<file, stored, id>>
             \/ /\ ~flags.anonymous /\ stored.id = Empty
                /\ stored' = [stored EXCEPT !.id = i]
                /\ \/ Written(stored') /\ Initialized(Named(i))
                   \/ NotWritten /\ pc' = "fatal" /\ UNCHANGED <<player, inbox>>
<1>6. ASSUME NEW i \in PlayerIDs \ {id}, New(i)
      PROVE  IdInv' /\ (~flags.anonymous => id = Empty)
  <2>1. CASE flags.anonymous
    <3>1. Initialized(Named(i)) /\ UNCHANGED <<file, stored, id>>
      BY <1>6, <2>1
    <3>2. QED
      BY <1>4, <2>1, <3>1
  <2>2. CASE ~flags.anonymous
    <3>1. /\ stored.id = Empty /\ stored' = [stored EXCEPT !.id = i]
          /\ Written(stored') \/ (NotWritten /\ pc' = "fatal")
      BY <1>6, <2>2, Zenon DEF New
    <3>2. QED
      BY <1>5, <2>2, <3>1
  <2>3. QED
    BY <2>1, <2>2
<1>7. \/ /\ ~flags.anonymous /\ stored.id # Empty
         /\ Initialized(Named(stored.id))
         /\ UNCHANGED <<file, stored, id>>
      \/ \E i \in PlayerIDs \ {id} : New(i)
  BY DEF LoadPlayer
<1> HIDE DEF New
<1>8. QED
  BY <1>3, <1>6, <1>7

LEMMA RenamePlayerStep ==
    ASSUME IdInv, NEW name \in Names \cup {Empty}, RenamePlayer(name)
    PROVE  IdInv'
<1>1. flags' = flags /\ pc' = pc
  BY DEF RenamePlayer
<1>2. CASE flags.anonymous /\ UNCHANGED <<file, stored, id>>
  BY <1>1, <1>2 DEF IdInv
<1>3. CASE ~flags.anonymous /\ stored' = [stored EXCEPT !.name = name]
  <2>1. stored' \in PlayerRecord /\ stored'.id = stored.id
    BY <1>3 DEF IdInv, PlayerRecord
  <2>2. CASE Written(stored')
    BY <1>1, <2>1, <2>2 DEF IdInv, Written
  <2>3. CASE NotWritten
    BY <1>1, <2>1, <2>3, FailedWrite DEF IdInv
  <2>4. QED
    BY <1>3, <2>2, <2>3 DEF RenamePlayer
<1>4. QED
  BY <1>2, <1>3 DEF RenamePlayer

LEMMA RestartStep ==
    ASSUME IdInv, Restart
    PROVE  IdInv'
BY DEF IdInv, Restart, NoPlayer, PlayerRecord

\* Every other action.
LEMMA OtherSteps ==
    ASSUME IdInv,
           \/ StartTransport
           \/ \E p \in Peers : PeerConnection(p)
           \/ SendLastEvent \/ WaitForEvent
           \/ HandleInitialized \/ HandleNameEntered \/ HandlePeersFound
           \/ \E s \in AppStates : HandleAppState(s)
           \/ \E n \in 0..Cardinality(Peers) : HandleConnectionStatus(n)
           \/ \E name \in Names \cup {Empty} : KeyEnter(name)
    PROVE  IdInv' /\ ~(pc = "player" /\ pc' = "done")
<1>1. /\ UNCHANGED <<flags, file, stored, id>>
      /\ pc' = pc \/ pc' \in {"storage", "fatal"}
  BY DEF StartTransport, PeerConnection, SendLastEvent, WaitForEvent, HandleInitialized,
         HandleNameEntered, HandlePeersFound, HandleAppState, HandleConnectionStatus, KeyEnter,
         game
<1>2. QED
  BY <1>1 DEF IdInv

LEMMA IdInvInductive ==
    ASSUME IdInv, [Next]_vars
    PROVE  /\ IdInv'
           /\ ~flags.anonymous /\ id # Empty /\ pc = "player" /\ pc' = "done" => player'.id = id
<1>1. CASE UNCHANGED vars
  BY <1>1 DEF vars, game, IdInv
<1>2. CASE InitializeStorage
  BY <1>2, InitializeStorageStep DEF InitializeStorage
<1>3. CASE LoadPlayer
  BY <1>3, LoadPlayerStep
<1>4. ASSUME NEW name \in Names \cup {Empty}, RenamePlayer(name)
      PROVE  IdInv' /\ pc' = pc
  BY <1>4, RenamePlayerStep DEF RenamePlayer
<1>5. CASE Restart
  BY <1>5, RestartStep DEF Restart
<1>6. QED
  BY <1>1, <1>2, <1>3, <1>4, <1>5, OtherSteps DEF Next

\* A player who once has an id is loaded with it at every later start.
THEOREM IdentityKept == Spec => IdentityIsKept
<1>1. Init => IdInv
  BY DEF Init, IdInv, NoPlayer, PlayerRecord
<1>2. IdInv /\ [Next]_vars => IdInv'
  BY IdInvInductive
<1>3. IdInv /\ [Next]_vars =>
        [~flags.anonymous /\ id # Empty /\ pc = "player" /\ pc' = "done" => player'.id = id]_vars
  BY IdInvInductive
<1>4. QED
  BY <1>1, <1>2, <1>3, PTL DEF Spec, IdentityIsKept

-----------------------------------------------------------------------------
(* Messages on their way *)

Copies(m, B) == IF BagIn(m, B) THEN B[m] ELSE 0

LEMMA CopiesOfBag ==
    ASSUME NEW B, IsABag(B), NEW x
    PROVE  Copies(x, B) \in Nat /\ (BagIn(x, B) <=> Copies(x, B) > 0)
BY DEF Copies, BagIn, BagToSet, IsABag

LEMMA BagGains ==
    ASSUME NEW B, IsABag(B), NEW S
    PROVE  LET C == B (+) SetToBag(S)
           IN  /\ IsABag(C)
               /\ BagToSet(C) = BagToSet(B) \cup S
               /\ \A x : Copies(x, C) = Copies(x, B) + IF x \in S THEN 1 ELSE 0
<1> DEFINE C == B (+) SetToBag(S)
<1>1. /\ DOMAIN C = DOMAIN B \cup S
      /\ \A x \in DOMAIN C : C[x] = (IF x \in DOMAIN B THEN B[x] ELSE 0)
                                      + (IF x \in S THEN 1 ELSE 0)
  BY DEF (+), SetToBag
<1>2. C = [x \in DOMAIN C |-> C[x]]
  BY DEF (+), SetToBag
<1>3. \A x \in DOMAIN B : B[x] \in Nat /\ B[x] > 0
  BY DEF IsABag
<1> HIDE DEF C
<1>4. \A x \in DOMAIN C : C[x] \in Nat /\ C[x] > 0
  BY <1>1, <1>3
<1>5. IsABag(C)
  BY <1>2, <1>4 DEF IsABag
<1>6. ASSUME NEW x PROVE Copies(x, C) = Copies(x, B) + IF x \in S THEN 1 ELSE 0
  <2>1. CASE x \in DOMAIN C
    BY <1>1, <2>1 DEF Copies, BagIn, BagToSet
  <2>2. CASE x \notin DOMAIN C
    BY <1>1, <2>2 DEF Copies, BagIn, BagToSet
  <2>3. QED
    BY <2>1, <2>2
<1>7. QED
  BY <1>1, <1>5, <1>6 DEF C, BagToSet

LEMMA BagLoses ==
    ASSUME NEW B, IsABag(B), NEW m, BagIn(m, B)
    PROVE  LET C == B (-) SetToBag({m})
           IN  /\ IsABag(C)
               /\ BagToSet(C) \subseteq BagToSet(B)
               /\ \A x : Copies(x, C) = Copies(x, B) - IF x = m THEN 1 ELSE 0
<1> DEFINE C == B (-) SetToBag({m})
           left(x) == IF x \in {m} THEN B[x] - 1 ELSE B[x]
<1>1. C = [x \in {d \in DOMAIN B : left(d) > 0} |-> left(x)]
  BY DEF (-), SetToBag
<1>2. \A x \in DOMAIN B : B[x] \in Nat /\ B[x] > 0
  BY DEF IsABag
<1>3. m \in DOMAIN B
  BY DEF BagIn, BagToSet
<1> HIDE DEF C
<1>4. DOMAIN C = {d \in DOMAIN B : left(d) > 0} /\ \A x \in DOMAIN C : C[x] = left(x)
  BY <1>1
<1>5. \A x \in DOMAIN C : C[x] \in Nat /\ C[x] > 0
  BY <1>2, <1>4
<1>6. IsABag(C)
  <2>1. C = [x \in DOMAIN C |-> C[x]]
    BY <1>1
  <2>2. QED
    BY <1>5, <2>1 DEF IsABag
<1>7. ASSUME NEW x PROVE Copies(x, C) = Copies(x, B) - IF x = m THEN 1 ELSE 0
  <2>1. CASE x \in DOMAIN C
    BY <1>2, <1>4, <2>1 DEF Copies, BagIn, BagToSet
  <2>2. CASE x \in DOMAIN B /\ x \notin DOMAIN C
    <3>1. x = m /\ B[x] = 1
      BY <1>2, <1>4, <2>2
    <3>2. QED
      BY <2>2, <3>1 DEF Copies, BagIn, BagToSet
  <2>3. CASE x \notin DOMAIN B
    BY <1>3, <1>4, <2>3 DEF Copies, BagIn, BagToSet
  <2>4. QED
    BY <2>1, <2>2, <2>3
<1>8. QED
  BY <1>4, <1>6, <1>7 DEF C, BagToSet

-----------------------------------------------------------------------------
(* One goroutine at a time waits for a status *)

Statuses == 0..Cardinality(Peers)
Starting == pc \in {"transport", "storage", "player"}
Announced == OnTheWay(Finished("Initializing"))
Arriving(n) == OnTheWay(Status(n))

\* The turn to ask for the next status passes from the start of the program to
\* the message that ends it, to Init, to the goroutine that waits and to the
\* message it returns: only one of them has it.
OneTurn ==
    /\ Announced <= 1
    /\ \A n \in Statuses : Arriving(n) <= 1
    /\ \A k, n \in Statuses : Arriving(k) > 0 /\ Arriving(n) > 0 => k = n
    /\ \A n \in Statuses : Arriving(n) > 0 =>
         channel.waiters = 0 /\ unsent = None /\ Announced = 0 /\ ~Starting
    /\ channel.waiters = 1 => unsent = None /\ Announced = 0 /\ ~Starting
    /\ unsent # None => Announced = 0 /\ ~Starting
    /\ Announced > 0 => ~Starting

NetTypeOK ==
    /\ IsABag(inbox)
    /\ peers \subseteq Peers
    /\ channel \in [queue : Seq(Statuses), waiters : {0, 1}]
    /\ Len(channel.queue) <= StatusBuffer
    /\ unsent \in Statuses \cup {None}
    /\ shown \in Statuses

NetInv == NetTypeOK /\ OneTurn

LEMMA PeersAreCounted ==
    /\ Cardinality(Peers) \in Nat
    /\ 0 \in Statuses
    /\ \A Q \in SUBSET Peers : Cardinality(Q) \in Statuses
<1>1. Cardinality(Peers) \in Nat
  BY PeersFinite, FS_CardinalityType
<1>2. ASSUME NEW Q \in SUBSET Peers PROVE Cardinality(Q) \in Statuses
  <2>1. IsFiniteSet(Q) /\ Cardinality(Q) <= Cardinality(Peers)
    BY PeersFinite, FS_Subset
  <2>2. Cardinality(Q) \in Nat
    BY <2>1, FS_CardinalityType
  <2>3. QED
    BY <1>1, <2>1, <2>2 DEF Statuses
<1>3. QED
  BY <1>1, <1>2 DEF Statuses

\* What is on its way, counted.
LEMMA Counts ==
    ASSUME IsABag(inbox)
    PROVE  /\ Announced \in Nat /\ \A n : Arriving(n) \in Nat
           /\ \A m : OnTheWay(m) = Copies(m, inbox)
           /\ \A m : BagIn(m, inbox) => OnTheWay(m) > 0
<1>1. \A m : OnTheWay(m) = Copies(m, inbox)
  BY DEF OnTheWay, Copies
<1>2. QED
  BY <1>1, CopiesOfBag DEF Announced, Arriving

\* Messages of different kinds differ, and so do those of one kind.
LEMMA MessagesDiffer ==
    /\ \A n, s : Status(n) # Finished(s) /\ Status(n) # Entered(s)
    /\ \A s, t : Finished(s) # Entered(t)
    /\ \A s, t : Finished(s) = Finished(t) => s = t
    /\ \A n, k : Status(n) = Status(k) => n = k
BY DEF Status, Finished, Entered

LEMMA Sends ==
    ASSUME IsABag(inbox), NEW S, inbox' = inbox (+) SetToBag(S)
    PROVE  /\ IsABag(inbox')
           /\ Announced' = Announced + IF Finished("Initializing") \in S THEN 1 ELSE 0
           /\ \A n : Arriving(n)' = Arriving(n) + IF Status(n) \in S THEN 1 ELSE 0
<1>1. \A x : Copies(x, inbox') = Copies(x, inbox) + IF x \in S THEN 1 ELSE 0
  BY BagGains
<1>2. IsABag(inbox')
  BY BagGains
<1>3. \A x : OnTheWay(x) = Copies(x, inbox) /\ OnTheWay(x)' = Copies(x, inbox')
  BY DEF OnTheWay, Copies
<1>4. QED
  BY <1>1, <1>2, <1>3 DEF Announced, Arriving

LEMMA Handled ==
    ASSUME IsABag(inbox), NEW m, BagIn(m, inbox), NEW S, Replace(m, S)
    PROVE  /\ IsABag(inbox')
           /\ Announced' = Announced - (IF Finished("Initializing") = m THEN 1 ELSE 0)
                             + IF Finished("Initializing") \in S THEN 1 ELSE 0
           /\ \A n : Arriving(n)' = Arriving(n) - (IF Status(n) = m THEN 1 ELSE 0)
                             + IF Status(n) \in S THEN 1 ELSE 0
<1> DEFINE C == inbox (-) SetToBag({m})
<1>1. IsABag(C) /\ \A x : Copies(x, C) = Copies(x, inbox) - IF x = m THEN 1 ELSE 0
  BY BagLoses
<1>2. inbox' = C (+) SetToBag(S)
  BY DEF Replace
<1> HIDE DEF C
<1>3. \A x : Copies(x, inbox') = Copies(x, C) + IF x \in S THEN 1 ELSE 0
  BY <1>1, <1>2, BagGains
<1>4. IsABag(inbox')
  BY <1>1, <1>2, BagGains
<1>5. \A x : OnTheWay(x) = Copies(x, inbox) /\ OnTheWay(x)' = Copies(x, inbox')
  BY DEF OnTheWay, Copies
<1>6. QED
  BY <1>1, <1>3, <1>4, <1>5 DEF Announced, Arriving

\* Steps that neither take the turn nor pass it on.
LEMMA TurnStays ==
    ASSUME NetInv, UNCHANGED unsent, channel'.waiters = channel.waiters, Starting' => Starting,
           Announced' = Announced, \A n : Arriving(n)' = Arriving(n)
    PROVE  OneTurn'
BY DEF NetInv, OneTurn, Statuses

LEMMA InboxStays ==
    ASSUME NetInv, UNCHANGED <<inbox, unsent, channel>>, Starting' => Starting
    PROVE  OneTurn' /\ IsABag(inbox')
<1>1. Announced' = Announced /\ \A n : Arriving(n)' = Arriving(n)
  BY DEF Announced, Arriving, OnTheWay
<1>2. QED
  BY <1>1, TurnStays DEF NetInv, NetTypeOK

LEMMA SendsStay ==
    ASSUME NetInv, NEW S, inbox' = inbox (+) SetToBag(S),
           \A m \in S : \E s \in AppStates \ {"Initializing"} : m = Finished(s),
           UNCHANGED <<unsent, channel>>, Starting' => Starting
    PROVE  OneTurn' /\ IsABag(inbox')
<1>1. Finished("Initializing") \notin S /\ \A n : Status(n) \notin S
  BY MessagesDiffer
<1>2. Announced \in Nat /\ \A n : Arriving(n) \in Nat
  BY Counts DEF NetInv, NetTypeOK
<1>3. /\ IsABag(inbox') /\ Announced' = Announced + 0
      /\ \A n : Arriving(n)' = Arriving(n) + 0
  BY <1>1, Sends DEF NetInv, NetTypeOK
<1>4. Announced' = Announced /\ \A n : Arriving(n)' = Arriving(n)
  BY <1>2, <1>3
<1>5. QED
  BY <1>3, <1>4, TurnStays

LEMMA HandledStay ==
    ASSUME NetInv, NEW m, BagIn(m, inbox), NEW S, Replace(m, S),
           m # Finished("Initializing"), \A n : m # Status(n),
           Finished("Initializing") \notin S, \A n : Status(n) \notin S,
           UNCHANGED <<unsent, channel>>, Starting' => Starting
    PROVE  OneTurn' /\ IsABag(inbox')
<1>1. Announced \in Nat /\ \A n : Arriving(n) \in Nat
  BY Counts DEF NetInv, NetTypeOK
<1>2. /\ IsABag(inbox') /\ Announced' = Announced - 0 + 0
      /\ \A n : Arriving(n)' = Arriving(n) - 0 + 0
  BY Handled DEF NetInv, NetTypeOK
<1>3. Announced' = Announced /\ \A n : Arriving(n)' = Arriving(n)
  BY <1>1, <1>2
<1>4. QED
  BY <1>2, <1>3, TurnStays

LEMMA QuietSteps ==
    ASSUME NetInv, StartTransport \/ InitializeStorage
                   \/ \E name \in Names \cup {Empty} : RenamePlayer(name) \/ KeyEnter(name)
    PROVE  NetInv'
<1>1. CASE StartTransport \/ InitializeStorage
  <2>1. UNCHANGED <<inbox, net, shown>> /\ (Starting' => Starting)
    BY <1>1 DEF StartTransport, InitializeStorage, Starting
  <2>2. UNCHANGED <<inbox, unsent, channel, peers, shown>>
    BY <2>1 DEF net
  <2>3. OneTurn'
    BY <2>1, <2>2, InboxStays
  <2>4. QED
    BY <2>2, <2>3 DEF NetInv, NetTypeOK, Statuses
<1>2. ASSUME NEW name \in Names \cup {Empty}, RenamePlayer(name) PROVE NetInv'
  <2>1. UNCHANGED <<unsent, channel, peers, shown>> /\ pc' = pc
    BY <1>2 DEF RenamePlayer, net
  <2>2. UNCHANGED inbox \/ inbox' = inbox (+) SetToBag({Finished("InputPlayerName")})
    BY <1>2 DEF RenamePlayer
  <2>3. CASE UNCHANGED inbox
    <3>1. OneTurn' /\ IsABag(inbox')
      BY <2>1, <2>3, InboxStays DEF Starting
    <3>2. QED
      BY <2>1, <3>1 DEF NetInv, NetTypeOK, Statuses
  <2>4. CASE inbox' = inbox (+) SetToBag({Finished("InputPlayerName")})
    <3>1. "InputPlayerName" \in AppStates \ {"Initializing"} /\ (Starting' => Starting)
      BY <2>1 DEF AppStates, Starting
    <3>2. OneTurn' /\ IsABag(inbox')
      BY <2>1, <2>4, <3>1, SendsStay
    <3>3. QED
      BY <2>1, <3>2 DEF NetInv, NetTypeOK, Statuses
  <2>5. QED
    BY <2>2, <2>3, <2>4
<1>3. ASSUME NEW name \in Names \cup {Empty}, KeyEnter(name) PROVE NetInv'
  <2>1. UNCHANGED <<inbox, unsent, channel, peers, shown>> /\ pc' = pc
    BY <1>3 DEF KeyEnter, net
  <2>2. OneTurn'
    BY <2>1, InboxStays DEF Starting
  <2>3. QED
    BY <2>1, <2>2 DEF NetInv, NetTypeOK, Statuses
<1>4. QED
  BY <1>1, <1>2, <1>3

\* The start ends: the message that says so has the turn now.
LEMMA LoadPlayerPasses ==
    ASSUME NetInv, LoadPlayer
    PROVE  NetInv'
<1>1. UNCHANGED <<unsent, channel, peers, shown>> /\ Starting
  BY DEF LoadPlayer, net, Starting
<1>2. \/ UNCHANGED inbox /\ pc' = "fatal"
      \/ inbox' = inbox (+) SetToBag({Finished("Initializing")}) /\ pc' = "done"
  BY DEF LoadPlayer, Initialized
<1>3. CASE UNCHANGED inbox /\ pc' = "fatal"
  <2>1. OneTurn' /\ IsABag(inbox')
    BY <1>1, <1>3, InboxStays
  <2>2. QED
    BY <1>1, <2>1 DEF NetInv, NetTypeOK, Statuses
<1>4. CASE inbox' = inbox (+) SetToBag({Finished("Initializing")}) /\ pc' = "done"
  <2>1. Announced \in Nat /\ \A n : Arriving(n) \in Nat
    BY Counts DEF NetInv, NetTypeOK
  <2>2. /\ IsABag(inbox') /\ Announced' = Announced + 1
        /\ \A n : Arriving(n)' = Arriving(n) + 0
    <3>1. /\ Finished("Initializing") \in {Finished("Initializing")}
          /\ \A n : Status(n) \notin {Finished("Initializing")}
      BY MessagesDiffer
    <3>2. IsABag(inbox)
      BY DEF NetInv, NetTypeOK
    <3> DEFINE S == {Finished("Initializing")}
    <3> HIDE DEF S
    <3>3. /\ IsABag(inbox')
          /\ Announced' = Announced + IF Finished("Initializing") \in S THEN 1 ELSE 0
          /\ \A n : Arriving(n)' = Arriving(n) + IF Status(n) \in S THEN 1 ELSE 0
      BY <1>4, <3>2, Sends DEF S
    <3>4. QED
      BY <3>1, <3>3 DEF S
  <2>3. Announced = 0 /\ unsent = None /\ channel.waiters # 1
        /\ \A n \in Statuses : Arriving(n) = 0
    BY <1>1, <2>1 DEF NetInv, OneTurn
  <2>4. Announced' = 1 /\ (\A n \in Statuses : Arriving(n)' = 0) /\ ~Starting'
    BY <1>4, <2>2, <2>3 DEF Starting
  <2>5. OneTurn'
    BY <1>1, <2>3, <2>4 DEF OneTurn, Statuses
  <2>6. QED
    BY <1>1, <2>2, <2>5 DEF NetInv, NetTypeOK, Statuses
<1>5. QED
  BY <1>2, <1>3, <1>4

LEMMA PushKeeps ==
    ASSUME NetInv, NEW n \in Statuses, Push(n)
    PROVE  /\ channel' \in [queue : Seq(Statuses), waiters : {0, 1}]
           /\ Len(channel'.queue) <= StatusBuffer
           /\ channel'.waiters = channel.waiters
<1>1. channel.queue \in Seq(Statuses) /\ channel.waiters \in {0, 1}
  BY DEF NetInv, NetTypeOK
<1>2. channel' = [queue |-> Append(channel.queue, n), waiters |-> channel.waiters]
  BY DEF NetInv, NetTypeOK, Push
<1>3. Append(channel.queue, n) \in Seq(Statuses)
      /\ Len(Append(channel.queue, n)) = Len(channel.queue) + 1
  BY <1>1
<1>4. Len(channel.queue) + 1 <= StatusBuffer
  BY <1>1, BufferHoldsTwo DEF Push
<1>5. QED
  BY <1>1, <1>2, <1>3, <1>4

LEMMA PeerConnectionKeeps ==
    ASSUME NetInv, NEW p \in Peers, PeerConnection(p)
    PROVE  NetInv'
<1>1. UNCHANGED <<inbox, unsent, shown, pc>>
  BY DEF PeerConnection, game
<1>2. peers' \subseteq Peers
  BY DEF PeerConnection, NetInv, NetTypeOK
<1>3. Cardinality(peers') \in Statuses
  BY <1>2, PeersAreCounted
<1>4. /\ channel' \in [queue : Seq(Statuses), waiters : {0, 1}]
      /\ Len(channel'.queue) <= StatusBuffer
      /\ channel'.waiters = channel.waiters
  <2>1. CASE Subscribed
    BY <1>3, <2>1, PushKeeps DEF PeerConnection
  <2>2. CASE ~Subscribed
    BY <2>2 DEF PeerConnection, NetInv, NetTypeOK
  <2>3. QED
    BY <2>1, <2>2
<1>5. Announced' = Announced /\ \A n : Arriving(n)' = Arriving(n)
  BY <1>1 DEF Announced, Arriving, OnTheWay
<1>6. OneTurn'
  BY <1>1, <1>4, <1>5, TurnStays DEF Starting
<1>7. QED
  BY <1>1, <1>2, <1>4, <1>6 DEF NetInv, NetTypeOK, Statuses

\* Init has sent the status it read: a goroutine waits for the next.
LEMMA SendLastEventPasses ==
    ASSUME NetInv, SendLastEvent
    PROVE  NetInv'
<1>1. UNCHANGED <<inbox, peers, shown, pc>> /\ unsent \in Statuses /\ unsent' = None
  BY DEF SendLastEvent, game, NetInv, NetTypeOK
<1>2. /\ channel' \in [queue : Seq(Statuses), waiters : {0, 1}]
      /\ Len(channel'.queue) <= StatusBuffer
      /\ channel'.waiters = 1
  <2>1. channel.queue \in Seq(Statuses)
    BY DEF NetInv, NetTypeOK
  <2>2. channel' = [queue |-> Append(channel.queue, unsent), waiters |-> 1]
        /\ Len(channel.queue) < StatusBuffer
    BY DEF SendLastEvent
  <2>3. Append(channel.queue, unsent) \in Seq(Statuses)
        /\ Len(Append(channel.queue, unsent)) = Len(channel.queue) + 1
    BY <1>1, <2>1
  <2>4. Len(channel.queue) + 1 <= StatusBuffer
    BY <2>1, <2>2, BufferHoldsTwo
  <2>5. QED
    BY <2>2, <2>3, <2>4
<1>3. Announced' = Announced /\ \A n : Arriving(n)' = Arriving(n)
  BY <1>1 DEF Announced, Arriving, OnTheWay
<1>4. Announced \in Nat /\ \A n : Arriving(n) \in Nat
  BY Counts DEF NetInv, NetTypeOK
<1>5. unsent # None
  BY DEF SendLastEvent
<1>6. Announced = 0 /\ ~Starting /\ \A n \in Statuses : Arriving(n) = 0
  BY <1>4, <1>5 DEF NetInv, OneTurn
<1>7. ~Starting'
  BY <1>1, <1>6 DEF Starting
<1>8. OneTurn'
  BY <1>1, <1>3, <1>6, <1>7 DEF OneTurn, Statuses
<1>9. QED
  BY <1>1, <1>2, <1>8 DEF NetInv, NetTypeOK, Statuses

\* The goroutine returns with a status, which has the turn until it is handled.
LEMMA WaitForEventPasses ==
    ASSUME NetInv, WaitForEvent
    PROVE  NetInv'
<1> DEFINE k == Head(channel.queue)
<1>1. UNCHANGED <<peers, unsent, shown, pc>>
  BY DEF WaitForEvent, game
<1>2. channel.queue \in Seq(Statuses) /\ channel.queue # <<>> /\ channel.waiters = 1
  BY DEF WaitForEvent, NetInv, NetTypeOK
<1>3. k \in Statuses /\ Tail(channel.queue) \in Seq(Statuses)
      /\ Len(Tail(channel.queue)) = Len(channel.queue) - 1 /\ Len(channel.queue) \in Nat
  BY <1>2
<1>4. channel' = [queue |-> Tail(channel.queue), waiters |-> 0]
  BY <1>2 DEF WaitForEvent
<1>5. Len(channel.queue) - 1 <= StatusBuffer
  BY <1>3, BufferHoldsTwo DEF NetInv, NetTypeOK
<1>6. /\ channel' \in [queue : Seq(Statuses), waiters : {0, 1}]
      /\ Len(channel'.queue) <= StatusBuffer /\ channel'.waiters = 0
  BY <1>3, <1>4, <1>5
<1> DEFINE S == {Status(k)}
<1>7. inbox' = inbox (+) SetToBag(S)
  BY DEF WaitForEvent
<1> HIDE DEF k
<1>8. Finished("Initializing") \notin S /\ \A n : Status(n) \in S <=> n = k
  BY MessagesDiffer
<1> HIDE DEF S
<1>9. /\ IsABag(inbox')
      /\ Announced' = Announced + IF Finished("Initializing") \in S THEN 1 ELSE 0
      /\ \A n : Arriving(n)' = Arriving(n) + IF Status(n) \in S THEN 1 ELSE 0
  BY <1>7, Sends DEF NetInv, NetTypeOK
<1>10. Announced \in Nat /\ \A n : Arriving(n) \in Nat
  BY Counts DEF NetInv, NetTypeOK
<1>11. Announced = 0 /\ ~Starting /\ unsent = None /\ \A n \in Statuses : Arriving(n) = 0
  BY <1>2, <1>10 DEF NetInv, OneTurn
<1>12. Announced' = 0 /\ \A n \in Statuses : Arriving(n)' = IF n = k THEN 1 ELSE 0
  BY <1>8, <1>9, <1>11
<1>13. OneTurn'
  BY <1>1, <1>6, <1>11, <1>12 DEF OneTurn, Statuses, Starting
<1>14. QED
  BY <1>1, <1>6, <1>9, <1>13 DEF NetInv, NetTypeOK, Statuses

\* The message that ends the start is handled: Init has the turn.
LEMMA HandleInitializedPasses ==
    ASSUME NetInv, HandleInitialized
    PROVE  NetInv'
<1> DEFINE S == {Entered(IF player.name = Empty THEN "InputPlayerName" ELSE "WaitingForPeers")}
           m == Finished("Initializing")
<1>1. UNCHANGED <<peers, channel, shown, pc>> /\ unsent' = Cardinality(peers) /\ unsent = None
  BY DEF HandleInitialized, game, Handling
<1>2. BagIn(m, inbox) /\ Replace(m, S)
  BY DEF HandleInitialized, Handling
<1>3. m \notin S /\ \A n : Status(n) \notin S /\ Status(n) # m
  BY MessagesDiffer
<1> HIDE DEF S
<1>4. /\ IsABag(inbox')
      /\ Announced' = Announced - (IF Finished("Initializing") = m THEN 1 ELSE 0)
                        + IF Finished("Initializing") \in S THEN 1 ELSE 0
      /\ \A n : Arriving(n)' = Arriving(n) - (IF Status(n) = m THEN 1 ELSE 0)
                        + IF Status(n) \in S THEN 1 ELSE 0
  BY <1>2, Handled DEF NetInv, NetTypeOK
<1>5. Announced \in Nat /\ (\A n : Arriving(n) \in Nat) /\ Announced > 0
  BY <1>2, Counts DEF NetInv, NetTypeOK, Announced
<1>6. Announced = 1 /\ ~Starting /\ channel.waiters # 1 /\ \A n \in Statuses : Arriving(n) = 0
  BY <1>5 DEF NetInv, OneTurn
<1>7. Announced' = 0 /\ \A n \in Statuses : Arriving(n)' = 0
  BY <1>3, <1>4, <1>6
<1>8. unsent' \in Statuses
  BY <1>1, PeersAreCounted DEF NetInv, NetTypeOK
<1>9. OneTurn'
  BY <1>1, <1>6, <1>7 DEF OneTurn, Statuses, Starting
<1>10. QED
  BY <1>1, <1>4, <1>8, <1>9 DEF NetInv, NetTypeOK, Statuses

\* A status is handled: a goroutine waits again.
LEMMA HandleConnectionStatusPasses ==
    ASSUME NetInv, NEW k \in Statuses, HandleConnectionStatus(k)
    PROVE  NetInv'
<1> DEFINE S == WaitIsOver(state, k)
           m == Status(k)
<1>1. UNCHANGED <<peers, unsent, pc>> /\ shown' = k /\ unsent = None
  BY DEF HandleConnectionStatus, game, Handling
<1>2. BagIn(m, inbox) /\ Replace(m, S)
  BY DEF HandleConnectionStatus, Handling
<1>3. /\ m # Finished("Initializing") /\ Finished("Initializing") \notin S
      /\ \A n : Status(n) \notin S /\ (Status(n) = m <=> n = k)
  BY MessagesDiffer DEF WaitIsOver
<1> HIDE DEF S, m
<1>4. /\ IsABag(inbox')
      /\ Announced' = Announced - (IF Finished("Initializing") = m THEN 1 ELSE 0)
                        + IF Finished("Initializing") \in S THEN 1 ELSE 0
      /\ \A n : Arriving(n)' = Arriving(n) - (IF Status(n) = m THEN 1 ELSE 0)
                        + IF Status(n) \in S THEN 1 ELSE 0
  BY <1>2, Handled DEF NetInv, NetTypeOK
<1>5. Announced \in Nat /\ (\A n : Arriving(n) \in Nat) /\ Arriving(k) > 0
  BY <1>2, Counts DEF NetInv, NetTypeOK, Arriving, m
<1>6. /\ Announced = 0 /\ ~Starting /\ channel.waiters = 0 /\ Arriving(k) = 1
      /\ \A n \in Statuses : n # k => Arriving(n) = 0
  BY <1>5 DEF NetInv, OneTurn
<1>7. Announced' = 0 /\ \A n \in Statuses : Arriving(n)' = 0
  BY <1>3, <1>4, <1>6
<1>8. /\ channel' \in [queue : Seq(Statuses), waiters : {0, 1}]
      /\ Len(channel'.queue) <= StatusBuffer /\ channel'.waiters = 1
  <2>1. channel' = [channel EXCEPT !.waiters = @ + 1]
    BY DEF HandleConnectionStatus, WaitAgain
  <2>2. channel' = [queue |-> channel.queue, waiters |-> 1]
    BY <1>6, <2>1 DEF NetInv, NetTypeOK
  <2>3. QED
    BY <2>2 DEF NetInv, NetTypeOK
<1>9. OneTurn'
  BY <1>1, <1>6, <1>7, <1>8 DEF OneTurn, Statuses, Starting
<1>10. QED
  BY <1>1, <1>4, <1>8, <1>9 DEF NetInv, NetTypeOK, Statuses

\* Handlers of the other messages.
LEMMA OtherHandlersKeep ==
    ASSUME NetInv, HandleNameEntered \/ HandlePeersFound \/ \E s \in AppStates : HandleAppState(s)
    PROVE  NetInv'
<1>1. UNCHANGED <<peers, channel, unsent, shown, pc>>
  BY DEF HandleNameEntered, HandlePeersFound, HandleAppState, game, net
<1>2. \E m, S : /\ BagIn(m, inbox) /\ Replace(m, S)
                /\ m # Finished("Initializing") /\ \A n : m # Status(n)
                /\ Finished("Initializing") \notin S /\ \A n : Status(n) \notin S
  <2>1. CASE HandleNameEntered
    <3> DEFINE m == Finished("InputPlayerName")
               S == {Entered("WaitingForPeers")}
    <3>1. BagIn(m, inbox) /\ Replace(m, S)
      BY <2>1 DEF HandleNameEntered, Handling
    <3>2. m # Finished("Initializing") /\ Finished("Initializing") \notin S
          /\ (\A n : m # Status(n)) /\ \A n : Status(n) \notin S
      BY MessagesDiffer
    <3> HIDE DEF m, S
    <3>3. QED
      BY <3>1, <3>2
  <2>2. CASE HandlePeersFound
    <3> DEFINE m == Finished("WaitingForPeers")
               S == {Entered("Playing")}
    <3>1. BagIn(m, inbox) /\ Replace(m, S)
      BY <2>2 DEF HandlePeersFound, Handling
    <3>2. m # Finished("Initializing") /\ Finished("Initializing") \notin S
          /\ (\A n : m # Status(n)) /\ \A n : Status(n) \notin S
      BY MessagesDiffer
    <3> HIDE DEF m, S
    <3>3. QED
      BY <3>1, <3>2
  <2>3. ASSUME NEW s \in AppStates, HandleAppState(s)
        PROVE  \E m, S : /\ BagIn(m, inbox) /\ Replace(m, S)
                         /\ m # Finished("Initializing") /\ \A n : m # Status(n)
                         /\ Finished("Initializing") \notin S /\ \A n : Status(n) \notin S
    <3> DEFINE m == Entered(s)
               S == WaitIsOver(state, shown)
    <3>1. BagIn(m, inbox) /\ Replace(m, S)
      BY <2>3 DEF HandleAppState, Handling
    <3>2. m # Finished("Initializing") /\ Finished("Initializing") \notin S
          /\ (\A n : m # Status(n)) /\ \A n : Status(n) \notin S
      BY MessagesDiffer DEF WaitIsOver
    <3> HIDE DEF m, S
    <3>3. QED
      BY <3>1, <3>2
  <2>4. QED
    BY <2>1, <2>2, <2>3
<1>3. OneTurn' /\ IsABag(inbox')
  BY <1>1, <1>2, HandledStay DEF Starting
<1>4. QED
  BY <1>1, <1>3 DEF NetInv, NetTypeOK, Statuses

LEMMA RestartResets ==
    ASSUME NetInv, Restart
    PROVE  NetInv'
<1>1. /\ inbox' = EmptyBag /\ peers' = {} /\ unsent' = None /\ shown' = 0
      /\ channel' = [queue |-> <<>>, waiters |-> 0]
  BY DEF Restart
<1>2. IsABag(inbox') /\ \A m : OnTheWay(m)' = 0
  BY <1>1 DEF IsABag, EmptyBag, SetToBag, OnTheWay, BagIn, BagToSet
<1>3. OneTurn'
  BY <1>1, <1>2 DEF OneTurn, Announced, Arriving
<1>4. /\ channel' \in [queue : Seq(Statuses), waiters : {0, 1}]
      /\ Len(channel'.queue) <= StatusBuffer
  BY <1>1, BufferHoldsTwo
<1>5. QED
  BY <1>1, <1>2, <1>3, <1>4, PeersAreCounted DEF NetInv, NetTypeOK, Statuses

LEMMA NetInvStep ==
    ASSUME NetInv, [Next]_vars
    PROVE  NetInv'
<1>1. CASE UNCHANGED vars
  <2>1. UNCHANGED <<inbox, peers, channel, unsent, shown, pc>>
    BY <1>1 DEF vars, game, net
  <2>2. OneTurn'
    BY <2>1, InboxStays DEF Starting
  <2>3. QED
    BY <2>1, <2>2 DEF NetInv, NetTypeOK, Statuses
<1>2. CASE StartTransport \/ InitializeStorage
  BY <1>2, QuietSteps
<1>3. CASE LoadPlayer
  BY <1>3, LoadPlayerPasses
<1>4. ASSUME NEW name \in Names \cup {Empty}, RenamePlayer(name) \/ KeyEnter(name) PROVE NetInv'
  BY <1>4, QuietSteps
<1>5. ASSUME NEW p \in Peers, PeerConnection(p) PROVE NetInv'
  BY <1>5, PeerConnectionKeeps
<1>6. CASE SendLastEvent
  BY <1>6, SendLastEventPasses
<1>7. CASE WaitForEvent
  BY <1>7, WaitForEventPasses
<1>8. CASE HandleInitialized
  BY <1>8, HandleInitializedPasses
<1>9. CASE HandleNameEntered \/ HandlePeersFound \/ \E s \in AppStates : HandleAppState(s)
  BY <1>9, OtherHandlersKeep
<1>10. ASSUME NEW n \in 0..Cardinality(Peers), HandleConnectionStatus(n) PROVE NetInv'
  BY <1>10, HandleConnectionStatusPasses DEF Statuses
<1>11. CASE Restart
  BY <1>11, RestartResets
<1>12. QED
  BY <1>1, <1>2, <1>3, <1>4, <1>5, <1>6, <1>7, <1>8, <1>9, <1>10, <1>11 DEF Next

LEMMA NetInvStarts == Init => NetInv
<1> SUFFICES ASSUME Init PROVE NetInv
  OBVIOUS
<1>1. IsABag(inbox) /\ \A m : OnTheWay(m) = 0
  BY DEF Init, IsABag, EmptyBag, SetToBag, OnTheWay, BagIn, BagToSet
<1>2. OneTurn
  BY <1>1 DEF Init, OneTurn, Announced, Arriving
<1>3. /\ channel \in [queue : Seq(Statuses), waiters : {0, 1}]
      /\ Len(channel.queue) <= StatusBuffer
  BY BufferHoldsTwo DEF Init
<1>4. QED
  BY <1>1, <1>2, <1>3, PeersAreCounted DEF Init, NetInv, NetTypeOK, Statuses

\* One goroutine at most waits for a status, and one at most brings one: the
\* statuses are shown in the order they were sent in (WaitForMessage in Init and Update
\* of the event handler).
THEOREM OneWaits == Spec => []NetInv
BY NetInvStarts, NetInvStep, PTL DEF Spec

-----------------------------------------------------------------------------
(* The other variables *)

OtherTypeOK ==
    /\ player \in PlayerRecord
    /\ pc \in {"transport", "storage", "player", "done", "fatal"}
    /\ IsABag(renames) /\ BagToSet(renames) \subseteq Names \cup {Empty}
    /\ state \in AppStates
    /\ focused \in BOOLEAN
    /\ id \in PlayerIDs \cup {Empty}

LEMMA WritesKeepTypes ==
    ASSUME OtherTypeOK, NEW r \in PlayerRecord, Written(r) \/ NotWritten
    PROVE  id' \in PlayerIDs \cup {Empty}
BY DEF OtherTypeOK, PlayerRecord, Written, NotWritten

LEMMA OtherTypes ==
    ASSUME IdInv, OtherTypeOK, [Next]_vars
    PROVE  OtherTypeOK'
<1>1. NoPlayer \in PlayerRecord
  BY DEF NoPlayer, PlayerRecord
<1>2. stored \in PlayerRecord /\ flags \in Flags
  BY DEF IdInv
<1>3. \A i \in PlayerIDs \cup {Empty} : Named(i) \in PlayerRecord
  BY <1>2 DEF Named, Flags, PlayerRecord
<1>4. CASE InitializeStorage
  <2>1. UNCHANGED <<player, renames, state, focused>>
    BY <1>4 DEF InitializeStorage, ui
  <2>2. pc' \in {"player", "fatal"}
    BY <1>4 DEF InitializeStorage
  <2>3. id' = id \/ Written(NoPlayer) \/ NotWritten
    BY <1>4 DEF InitializeStorage
  <2>4. id' \in PlayerIDs \cup {Empty}
    BY <1>1, <2>3, WritesKeepTypes DEF OtherTypeOK
  <2>5. QED
    BY <2>1, <2>2, <2>4 DEF OtherTypeOK
<1>5. CASE LoadPlayer
  <2>1. UNCHANGED <<renames, state, focused>> /\ pc' \in {"done", "fatal"}
    BY <1>5 DEF LoadPlayer, Initialized, ui
  <2>2. player' = player \/ \E i \in PlayerIDs \cup {Empty} : player' = Named(i)
    <3>1. stored.id \in PlayerIDs \cup {Empty}
      BY <1>2 DEF PlayerRecord
    <3>2. QED
      BY <1>5, <3>1 DEF LoadPlayer, Initialized
  <2>3. \A i \in PlayerIDs : [stored EXCEPT !.id = i] \in PlayerRecord
    BY <1>2 DEF PlayerRecord
  <2>4. id' = id \/ \E i \in PlayerIDs : /\ stored' = [stored EXCEPT !.id = i]
                                         /\ Written(stored') \/ NotWritten
    BY <1>5 DEF LoadPlayer
  <2>5. id' \in PlayerIDs \cup {Empty}
    BY <2>3, <2>4, WritesKeepTypes DEF OtherTypeOK
  <2>6. player' \in PlayerRecord
    BY <1>3, <2>2 DEF OtherTypeOK
  <2>7. QED
    BY <2>1, <2>5, <2>6 DEF OtherTypeOK
<1>6. ASSUME NEW name \in Names \cup {Empty}, RenamePlayer(name) PROVE OtherTypeOK'
  <2>1. UNCHANGED <<pc, state, focused>>
    BY <1>6 DEF RenamePlayer, ui
  <2>2. BagIn(name, renames) /\ renames' = renames (-) SetToBag({name})
    BY <1>6 DEF RenamePlayer
  <2>3. IsABag(renames') /\ BagToSet(renames') \subseteq Names \cup {Empty}
    BY <2>2, BagLoses DEF OtherTypeOK
  <2>4. player' = player \/ player' = [player EXCEPT !.name = name]
    BY <1>6 DEF RenamePlayer
  <2>5. player' \in PlayerRecord
    BY <2>4 DEF OtherTypeOK, PlayerRecord
  <2>6. [stored EXCEPT !.name = name] \in PlayerRecord
    BY <1>2 DEF PlayerRecord
  <2>7. id' = id \/ (stored' = [stored EXCEPT !.name = name] /\ (Written(stored') \/ NotWritten))
    BY <1>6 DEF RenamePlayer
  <2>8. id' \in PlayerIDs \cup {Empty}
    BY <2>6, <2>7, WritesKeepTypes DEF OtherTypeOK
  <2>9. QED
    BY <2>1, <2>3, <2>5, <2>8 DEF OtherTypeOK
<1>7. ASSUME NEW name \in Names \cup {Empty}, KeyEnter(name) PROVE OtherTypeOK'
  <2>1. UNCHANGED <<player, pc, state, focused, id>>
    BY <1>7 DEF KeyEnter, ui
  <2>2. renames' = renames (+) SetToBag({name})
    BY <1>7 DEF KeyEnter
  <2>3. IsABag(renames') /\ BagToSet(renames') \subseteq Names \cup {Empty}
    BY <2>2, BagGains DEF OtherTypeOK
  <2>4. QED
    BY <2>1, <2>3 DEF OtherTypeOK
<1>8. CASE StartTransport
  BY <1>8 DEF StartTransport, OtherTypeOK, ui
<1>9. CASE \/ \E p \in Peers : PeerConnection(p)
           \/ SendLastEvent \/ WaitForEvent
           \/ \E n \in 0..Cardinality(Peers) : HandleConnectionStatus(n)
  <2>1. UNCHANGED <<player, pc, renames, state, focused, id>>
    BY <1>9 DEF PeerConnection, SendLastEvent, WaitForEvent, HandleConnectionStatus, game, ui
  <2>2. QED
    BY <2>1 DEF OtherTypeOK
<1>10. CASE HandleInitialized \/ HandleNameEntered \/ HandlePeersFound
            \/ \E s \in AppStates : HandleAppState(s)
  <2>1. UNCHANGED <<player, pc, renames, id>>
    BY <1>10 DEF HandleInitialized, HandleNameEntered, HandlePeersFound, HandleAppState, game
  <2>2. state' \in AppStates
    BY <1>10 DEF HandleInitialized, HandleNameEntered, HandlePeersFound, HandleAppState,
       OtherTypeOK, AppStates
  <2>3. focused' \in BOOLEAN
    BY <1>10, Zenon DEF HandleInitialized, HandleNameEntered, HandlePeersFound, HandleAppState,
       InputFocus, OtherTypeOK
  <2>4. QED
    BY <2>1, <2>2, <2>3 DEF OtherTypeOK
<1>11. CASE Restart
  <2>1. IsABag(EmptyBag) /\ BagToSet(EmptyBag) = {}
    BY DEF IsABag, EmptyBag, SetToBag, BagToSet
  <2>2. QED
    BY <1>1, <1>11, <2>1 DEF Restart, OtherTypeOK, AppStates
<1>12. CASE UNCHANGED vars
  BY <1>12 DEF vars, game, ui, OtherTypeOK
<1>13. QED
  BY <1>4, <1>5, <1>6, <1>7, <1>8, <1>9, <1>10, <1>11, <1>12 DEF Next

\* Values of the variables; at most one goroutine waits for a status.
THEOREM StartupTypeCorrect == Spec => []TypeOK
<1>1. Init => IdInv /\ OtherTypeOK
  <2>1. Init => IsABag(renames) /\ BagToSet(renames) = {}
    BY DEF Init, IsABag, EmptyBag, SetToBag, BagToSet
  <2>2. Init => IdInv
    BY DEF Init, IdInv, NoPlayer, PlayerRecord
  <2>3. ASSUME Init PROVE OtherTypeOK
    <3>1. player \in PlayerRecord
      BY <2>3 DEF Init, NoPlayer, PlayerRecord
    <3>2. /\ pc \in {"transport", "storage", "player", "done", "fatal"}
          /\ state \in AppStates /\ focused \in BOOLEAN /\ id \in PlayerIDs \cup {Empty}
      BY <2>3 DEF Init, AppStates
    <3>3. QED
      BY <2>1, <2>3, <3>1, <3>2 DEF OtherTypeOK
  <2>4. QED
    BY <2>2, <2>3
<1>2. IdInv /\ OtherTypeOK /\ [Next]_vars => IdInv' /\ OtherTypeOK'
  BY IdInvInductive, OtherTypes
<1>3. NetInv /\ IdInv /\ OtherTypeOK => TypeOK
  BY DEF NetInv, NetTypeOK, IdInv, OtherTypeOK, TypeOK, Statuses
<1>4. QED
  BY OneWaits, <1>1, <1>2, <1>3, PTL DEF Spec

-----------------------------------------------------------------------------
(* The order of statuses, and the end of the wait *)

\* The last status sent is the last in the channel; when that is empty it is on
\* its way, and when that is over it is shown.
LastSent ==
    sent # None =>
        IF channel.queue # <<>> THEN channel.queue[Len(channel.queue)] = sent
        ELSE /\ \A n \in Statuses : Arriving(n) > 0 => n = sent
             /\ (\A n \in Statuses : Arriving(n) = 0) => shown = sent

\* Steps of messages of other kinds.
LEMMA NoStatusMoves ==
    ASSUME NetInv,
           \/ UNCHANGED inbox
           \/ \E S : inbox' = inbox (+) SetToBag(S) /\ \A n : Status(n) \notin S
           \/ \E m, S : /\ BagIn(m, inbox) /\ Replace(m, S)
                        /\ \A n : Status(n) # m /\ Status(n) \notin S
    PROVE  \A n : Arriving(n)' = Arriving(n)
<1>1. IsABag(inbox) /\ \A n : Arriving(n) \in Nat
  BY Counts DEF NetInv, NetTypeOK
<1>2. CASE UNCHANGED inbox
  BY <1>2 DEF Arriving, OnTheWay
<1>3. ASSUME NEW S, inbox' = inbox (+) SetToBag(S), \A n : Status(n) \notin S
      PROVE  \A n : Arriving(n)' = Arriving(n)
  <2>1. \A n : Arriving(n)' = Arriving(n) + 0
    BY <1>1, <1>3, Sends
  <2>2. QED
    BY <1>1, <2>1
<1>4. ASSUME NEW m, NEW S, BagIn(m, inbox), Replace(m, S),
             \A n : Status(n) # m /\ Status(n) \notin S
      PROVE  \A n : Arriving(n)' = Arriving(n)
  <2>1. \A n : Arriving(n)' = Arriving(n) - 0 + 0
    BY <1>1, <1>4, Handled
  <2>2. QED
    BY <1>1, <2>1
<1>5. QED
  BY <1>2, <1>3, <1>4

LEMMA OtherStepsOfStatuses ==
    ASSUME NetInv, LastSent,
           \/ StartTransport \/ InitializeStorage \/ LoadPlayer
           \/ \E name \in Names \cup {Empty} : RenamePlayer(name) \/ KeyEnter(name)
           \/ HandleInitialized \/ HandleNameEntered \/ HandlePeersFound
           \/ \E s \in AppStates : HandleAppState(s)
    PROVE  LastSent'
<1>1. UNCHANGED <<channel, sent, shown>>
  BY DEF StartTransport, InitializeStorage, LoadPlayer, RenamePlayer, KeyEnter,
     HandleInitialized, HandleNameEntered, HandlePeersFound, HandleAppState, net
<1>2. \A n : Arriving(n)' = Arriving(n)
  <2>1. CASE StartTransport \/ InitializeStorage
             \/ \E name \in Names \cup {Empty} : KeyEnter(name)
    <3>1. UNCHANGED inbox
      BY <2>1 DEF StartTransport, InitializeStorage, KeyEnter
    <3>2. QED
      BY <3>1, NoStatusMoves
  <2>2. CASE LoadPlayer \/ \E name \in Names \cup {Empty} : RenamePlayer(name)
    <3>1. UNCHANGED inbox \/ \E s : inbox' = inbox (+) SetToBag({Finished(s)})
      BY <2>2 DEF LoadPlayer, Initialized, RenamePlayer
    <3>2. \A n, s : Status(n) \notin {Finished(s)}
      BY MessagesDiffer
    <3>3. QED
      BY <3>1, <3>2, NoStatusMoves, Zenon
  <2>3. CASE HandleInitialized \/ HandleNameEntered \/ HandlePeersFound
    <3>1. \E s, t : BagIn(Finished(s), inbox) /\ Replace(Finished(s), {Entered(t)})
      BY <2>3 DEF HandleInitialized, HandleNameEntered, HandlePeersFound, Handling
    <3>2. \A n, s, t : Status(n) # Finished(s) /\ Status(n) \notin {Entered(t)}
      BY MessagesDiffer
    <3>3. QED
      BY <3>1, <3>2, NoStatusMoves, Zenon
  <2>4. ASSUME NEW s \in AppStates, HandleAppState(s) PROVE \A n : Arriving(n)' = Arriving(n)
    <3>1. BagIn(Entered(s), inbox) /\ Replace(Entered(s), WaitIsOver(state, shown))
      BY <2>4 DEF HandleAppState, Handling
    <3>2. \A n : Status(n) # Entered(s) /\ Status(n) \notin WaitIsOver(state, shown)
      BY MessagesDiffer DEF WaitIsOver
    <3>3. QED
      BY <3>1, <3>2, NoStatusMoves, Zenon
  <2>5. QED
    BY <2>1, <2>2, <2>3, <2>4
<1>3. QED
  BY <1>1, <1>2 DEF LastSent, Statuses

LEMMA AppendIsLast ==
    ASSUME NEW S, NEW q \in Seq(S), NEW n \in S
    PROVE  Append(q, n) # <<>> /\ Append(q, n)[Len(Append(q, n))] = n
OBVIOUS

LEMMA LastOfTail ==
    ASSUME NEW S, NEW q \in Seq(S), q # <<>>
    PROVE  /\ Head(q) \in S
           /\ Tail(q) = <<>> => Head(q) = q[Len(q)]
           /\ Tail(q) # <<>> => Tail(q)[Len(Tail(q))] = q[Len(q)]
<1>1. /\ Head(q) = q[1] /\ Head(q) \in S 
      /\ Len(q) \in Nat /\ Len(Tail(q)) \in Nat /\ Len(q) = Len(Tail(q)) + 1
  OBVIOUS
<1>2. ASSUME Tail(q) = <<>> PROVE Head(q) = q[Len(q)]
  <2>1. Len(<<>>) = 0
    OBVIOUS
  <2>2. Len(Tail(q)) = 0
    BY <1>2, <2>1, Zenon
  <2>3. 0 + 1 = 1
    OBVIOUS
  <2>4. QED
    BY <1>1, <2>2, <2>3, Zenon
<1>3. ASSUME Tail(q) # <<>> PROVE Tail(q)[Len(Tail(q))] = q[Len(q)]
  <2>1. Len(Tail(q)) \in 1..Len(Tail(q))
    BY <1>1, <1>3
  <2>2. Tail(q)[Len(Tail(q))] = q[Len(Tail(q)) + 1]
    BY <2>1
  <2>3. QED
    BY <1>1, <2>2, Zenon
<1>4. QED
  BY <1>1, <1>2, <1>3

LEMMA LastSentStep ==
    ASSUME NetInv, LastSent, [Next]_vars
    PROVE  LastSent'
<1>1. channel \in [queue : Seq(Statuses), waiters : {0, 1}]
  BY DEF NetInv, NetTypeOK
<1>2. IsABag(inbox) /\ \A n : Arriving(n) \in Nat
  BY Counts DEF NetInv, NetTypeOK
<1>3. CASE UNCHANGED vars
  <2>1. UNCHANGED <<inbox, channel, sent, shown>>
    BY <1>3 DEF vars, net
  <2>2. \A n : Arriving(n)' = Arriving(n)
    BY <2>1, NoStatusMoves
  <2>3. QED
    BY <2>1, <2>2 DEF LastSent, Statuses
<1>4. ASSUME NEW p \in Peers, PeerConnection(p) PROVE LastSent'
  <2>1. CASE Subscribed
    <3>1. Push(Cardinality(peers')) /\ peers' \subseteq Peers
      BY <1>4, <2>1 DEF PeerConnection, NetInv, NetTypeOK
    <3>2. Cardinality(peers') \in Statuses
      BY <3>1, PeersAreCounted
    <3>3. channel'.queue = Append(channel.queue, Cardinality(peers')) /\ sent' = Cardinality(peers')
      BY <1>1, <3>1 DEF Push
    <3>4. QED
      BY <1>1, <3>2, <3>3, AppendIsLast DEF LastSent
  <2>2. CASE ~Subscribed
    <3>1. UNCHANGED <<inbox, channel, sent, shown>>
      BY <1>4, <2>2 DEF PeerConnection
    <3>2. \A n : Arriving(n)' = Arriving(n)
      BY <3>1, NoStatusMoves
    <3>3. QED
      BY <3>1, <3>2 DEF LastSent, Statuses
  <2>3. QED
    BY <2>1, <2>2
<1>5. CASE SendLastEvent
  <2>1. unsent \in Statuses /\ sent' = unsent /\ channel'.queue = Append(channel.queue, unsent)
    BY <1>5 DEF SendLastEvent, NetInv, NetTypeOK
  <2>2. QED
    BY <1>1, <2>1, AppendIsLast DEF LastSent
<1>6. CASE WaitForEvent
  <2> DEFINE q == channel.queue
             k == Head(q)
             S == {Status(k)}
  <2>1. q \in Seq(Statuses) /\ q # <<>> /\ channel.waiters = 1 /\ UNCHANGED <<sent, shown>>
        /\ channel'.queue = Tail(q)
    BY <1>1, <1>6 DEF WaitForEvent
  <2>2. inbox' = inbox (+) SetToBag(S)
    BY <1>6 DEF WaitForEvent
  <2>3. \A n : Status(n) \in S <=> n = k
    BY MessagesDiffer
  <2> HIDE DEF S
  <2>4. \A n : Arriving(n)' = Arriving(n) + IF Status(n) \in S THEN 1 ELSE 0
    BY <1>2, <2>2, Sends
  <2>5. \A n \in Statuses : Arriving(n)' = IF n = k THEN 1 ELSE 0
    BY <1>2, <2>1, <2>3, <2>4 DEF NetInv, OneTurn
  <2> HIDE DEF q
  <2>6. k \in Statuses /\ (Tail(q) = <<>> => k = q[Len(q)])
        /\ (Tail(q) # <<>> => Tail(q)[Len(Tail(q))] = q[Len(q)])
    BY <2>1, LastOfTail
  <2>7. sent # None => q[Len(q)] = sent
    BY <2>1 DEF LastSent, q
  <2> HIDE DEF k
  <2>8. QED
    BY <2>1, <2>5, <2>6, <2>7 DEF LastSent, Statuses
<1>7. ASSUME NEW k \in 0..Cardinality(Peers), HandleConnectionStatus(k) PROVE LastSent'
  <2> DEFINE S == WaitIsOver(state, k)
             m == Status(k)
  <2>1. BagIn(m, inbox) /\ Replace(m, S) /\ shown' = k /\ UNCHANGED sent
    BY <1>7 DEF HandleConnectionStatus, Handling
  <2>2. channel'.queue = channel.queue
    BY <1>1, <1>7 DEF HandleConnectionStatus, WaitAgain
  <2>3. \A n : Status(n) \notin S /\ (Status(n) = m <=> n = k)
    BY MessagesDiffer DEF WaitIsOver
  <2>4. Arriving(k) > 0
    BY <1>2, <2>1, Counts DEF Arriving
  <2> HIDE DEF S, m
  <2>5. \A n : Arriving(n)' = Arriving(n) - (IF Status(n) = m THEN 1 ELSE 0)
                        + IF Status(n) \in S THEN 1 ELSE 0
    BY <1>2, <2>1, Handled
  <2>6. k \in Statuses /\ Arriving(k) = 1 /\ \A n \in Statuses : n # k => Arriving(n) = 0
    <3>1. k \in Statuses
      BY DEF Statuses
    <3>2. QED
      BY <1>2, <2>4, <3>1 DEF NetInv, OneTurn
  <2>7. \A n \in Statuses : Arriving(n)' = 0
    BY <2>3, <2>5, <2>6
  <2>8. QED
    BY <2>1, <2>2, <2>4, <2>6, <2>7 DEF LastSent, Statuses
<1>8. CASE Restart
  BY <1>8 DEF Restart, LastSent
<1>9. QED
  BY <1>3, <1>4, <1>5, <1>6, <1>7, <1>8, OtherStepsOfStatuses DEF Next

\* Once no status is in the channel or on its way, the last one sent is shown.
THEOREM StatusesKeepTheirOrder == Spec => []LastStatusIsShown
<1>1. Init => LastSent
  BY DEF Init, LastSent
<1>2. NetInv /\ LastSent => LastStatusIsShown
  <2> SUFFICES ASSUME NetInv, LastSent, sent # None, channel.queue = <<>>,
                      \A n \in Statuses : ~BagIn(Status(n), inbox)
               PROVE  shown = sent
    BY DEF LastStatusIsShown, Statuses
  <2>1. \A n \in Statuses : Arriving(n) = 0
    BY DEF Arriving, OnTheWay
  <2>2. QED
    BY <2>1 DEF LastSent
<1>3. QED
  BY OneWaits, LastSentStep, <1>1, <1>2, PTL DEF Spec

Ending ==
    BagIn(Entered("WaitingForPeers"), inbox) \/ BagIn(Finished("WaitingForPeers"), inbox)

\* What a handler sends is on its way, and so is what it did not take.
LEMMA OthersStay ==
    ASSUME IsABag(inbox), NEW S, NEW m, BagIn(m, inbox), Replace(m, S)
    PROVE  \A x : x \in S \/ (x # m /\ BagIn(x, inbox)) => BagIn(x, inbox')
<1> DEFINE C == inbox (-) SetToBag({m})
<1>1. IsABag(C) /\ \A x : Copies(x, C) = Copies(x, inbox) - IF x = m THEN 1 ELSE 0
  BY BagLoses
<1>2. inbox' = C (+) SetToBag(S)
  BY DEF Replace
<1> HIDE DEF C
<1>3. BagToSet(inbox') = BagToSet(C) \cup S
  BY <1>1, <1>2, BagGains
<1>4. ASSUME NEW x, x # m, BagIn(x, inbox) PROVE BagIn(x, C)
  <2>1. Copies(x, inbox) > 0 /\ Copies(x, inbox) \in Nat
    BY <1>4, CopiesOfBag
  <2>2. Copies(x, C) > 0
    BY <1>1, <1>4, <2>1
  <2>3. QED
    BY <1>1, <2>2, CopiesOfBag
<1>5. QED
  BY <1>3, <1>4 DEF BagIn

LEMMA WaitIsEndingStep ==
    ASSUME NetInv, WaitIsEnding, [Next]_vars
    PROVE  WaitIsEnding'
<1>1. IsABag(inbox) /\ (WaitIsEnding <=> (state = "WaitingForPeers" /\ shown > 0 => Ending))
  BY DEF NetInv, NetTypeOK, WaitIsEnding, Ending
<1>2. WaitIsEnding' <=> (state' = "WaitingForPeers" /\ shown' > 0 => Ending')
  BY DEF WaitIsEnding, Ending
<1>3. CASE UNCHANGED <<state, shown, inbox>>
  BY <1>1, <1>2, <1>3 DEF Ending
<1>4. ASSUME NEW S, inbox' = inbox (+) SetToBag(S), UNCHANGED <<state, shown>>
      PROVE  WaitIsEnding'
  <2>1. BagToSet(inbox') = BagToSet(inbox) \cup S
    BY <1>1, <1>4, BagGains
  <2>2. Ending => Ending'
    BY <2>1 DEF Ending, BagIn
  <2>3. QED
    BY <1>1, <1>2, <1>4, <2>2
<1>5. CASE LoadPlayer
  <2>1. UNCHANGED <<state, shown>> /\ (UNCHANGED inbox \/ \E s : inbox' = inbox (+) SetToBag({Finished(s)}))
    BY <1>5 DEF LoadPlayer, Initialized, ui
  <2>2. QED
    BY <1>3, <1>4, <2>1
<1>6. ASSUME NEW name \in Names \cup {Empty}, RenamePlayer(name) PROVE WaitIsEnding'
  <2>1. UNCHANGED <<state, shown>> /\ (UNCHANGED inbox \/ \E s : inbox' = inbox (+) SetToBag({Finished(s)}))
    BY <1>6 DEF RenamePlayer, ui
  <2>2. QED
    BY <1>3, <1>4, <2>1
<1>7. CASE WaitForEvent
  <2>1. UNCHANGED <<state, shown>> /\ \E n : inbox' = inbox (+) SetToBag({Status(n)})
    BY <1>7 DEF WaitForEvent, ui
  <2>2. QED
    BY <1>4, <2>1
<1>8. CASE HandleInitialized \/ HandleNameEntered
  <2>1. \E m : /\ BagIn(m, inbox) /\ Replace(m, {Entered(state')})
    BY <1>8 DEF HandleInitialized, HandleNameEntered, Handling
  <2>2. BagIn(Entered(state'), inbox')
    BY <1>1, <2>1, OthersStay
  <2>3. QED
    BY <1>2, <2>2 DEF Ending
<1>9. CASE HandlePeersFound
  BY <1>2, <1>9 DEF HandlePeersFound
<1>10. ASSUME NEW m, NEW k, BagIn(m, inbox), Replace(m, WaitIsOver(state, k)),
              state' = state, shown' = k,
              m # Finished("WaitingForPeers")
       PROVE  WaitIsEnding'
  <2> DEFINE S == WaitIsOver(state, k)
             over == Finished("WaitingForPeers")
  <2>1. CASE state = "WaitingForPeers" /\ k > 0
    <3>1. over \in S \/ BagIn(over, inbox)
      <4>1. CASE OnTheWay(over) < 2
        BY <2>1, <4>1 DEF WaitIsOver
      <4>2. CASE ~(OnTheWay(over) < 2)
        BY <4>2 DEF OnTheWay
      <4>3. QED
        BY <4>1, <4>2
    <3>2. Replace(m, S) /\ m # over
      BY <1>10
    <3> HIDE DEF S, over
    <3>3. BagIn(over, inbox')
      BY <1>1, <1>10, <3>1, <3>2, OthersStay
    <3>4. QED
      BY <1>2, <3>3 DEF Ending, over
  <2>2. CASE ~(state = "WaitingForPeers" /\ k > 0)
    BY <1>2, <1>10, <2>2
  <2>3. QED
    BY <2>1, <2>2
<1>11. ASSUME NEW s \in AppStates, HandleAppState(s) PROVE WaitIsEnding'
  <2>1. BagIn(Entered(s), inbox) /\ Replace(Entered(s), WaitIsOver(state, shown))
        /\ UNCHANGED <<state, shown>>
    BY <1>11 DEF HandleAppState, Handling
  <2>2. QED
    BY <1>10, <2>1, MessagesDiffer
<1>12. ASSUME NEW n \in 0..Cardinality(Peers), HandleConnectionStatus(n) PROVE WaitIsEnding'
  <2>1. BagIn(Status(n), inbox) /\ Replace(Status(n), WaitIsOver(state, n))
        /\ state' = state /\ shown' = n
    BY <1>12 DEF HandleConnectionStatus, Handling, ui
  <2>2. QED
    BY <1>10, <2>1, MessagesDiffer
<1>13. CASE Restart
  BY <1>2, <1>13 DEF Restart
<1>14. CASE \/ UNCHANGED vars \/ StartTransport \/ InitializeStorage \/ SendLastEvent
            \/ \E p \in Peers : PeerConnection(p)
            \/ \E name \in Names \cup {Empty} : KeyEnter(name)
  BY <1>3, <1>14 DEF vars, ui, StartTransport, InitializeStorage, SendLastEvent, PeerConnection,
     KeyEnter
<1>15. QED
  BY <1>5, <1>6, <1>7, <1>8, <1>9, <1>11, <1>12, <1>13, <1>14 DEF Next

\* As long as the application waits although it knows of peers, a message that
\* ends the wait, or looks for them, is on its way.
THEOREM WaitsEnd == Spec => []WaitIsEnding
<1>1. Init => WaitIsEnding
  BY DEF Init, WaitIsEnding
<1>2. QED
  BY OneWaits, WaitIsEndingStep, <1>1, PTL DEF Spec

=============================================================================
