-------------------------- MODULE RoomStateProofs --------------------------
(***************************************************************************)
(* Every operation of RoomState keeps a consistent room consistent: the    *)
(* lemmas the proofs about Dealer rest on, one per operation.              *)
(***************************************************************************)
EXTENDS RoomState, WellFoundedInduction, TLAPS

\* Every non-empty set of naturals has a least element, which Min chooses.
LEMMA MinOfNats ==
    ASSUME NEW S \in SUBSET Nat, S # {}
    PROVE  Min(S) \in S /\ \A y \in S : Min(S) <= y
<1>1. \E x \in S : \A y \in S : ~ (<<y, x>> \in OpToRel(<, Nat))
  BY NatLessThanWellFounded, WFMin
<1>2. \A x, y \in Nat : y < x => <<y, x>> \in OpToRel(<, Nat)
  BY DEF OpToRel
<1>3. \E x \in S : \A y \in S : ~ (y < x)
  BY <1>1, <1>2, Zenon
<1>4. \E x \in S : \A y \in S : x <= y
  BY <1>3
<1>5. QED
  BY <1>4, Zenon DEF Min
-----------------------------------------------------------------------------
(* Reading a room *)

LEMMA NoVotesType == NoVotes \in [Players -> VoteResult \cup {None}]
BY DEF NoVotes

\* A consistent room is in one of three vote states, told apart by two fields.
LEMMA VoteStates ==
    ASSUME NEW s, Consistent(s)
    PROVE  /\ VoteState(s) = "idle" <=> s.active = None
           /\ VoteState(s) = "voting" <=> s.active # None /\ ~s.revealed
           /\ VoteState(s) = "revealed" <=> s.revealed
           /\ VoteState(s) # "finished"
BY DEF Consistent, RoundIsOpen, Unestimated, VoteState, State

LEMMA ListedType ==
    ASSUME NEW s \in State
    PROVE  Listed(s) \subseteq Issues
BY DEF Listed, State

LEMMA ListedWithIssue ==
    ASSUME NEW s \in State, NEW i \in Issues
    PROVE  Listed(WithIssue(s, i)) = Listed(s) \cup {i}
<1> DEFINE t == Append(s.issues, i)
<1>1. WithIssue(s, i).issues = t
  BY DEF WithIssue, State
<1>2. /\ DOMAIN t = 1..(Len(s.issues) + 1)
      /\ DOMAIN s.issues = 1..Len(s.issues)
      /\ \A k \in 1..Len(s.issues) : t[k] = s.issues[k]
      /\ t[Len(s.issues) + 1] = i
      /\ Len(s.issues) \in Nat
  BY DEF State
<1>3. {t[k] : k \in DOMAIN t} = {s.issues[k] : k \in DOMAIN s.issues} \cup {i}
  BY <1>2
<1>4. QED
  BY <1>1, <1>3 DEF Listed

LEMMA HiddenType ==
    ASSUME NEW s, Consistent(s)
    PROVE  Hidden(s) \in State
<1>1. s \in State
  BY DEF Consistent
<1>2. CASE VoteState(s) = "voting"
  <2> DEFINE masked == [p \in Players |->
                 IF s.votes[s.active][p] = None THEN None
                 ELSE [s.votes[s.active][p] EXCEPT !.value = None]]
  <2>1. s.active \in Issues
    BY <1>1, <1>2, VoteStates DEF State
  <2>2. masked \in [Players -> VoteResult \cup {None}]
    <3>1. \A p \in Players : s.votes[s.active][p] \in VoteResult \cup {None}
      BY <1>1, <2>1 DEF State
    <3>2. \A r \in VoteResult : [r EXCEPT !.value = None] \in VoteResult
      BY DEF VoteResult
    <3>3. QED
      BY <3>1, <3>2
  <2>3. Hidden(s) = [s EXCEPT !.votes = [s.votes EXCEPT ![s.active] = masked]]
    BY <1>1, <1>2, <2>1 DEF Hidden, State
  <2> HIDE DEF masked
  <2>4. [s.votes EXCEPT ![s.active] = masked] \in
          [Issues -> [Players -> VoteResult \cup {None}]]
    BY <1>1, <2>2 DEF State
  <2>5. QED
    BY <1>1, <2>3, <2>4 DEF State
<1>3. CASE VoteState(s) # "voting"
  BY <1>1, <1>3 DEF Hidden
<1>4. QED
  BY <1>2, <1>3

-----------------------------------------------------------------------------
(* One lemma per operation *)

LEMMA NewRoomConsistent ==
    ASSUME NEW dealer \in Players, NEW deck \in Decks
    PROVE  Consistent(NewRoom(dealer, deck))
<1>1. NewRoom(dealer, deck) \in State
  BY NoVotesType DEF NewRoom, State
<1>2. Listed(NewRoom(dealer, deck)) = {}
  BY DEF NewRoom, Listed
<1>3. QED
  BY <1>1, <1>2 DEF Consistent, RoundIsOpen, VotesFitDeck, IdleIsClean,
       UnlistedIsEmpty, Unestimated, NewRoom

LEMMA WithIssueConsistent ==
    ASSUME NEW s, Consistent(s), NEW i \in Issues \ Listed(s)
    PROVE  Consistent(WithIssue(s, i))
<1> DEFINE t == WithIssue(s, i)
<1>1. s \in State
  BY DEF Consistent
<1>2. t \in State
  <2>1. Append(s.issues, i) \in Seq(Issues)
    BY <1>1 DEF State
  <2>2. /\ [s.result EXCEPT ![i] = None] \in [Issues -> Cards \cup {None}]
        /\ [s.votes EXCEPT ![i] = NoVotes] \in
             [Issues -> [Players -> VoteResult \cup {None}]]
    BY <1>1, NoVotesType DEF State
  <2>3. QED
    BY <1>1, <2>1, <2>2 DEF WithIssue, State
<1>3. Listed(t) = Listed(s) \cup {i}
  BY <1>1, ListedWithIssue
<1>4. /\ t.active = s.active /\ t.revealed = s.revealed /\ t.deck = s.deck
      /\ t.votes = [s.votes EXCEPT ![i] = NoVotes]
      /\ t.result = [s.result EXCEPT ![i] = None]
  BY <1>1 DEF WithIssue, State
<1>5. Unestimated(t) = Unestimated(s) \cup {i}
  BY <1>1, <1>3, <1>4, ListedType DEF Unestimated, State
<1>6. RoundIsOpen(t)
  BY <1>4, <1>5 DEF Consistent, RoundIsOpen
<1>7. VotesFitDeck(t)
  BY <1>1, <1>4, <1>5, ListedType
     DEF Consistent, VotesFitDeck, Unestimated, State, NoVotes
<1>8. IdleIsClean(t) /\ UnlistedIsEmpty(t)
  BY <1>1, <1>3, <1>4, <1>5, ListedType
     DEF Consistent, IdleIsClean, UnlistedIsEmpty, Unestimated, State
<1>9. QED
  BY <1>2, <1>6, <1>7, <1>8 DEF Consistent

LEMMA WithSelectedConsistent ==
    ASSUME NEW s, Consistent(s), ~s.revealed, NEW i \in Listed(s)
    PROVE  Consistent(WithSelected(s, i))
<1> DEFINE t == WithSelected(s, i)
<1>1. s \in State /\ i \in Issues
  BY ListedType DEF Consistent
<1>2. t \in State
  <2>1. /\ [s.result EXCEPT ![i] = None] \in [Issues -> Cards \cup {None}]
        /\ [s.votes EXCEPT ![i] = NoVotes] \in
             [Issues -> [Players -> VoteResult \cup {None}]]
    BY <1>1, NoVotesType DEF State
  <2>2. QED
    BY <1>1, <2>1 DEF WithSelected, State
<1>3. /\ t.active = i /\ t.revealed = FALSE /\ t.deck = s.deck
      /\ t.issues = s.issues
      /\ t.votes = [s.votes EXCEPT ![i] = NoVotes]
      /\ t.result = [s.result EXCEPT ![i] = None]
  BY <1>1 DEF WithSelected, State
<1>4. Listed(t) = Listed(s)
  BY <1>3 DEF Listed
<1>5. Unestimated(t) = Unestimated(s) \cup {i}
  BY <1>1, <1>3, <1>4, ListedType DEF Unestimated, State
<1>6. i # None
  BY <1>1, NoneIsNew
<1>7. RoundIsOpen(t) /\ IdleIsClean(t)
  BY <1>3, <1>5, <1>6 DEF RoundIsOpen, IdleIsClean
<1>8. VotesFitDeck(t)
  BY <1>1, <1>3, <1>5, ListedType
     DEF Consistent, VotesFitDeck, Unestimated, State, NoVotes
<1>9. UnlistedIsEmpty(t)
  BY <1>1, <1>3, <1>4 DEF Consistent, UnlistedIsEmpty, State
<1>10. QED
  BY <1>2, <1>7, <1>8, <1>9 DEF Consistent

LEMMA WithRevealedConsistent ==
    ASSUME NEW s, Consistent(s), VoteState(s) = "voting"
    PROVE  Consistent(WithRevealed(s))
<1> DEFINE t == WithRevealed(s)
<1>1. s \in State /\ s.active # None
  BY VoteStates DEF Consistent
<1>2. t \in State
  BY <1>1 DEF WithRevealed, State
<1>3. /\ t.active = s.active /\ t.deck = s.deck /\ t.issues = s.issues
      /\ t.votes = s.votes /\ t.result = s.result
  BY <1>1 DEF WithRevealed, State
<1>4. Listed(t) = Listed(s) /\ Unestimated(t) = Unestimated(s)
  BY <1>3 DEF Listed, Unestimated
<1>5. QED
  BY <1>1, <1>2, <1>3, <1>4 DEF Consistent, RoundIsOpen, VotesFitDeck,
       IdleIsClean, UnlistedIsEmpty

\* The card that Finish takes closes the round; the next issue dealt, if any,
\* is one without an estimate, and if none is left the room is clean.
LEMMA NextIssueIsOpen ==
    ASSUME NEW s \in State, NEW finished,
           NEW n, n = GetNextIssueToDeal(s, finished)
    PROVE  \/ n = None /\ Unestimated(s) = {}
           \/ n \in Unestimated(s)
<1> DEFINE open  == OpenPositions(s)
           after == {k \in open : \E j \in 1..k : s.issues[j] = finished}
           from  == IF after # {} THEN after ELSE open
<1>1. open \in SUBSET Nat /\ after \subseteq open
  BY DEF OpenPositions, State
<1>2. CASE open = {}
  <2>1. Unestimated(s) = {}
    BY <1>2 DEF OpenPositions, Unestimated, Listed
  <2>2. QED
    BY <1>2, <2>1 DEF GetNextIssueToDeal
<1>3. CASE open # {}
  <2>1. from \in SUBSET Nat /\ from # {} /\ from \subseteq open
    BY <1>1, <1>3
  <2>2. Min(from) \in open
    BY <2>1, MinOfNats
  <2>3. s.issues[Min(from)] \in Unestimated(s)
    BY <2>2 DEF OpenPositions, Unestimated, Listed
  <2>4. n = s.issues[Min(from)]
    BY <1>3 DEF GetNextIssueToDeal
  <2>5. QED
    BY <2>3, <2>4
<1>4. QED
  BY <1>2, <1>3

LEMMA WithResultConsistent ==
    ASSUME NEW s, Consistent(s), s.revealed, NEW card \in Cards
    PROVE  Consistent(WithResult(s, card))
<1> DEFINE done == [s EXCEPT !.result[s.active] = card]
           n == GetNextIssueToDeal(done, s.active)
           t == WithResult(s, card)
<1>1. /\ s \in State /\ s.active \in Unestimated(s)
      /\ s.active \in Issues /\ card # None
  BY NoneIsNew, ListedType DEF Consistent, RoundIsOpen, Unestimated
<1>2. done \in State
  <2>1. [s.result EXCEPT ![s.active] = card] \in [Issues -> Cards \cup {None}]
    BY <1>1 DEF State
  <2>2. QED
    BY <1>1, <2>1 DEF State
<1>3. /\ done.issues = s.issues /\ done.votes = s.votes /\ done.deck = s.deck
      /\ done.result = [s.result EXCEPT ![s.active] = card]
  BY <1>1 DEF State
<1>4. Listed(done) = Listed(s)
  BY <1>3 DEF Listed
<1>5. Unestimated(done) = Unestimated(s) \ {s.active}
  BY <1>1, <1>3, <1>4, ListedType DEF Unestimated, State
<1>6. (n = None /\ Unestimated(done) = {}) \/ n \in Unestimated(done)
  BY <1>2, NextIssueIsOpen
<1>7. n \in Issues \cup {None} /\ None \notin Unestimated(done)
  BY <1>2, <1>6, ListedType, NoneIsNew DEF Unestimated
<1>8. t = [done EXCEPT !.active = n, !.revealed = FALSE]
  BY DEF WithResult
<1> HIDE DEF n, done
<1>9. /\ t \in State /\ t.active = n /\ t.revealed = FALSE
      /\ t.issues = s.issues /\ t.votes = s.votes /\ t.deck = s.deck
      /\ t.result = done.result
  BY <1>2, <1>3, <1>7, <1>8 DEF State
<1>10. Listed(t) = Listed(s) /\ Unestimated(t) = Unestimated(done)
  BY <1>4, <1>9, <1>3 DEF Listed, Unestimated
<1>11. RoundIsOpen(t) /\ IdleIsClean(t)
  BY <1>6, <1>7, <1>9, <1>10 DEF RoundIsOpen, IdleIsClean
<1>12. VotesFitDeck(t)
  BY <1>5, <1>9, <1>10 DEF Consistent, VotesFitDeck
<1>13. UnlistedIsEmpty(t)
  BY <1>1, <1>3, <1>9, <1>10 DEF Consistent, UnlistedIsEmpty, Unestimated, State
<1>14. QED
  BY <1>9, <1>11, <1>12, <1>13 DEF Consistent

LEMMA WithDeckConsistent ==
    ASSUME NEW s, Consistent(s), s.active = None, NEW deck \in Decks
    PROVE  Consistent(WithDeck(s, deck))
<1> DEFINE t == WithDeck(s, deck)
<1>1. s \in State
  BY DEF Consistent
<1>2. /\ t \in State /\ t.active = None /\ t.revealed = s.revealed
      /\ t.issues = s.issues /\ t.votes = s.votes /\ t.result = s.result
  BY <1>1 DEF WithDeck, State
<1>3. Listed(t) = Listed(s) /\ Unestimated(t) = Unestimated(s)
  BY <1>2 DEF Listed, Unestimated
<1>4. \A i \in Unestimated(t) : t.votes[i] = NoVotes
  BY <1>2, <1>3 DEF Consistent, IdleIsClean
<1>5. VotesFitDeck(t)
  BY <1>4 DEF VotesFitDeck, NoVotes
<1>6. QED
  BY <1>2, <1>3, <1>4, <1>5
     DEF Consistent, RoundIsOpen, IdleIsClean, UnlistedIsEmpty

LEMMA WithVoteConsistent ==
    ASSUME NEW s, Consistent(s), NEW p \in Players, NEW i \in Issues,
           NEW value \in Cards \cup {None}, NEW voted \in Time, NEW sent \in Time,
           VoteAccepted(s, p, i, value, sent)
    PROVE  Consistent(WithVote(s, p, value, voted))
<1> DEFINE vote == IF value = None THEN None ELSE [value |-> value, ts |-> voted]
           t == WithVote(s, p, value, voted)
<1>1. /\ s \in State /\ s.active = i /\ i \in Unestimated(s)
      /\ value # None => value \in s.deck
  BY VoteStates DEF VoteAccepted, Consistent, RoundIsOpen
<1>2. /\ vote \in VoteResult \cup {None}
      /\ vote # None => vote.value \in s.deck
  BY <1>1 DEF VoteResult
<1>3. t = [s EXCEPT !.votes = [s.votes EXCEPT ![i] = [s.votes[i] EXCEPT ![p] = vote]]]
  BY <1>1 DEF WithVote, State
<1> HIDE DEF vote
<1>4. [s.votes EXCEPT ![i] = [s.votes[i] EXCEPT ![p] = vote]] \in
        [Issues -> [Players -> VoteResult \cup {None}]]
  BY <1>1, <1>2 DEF State
<1>5. /\ t \in State /\ t.active = i /\ t.revealed = s.revealed
      /\ t.deck = s.deck /\ t.issues = s.issues /\ t.result = s.result
      /\ t.votes = [s.votes EXCEPT ![i] = [s.votes[i] EXCEPT ![p] = vote]]
  BY <1>1, <1>3, <1>4 DEF State
<1>6. Listed(t) = Listed(s) /\ Unestimated(t) = Unestimated(s)
  BY <1>5 DEF Listed, Unestimated
<1>7. RoundIsOpen(t) /\ IdleIsClean(t)
  BY <1>1, <1>5, <1>6, NoneIsNew DEF Consistent, RoundIsOpen, IdleIsClean
<1>8. VotesFitDeck(t)
  <2> SUFFICES ASSUME NEW j \in Unestimated(s), NEW q \in Players,
                      t.votes[j][q] # None
               PROVE  t.votes[j][q].value \in s.deck
    BY <1>5, <1>6 DEF VotesFitDeck
  <2>1. j \in Issues
    BY <1>1, ListedType DEF Unestimated
  <2>2. t.votes[j][q] = IF j = i /\ q = p THEN vote ELSE s.votes[j][q]
    BY <1>1, <1>5, <2>1 DEF State
  <2>3. QED
    BY <1>2, <2>2 DEF Consistent, VotesFitDeck
<1>9. UnlistedIsEmpty(t)
  BY <1>1, <1>5, <1>6 DEF Consistent, UnlistedIsEmpty, Unestimated, State
<1>10. QED
  BY <1>5, <1>7, <1>8, <1>9 DEF Consistent

\* Who is listed and who is online matters to none of the parts.
LEMMA PlayersConsistent ==
    ASSUME NEW s, Consistent(s), NEW t \in State, t.active = s.active,
           t.revealed = s.revealed, t.deck = s.deck, t.issues = s.issues,
           t.votes = s.votes, t.result = s.result
    PROVE  Consistent(t)
<1>1. Listed(t) = Listed(s) /\ Unestimated(t) = Unestimated(s)
  BY DEF Listed, Unestimated
<1>2. QED
  BY <1>1 DEF Consistent, RoundIsOpen, VotesFitDeck, IdleIsClean,
       UnlistedIsEmpty

LEMMA WithOnlineConsistent ==
    ASSUME NEW s, Consistent(s), NEW p \in Players
    PROVE  Consistent(WithOnline(s, p)) /\ WithOnline(s, p).deck = s.deck
           /\ WithOnline(s, p).active = s.active
<1> DEFINE t == WithOnline(s, p)
<1>1. /\ t \in State /\ t.active = s.active /\ t.revealed = s.revealed
      /\ t.deck = s.deck /\ t.issues = s.issues /\ t.votes = s.votes
      /\ t.result = s.result
  BY DEF Consistent, WithOnline, State
<1>2. QED
  BY <1>1, PlayersConsistent

\* Players who go offline, and a saved room that is loaded.
LEMMA OnlineConsistent ==
    ASSUME NEW s, Consistent(s), NEW online \in SUBSET Players
    PROVE  Consistent([s EXCEPT !.online = online])
<1> DEFINE t == [s EXCEPT !.online = online]
<1>1. /\ t \in State /\ t.active = s.active /\ t.revealed = s.revealed
      /\ t.deck = s.deck /\ t.issues = s.issues /\ t.votes = s.votes
      /\ t.result = s.result
  BY DEF Consistent, State
<1>2. QED
  BY <1>1, PlayersConsistent

LEMMA WithOfflineConsistent ==
    ASSUME NEW s, Consistent(s), NEW gone
    PROVE  Consistent(WithOffline(s, gone)) /\ WithOffline(s, gone).deck = s.deck
           /\ WithOffline(s, gone).active = s.active
<1>1. s \in State /\ s.online \ gone \in SUBSET Players
  BY DEF Consistent, State
<1>2. WithOffline(s, gone) = [s EXCEPT !.online = s.online \ gone]
  BY DEF WithOffline
<1>3. WithOffline(s, gone).deck = s.deck /\ WithOffline(s, gone).active = s.active
  BY <1>1 DEF WithOffline, State
<1>4. QED
  BY <1>1, <1>2, <1>3, OnlineConsistent

=============================================================================
