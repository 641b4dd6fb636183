------------------------------- MODULE Voting -------------------------------
(***************************************************************************)
(* What a room promises its players, without messages, timers or decks:    *)
(* issues are estimated in rounds.  A round is started on an issue, which  *)
(* empties that issue's ballot; while it is open votes are cast and        *)
(* withdrawn; once its votes are shown they no longer change and the only  *)
(* way on is an estimate, which closes the round.  A round may be dropped  *)
(* for another one only before its votes are shown.                        *)
(*                                                                         *)
(* Of the room there may be a copy in safe keeping: the room as it is, as  *)
(* it was when the last copy was made, or none.  The room closes when its  *)
(* dealer goes and what is left of it is the copy; it opens again as that  *)
(* copy and as nothing else.  Nothing happens to a room that is closed.    *)
(***************************************************************************)
CONSTANTS Players, Issues, Cards, None

VARIABLES
    open,       \* whether the room has its dealer
    agenda,     \* the issues of the room
    current,    \* the issue of the round in progress, or None
    shown,      \* whether the votes of that round are shown
    ballots,    \* the card each player has put down for each issue, or None
    estimates,  \* the estimate of each issue, or None
    kept        \* the copies of the room: one, or none

room == <<agenda, current, shown, ballots, estimates>>
vars == <<open, room, kept>>

Empty == [p \in Players |-> None]
Blank == [i \in Issues |-> Empty]
NoEstimates == [i \in Issues |-> None]

Init ==
    /\ open = TRUE
    /\ agenda = {}
    /\ current = None
    /\ shown = FALSE
    /\ ballots = Blank
    /\ estimates = NoEstimates
    /\ kept \in {{room}, {}}

\* Making a copy may succeed, leave the earlier one, or spoil it.
Copy == kept' \in {{room'}, kept, {}}

-----------------------------------------------------------------------------
(* Rounds *)

Propose(i) ==
    /\ i \notin agenda
    /\ agenda' = agenda \cup {i}
    /\ UNCHANGED <<current, shown, ballots, estimates>>

\* The dealer may deal an issue that was not on the agenda, and may deal an
\* estimated issue again, which discards its estimate.
Start(i) ==
    /\ ~shown
    /\ agenda' = agenda \cup {i}
    /\ current' = i
    /\ ballots' = [ballots EXCEPT ![i] = Empty]
    /\ estimates' = [estimates EXCEPT ![i] = None]
    /\ UNCHANGED shown

Cast(p, card) ==
    /\ current # None
    /\ ~shown
    /\ ballots' = [ballots EXCEPT ![current][p] = card]
    /\ UNCHANGED <<agenda, current, shown, estimates>>

Show ==
    /\ current # None
    /\ ~shown
    /\ shown' = TRUE
    /\ UNCHANGED <<agenda, current, ballots, estimates>>

\* The estimate closes the round; the next one is on an issue that has no
\* estimate yet, and there is none only when every issue has one.
Estimate(card) ==
    /\ shown
    /\ estimates' = [estimates EXCEPT ![current] = card]
    /\ shown' = FALSE
    /\ LET left == {i \in agenda : estimates'[i] = None}
       IN  IF left = {} THEN current' = None ELSE current' \in left
    /\ UNCHANGED <<agenda, ballots>>

Round ==
    \/ \E i \in Issues : Propose(i) \/ Start(i)
    \/ \E p \in Players, card \in Cards \cup {None} : Cast(p, card)
    \/ Show
    \/ \E card \in Cards : Estimate(card)

-----------------------------------------------------------------------------
(* The room and its copy *)

\* A step of a round, or none, and a copy.
Go ==
    /\ open
    /\ Round \/ UNCHANGED room
    /\ Copy
    /\ UNCHANGED open

Close ==
    /\ open
    /\ open' = FALSE
    /\ IF kept = {} THEN room' = <<{}, None, FALSE, Blank, NoEstimates>> ELSE room' \in kept
    /\ UNCHANGED kept

Reopen ==
    /\ ~open
    /\ kept # {}
    /\ open' = TRUE
    /\ UNCHANGED room
    /\ Copy

Next == Go \/ Close \/ Reopen

Spec == Init /\ [][Next]_vars

=============================================================================
