---------------------------- MODULE MCDraftRound ----------------------------
(* Small instances of DraftRound for TLC. *)
EXTENDS DraftRefinement, TLC

CONSTANTS a, b, c, x, y

TwoHeirs   == {a, b}
ThreeHeirs == {a, b, c}
TwoItems   == {x, y}

OneStage == [i \in Items |-> 1]

FullSymmetry == Permutations(Heirs) \cup Permutations(Items)

-----------------------------------------------------------------------------
\* The draft has just begun, with nothing in appraisal and everything ranked.
\* Nobody's pick is suggested here, so the order of the rankings is one for all.
BegunInit ==
  /\ phase = "draft" /\ paused = FALSE
  /\ currentRound = 1
  /\ priorityOrder \in Orders
  /\ contestedLossCounter = [h \in Heirs |-> 0]
  /\ autoSubmit = [h \in Heirs |-> FALSE]
  /\ flagged = [i \in Items |-> FALSE]
  /\ appraisal = [i \in Items |-> "none"]
  /\ status = [i \in Items |-> "available"]
  /\ awardedTo = [i \in Items |-> Nobody]
  /\ awardedInRound = [i \in Items |-> 0]
  /\ \E list \in {l \in Lists(Items) : Len(l) = Cardinality(Items)} :
       rankings = [h \in Heirs |-> list]
  /\ picks = [r \in Rounds |-> [h \in Heirs |-> <<>>]]

\* One slice of Next, sealed picks and contests.  A pick from the high-value
\* panel does not count as a loss.
ContestNext ==
  \/ \E h \in Heirs, i \in Items, counted \in BOOLEAN : SubmitPick(h, i, counted)
  \/ CaptainReveal
ContestSpec == BegunInit /\ [][ContestNext]_draftVars
=============================================================================
