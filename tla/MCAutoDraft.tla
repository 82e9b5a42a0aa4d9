----------------------------- MODULE MCAutoDraft -----------------------------
(* Small instances of AutoDraft for TLC. *)
EXTENDS AutoDraft, TLC

CONSTANTS a, b, u, x, y, z, captain

TwoHeirs   == {a, b}
TwoItems   == {x, y}
ThreeItems == {x, y, z}
FourItems  == {u, x, y, z}
Captain    == {captain}
NoCaptain  == {}

OneStage == [i \in Items |-> 1]

FullSymmetry == Permutations(Heirs) \cup Permutations(Items)

-----------------------------------------------------------------------------
\* The draft has begun.  Rankings are complete or miss an item.
BegunInit ==
  /\ phase = "draft" /\ paused = FALSE
  /\ currentRound = 1
  /\ priorityOrder \in Orders
  /\ contestedLossCounter = [h \in Heirs |-> 0]
  /\ autoSubmit = [h \in Heirs |-> FALSE]
  /\ flagged = [i \in Items |-> FALSE]
  /\ appraisal = [i \in Items |-> "none"]
  /\ status = [i \in Items |-> "available"]
  /\ awardedTo = [i \in Items |-> Nobody]
  /\ awardedInRound = [i \in Items |-> 0]
  /\ rankings \in [Heirs -> {l \in Lists(Items) : Len(l) + 1 >= Cardinality(Items)}]
  /\ picks = [r \in Rounds |-> [h \in Heirs |-> <<>>]]
  /\ autoDraftEnabled = TRUE /\ autoDraftPaused = FALSE
  /\ autoRoundStreak = 0 /\ autoDraftHoldRound = 0
  /\ checkpoint = FALSE /\ responses = NoVotes
  /\ ticking = FALSE /\ seenStreak = 0

\* Everything the table can do while ticks come and go, except flags and edits
\* of the rankings.
TableNext ==
  \/ Tick \/ Restart \/ SwitchNext
  \/ /\ \/ \E h \in Heirs, i \in Items : SubmitPick(h, i, TRUE)
        \/ \E h \in Heirs, on \in BOOLEAN : SetAutoSubmit(h, on)
        \/ CaptainReveal \/ Pause \/ Resume
     /\ UNCHANGED autoVars
TableSpec == BegunInit /\ [][TableNext]_allVars

\* Nobody touches the draft: browsers poll, and heirs answer checkpoints.
Answer == \E v \in Heirs : responses[v] = "none" /\ Respond(v, "continue")
UnattendedNext == Tick \/ Answer
UnattendedSpec ==
  BegunInit /\ [][UnattendedNext]_allVars /\ WF_allVars(Tick) /\ WF_allVars(Answer)

\* Heirs whose lists share no item, so that their choices are always distinct, and
\* who may turn auto-submit on: a round may then be sealed by others than a tick.
StrandedInit == BegunInit /\ \A g, h \in Heirs : g # h => Ranked(g) \cap Ranked(h) = {}
StrandedNext ==
  \/ UnattendedNext
  \/ (\E h \in Heirs : ~autoSubmit[h] /\ SetAutoSubmit(h, TRUE)) /\ UNCHANGED autoVars
StrandedSpec ==
  StrandedInit /\ [][StrandedNext]_allVars /\ WF_allVars(Tick) /\ WF_allVars(Answer)
=============================================================================
