------------------------------ MODULE MCPhases ------------------------------
(* Slices of DraftRound that begin before the draft, for TLC.               *)
EXTENDS MCDraftRound

(* The whole next-state relation is too wide for one run.  Each slice below *)
(* keeps the reveal and adds one group of requests; between them the slices *)
(* take every action of Next.                                               *)

\* Picks by hand, and all that is offered ranked.
ByHand ==
  \/ \E h \in Heirs, i \in Items : SubmitPick(h, i, TRUE)
  \/ CaptainReveal
  \/ StartDraft

\* Escalations raised and withdrawn between a pick and its reveal.
EscalationSliceNext ==
  \/ ByHand
  \/ \E i \in Items : FlagForAppraisal(i) \/ UnflagAppraisal(i)

\* Flags set and cleared, of escalated items too, and lists written anew.
FlagSliceNext ==
  \/ ByHand
  \/ \E i \in Items, on \in BOOLEAN : SetHighValue(i, on)
  \/ \E h \in Heirs, list \in Lists(Items) :
       Len(list) = Cardinality(RankablePool(status)) /\ ReplaceRankings(h, list)

\* Loss counters typed in between.
CounterSliceNext ==
  \/ ByHand
  \/ \E h \in Heirs, n \in TypedCounters : EditCounter(h, n)

\* From the ranking phase to the end: rankings are edited, the phase is moved
\* on, auto-submit is switched and sweeps, the estate is paused.
PhaseSliceNext ==
  \/ \E h \in Heirs : \/ \E on \in BOOLEAN : SetAutoSubmit(h, on)
                      \/ \E list \in Lists(Items) : ReplaceRankings(h, list)
  \/ CaptainNext

VARIABLE slice
PhasesInit ==
  /\ Init
  /\ slice \in {"escalations", "flags", "counters", "phases"}
  /\ slice # "phases" => \A h \in Heirs : Ranked(h) = RankablePool(status)
PhasesNext ==
  /\ UNCHANGED slice
  /\ \/ slice = "escalations" /\ EscalationSliceNext
     \/ slice = "flags" /\ FlagSliceNext
     \/ slice = "counters" /\ CounterSliceNext
     \/ slice = "phases" /\ PhaseSliceNext
PhasesSpec == PhasesInit /\ [][PhasesNext]_<<draftVars, slice>>

\* One slice by itself.
EscalationSpec == PhasesInit /\ slice = "escalations" /\ [][PhasesNext]_<<draftVars, slice>>
FlagSpec == PhasesInit /\ slice = "flags" /\ [][PhasesNext]_<<draftVars, slice>>
=============================================================================
