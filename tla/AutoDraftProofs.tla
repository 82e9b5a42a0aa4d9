-------------------------- MODULE AutoDraftProofs --------------------------
(* The draft with its engine: the tick that sleeps between sealing and       *)
(* revealing breaks nothing that holds without it, for any heirs and items.  *)
EXTENDS AutoDraft, DraftRefinementProofs, DraftLedgerProofs

-----------------------------------------------------------------------------
(* A step of the engine, as the draft sees it *)

\* A tick seals the top choices of the heirs who owe a pick.
LEMMA PlanSeals ==
  ASSUME DraftInv, SealPlan
  PROVE  \E rq : /\ Seals(picks[currentRound], rq)
                 /\ picks' = [picks EXCEPT ![currentRound] = rq]
<1> DEFINE rq == AutoPicked(Heirs, picks[currentRound], status)
<1>1. TypeOK /\ picks[currentRound] \in RoundType
  BY DEF DraftInv, TypeOK, RoundType
<1>2. Seals(picks[currentRound], rq)
  BY <1>1, AutoPickedSeals
<1>3. picks' = [picks EXCEPT ![currentRound] = rq]
  BY DEF SealPlan
<1> HIDE DEF rq
<1>4. QED BY <1>2, <1>3

\* Sealing the plan keeps the invariant of the draft.
LEMMA PlanTypes ==
  ASSUME DraftInv, SealPlan
  PROVE  DraftInv'
<1>1. PICK rq : Seals(picks[currentRound], rq) /\ picks' = [picks EXCEPT ![currentRound] = rq]
  BY PlanSeals
<1>2. currentRound' = currentRound /\ UNCHANGED <<status, awardedTo, awardedInRound>>
  BY DEF SealPlan, itemVars
<1>3. currentRound \in Rounds
  BY DEF DraftInv, TypeOK
<1>4. picks' \in [Rounds -> RoundType] /\ LedgerInv'
  BY <1>1, <1>2, <1>3, SealStep
<1>5. TypeOK'
  BY <1>4 DEF DraftInv, TypeOK, SealPlan, RoundType, tableVars, itemVars
<1>6. QED BY <1>4, <1>5 DEF DraftInv

\* Whatever the engine or anybody else does, the draft sees a seal, a reveal,
\* one of its own requests, or nothing.
LEMMA DraftSees ==
  ASSUME [AutoNext]_allVars
  PROVE  SealPlan \/ RevealRound \/ [Next]_draftVars
<1>1. CASE TickContested \/ TickBegin
  BY <1>1 DEF TickContested, TickBegin
<1>2. CASE TickEnd
  BY <1>2 DEF TickEnd
<1>3. CASE Restart \/ SwitchNext \/ UNCHANGED allVars
  <2>1. UNCHANGED draftVars
    BY <1>3 DEF Restart, SwitchNext, Respond, ResumeAutoDraft, SetAutoDraftEnabled, allVars
  <2>2. QED BY <2>1
<1>4. QED BY <1>1, <1>2, <1>3 DEF AutoNext, Tick

\* The invariant of the draft survives the engine: a reveal that comes after the
\* sleep, in whatever state the draft is by then, finds what it needs.
THEOREM EngineKeepsLedger == AutoSpec => []DraftInv
<1>1. AutoInit => DraftInv
  BY InitHolds DEF AutoInit
<1>2. DraftInv /\ [AutoNext]_allVars => DraftInv'
  BY DraftSees, PlanTypes, RevealTypes, NextHolds
<1>3. QED BY <1>1, <1>2, PTL DEF AutoSpec

\* With its engine the draft still implements the sealed-bid promise.
THEOREM EngineKeepsPromise == AutoSpec => KeepsPromise
<1>1. AutoInit => Promise!Init
  BY PromiseStarts DEF AutoInit
<1>2. ASSUME DraftInv, SealPlan PROVE Promise!Seal \/ Promise!Begin
  <2>1. PICK rq : Seals(picks[currentRound], rq) /\ picks' = [picks EXCEPT ![currentRound] = rq]
    BY <1>2, PlanSeals
  <2>2. currentRound' = currentRound /\ currentRound \in Rounds
    BY <1>2 DEF SealPlan, DraftInv, TypeOK
  <2>3. UNCHANGED awardedTo
    BY <1>2 DEF SealPlan, itemVars
  <2>4. QED BY <1>2, <2>1, <2>2, <2>3, SealRefines
<1>3. DraftInv /\ [AutoNext]_allVars => [Promise!Next]_Promise!vars
  BY <1>2, DraftSees, RevealRefines, OtherStepsRefine DEF CaptainReveal, Promise!Next
<1>4. QED BY <1>1, <1>3, EngineKeepsLedger, PTL DEF AutoSpec, KeepsPromise, Promise!Spec

\* And what the promise is worth: no automatic round passes for nothing either,
\* and whoever got an item last has it.
THEOREM EngineServes ==
  AutoSpec => [](Promise!ServedOnce /\ Promise!EveryRoundGives /\ Promise!LastGivenHolds)
<1>1. QED BY EngineKeepsPromise, PromiseIsWorth, PTL

-----------------------------------------------------------------------------
(* The rules of the draft, with the engine *)

\* The engine too reveals, or at most seals picks.
LEMMA EngineRevealsOrSeals ==
  ASSUME DraftInv, [AutoNext]_allVars
  PROVE  RevealRound \/ OnlySeals
<1>1. CASE SealPlan
  <2>1. PICK rq : Seals(picks[currentRound], rq) /\ picks' = [picks EXCEPT ![currentRound] = rq]
    BY <1>1, PlanSeals
  <2>2. picks \in [Rounds -> RoundType] /\ currentRound \in Rounds
    BY DEF DraftInv, TypeOK, RoundType
  <2>3. \A r \in Rounds : Seals(picks[r], picks[r])
    BY <2>2 DEF Seals
  <2>4. \A r \in Rounds : Seals(picks[r], picks'[r])
    BY <2>1, <2>2, <2>3
  <2>5. QED BY <2>4 DEF OnlySeals
<1>2. QED BY <1>1, DraftSees, StepsRevealOrSeal

\* Nor does the engine change a counter, except by its reveal.
LEMMA EngineCounts ==
  ASSUME TypedCounters = {}, [AutoNext]_allVars
  PROVE  RevealRound \/ UNCHANGED contestedLossCounter
<1>1. CASE SealPlan
  BY <1>1 DEF SealPlan, tableVars
<1>2. QED BY <1>1, DraftSees, OnlyRevealsCount DEF CaptainReveal

\* Under the engine items and flags move as without it.
LEMMA EngineItems ==
  ASSUME [AutoNext]_allVars
  PROVE  RevealRound \/ AppraisalNext \/ UNCHANGED <<status, appraisal>>
  BY DraftSees, ItemSteps DEF SealPlan, itemVars

\* Under the engine turns go round as without it.
LEMMA EngineTurns ==
  ASSUME TypeOK, OrderAfterStart, [AutoNext]_allVars
  PROVE  OrderAfterStart' /\ TurnKept
<1>1. CASE SealPlan
  BY <1>1 DEF SealPlan, tableVars, OrderAfterStart, TurnKept
<1>2. QED BY <1>1, DraftSees, TurnStep

\* What holds of every state of a draft holds of a draft that runs by itself: one
\* item a round and heir, and nothing escalated is suggested.
THEOREM EngineKeepsRules == AutoSpec => [](OneItemPerRound /\ EscalatedNotOffered)
<1>1. AutoInit => EscalatedIsOff
  BY EscalationsStart DEF AutoInit
<1>2. DraftInv /\ EscalatedIsOff /\ [AutoNext]_allVars => EscalatedIsOff'
  BY EngineItems, EscalationStep DEF DraftInv
<1>3. DraftInv /\ EscalatedIsOff => OneItemPerRound /\ EscalatedNotOffered
  BY OneOfTheRound, SuggestionsAreFree DEF DraftInv
<1>4. QED BY <1>1, <1>2, <1>3, EngineKeepsLedger, PTL DEF AutoSpec

\* So do the rules of the counters, as long as nobody types one in: losses are
\* shared, and each is counted once.
THEOREM EngineKeepsCounters ==
  ASSUME TypedCounters = {}
  PROVE  AutoSpec => [](LossesShared /\ CounterIsLedger)
<1> DEFINE Rules == LossesShared /\ CounterIsLedger
<1>1. AutoInit => Rules
  BY CountersStart DEF AutoInit, Init, LossesShared
<1>2. ASSUME DraftInv, Rules, [AutoNext]_allVars
      PROVE  Rules'
  <2>1. RevealRound \/ (OnlySeals /\ UNCHANGED contestedLossCounter)
    BY <1>2, EngineRevealsOrSeals, EngineCounts
  <2>2. LossesShared'
    BY <1>2, <2>1, StepShares DEF DraftInv
  <2>3. CounterIsLedger'
    BY <1>2, <2>1, StepCounts DEF CounterIsLedger
  <2>4. QED BY <2>2, <2>3
<1>3. QED BY <1>1, <1>2, EngineKeepsLedger, PTL DEF AutoSpec

\* And what holds of every step: what a tick seals before its sleep and opens
\* after it rewrites no pick, skips no turn and favours nobody.
THEOREM EngineKeepsOrder ==
  AutoSpec => LedgerAppendOnly /\ TurnsRotate /\ ContestsGoToTheUnlucky
<1>1. AutoInit => OrderAfterStart
  BY DEF AutoInit, Init, OrderAfterStart
<1>2. DraftInv /\ OrderAfterStart /\ [AutoNext]_allVars => OrderAfterStart' /\ [TurnKept]_draftVars
  BY EngineTurns DEF DraftInv
<1>3. DraftInv /\ [AutoNext]_allVars => [LedgerGrows]_draftVars /\ [FairToLosers]_draftVars
  BY EngineRevealsOrSeals, StepsGrow, RevealIsFair, SealIsFair
<1>4. QED
  BY <1>1, <1>2, <1>3, EngineKeepsLedger, PTL
     DEF AutoSpec, LedgerAppendOnly, TurnsRotate, TurnKept, ContestsGoToTheUnlucky, FairToLosers

-----------------------------------------------------------------------------
(* The engine itself *)

\* The number of the round never falls.
LEMMA RoundNeverFalls ==
  ASSUME DraftInv, [AutoNext]_allVars
  PROVE  currentRound \in Nat /\ currentRound' \in Nat /\ currentRound <= currentRound'
<1>1. currentRound \in Nat
  BY BoundsAssumption DEF DraftInv, TypeOK, Rounds
<1>2. CASE RevealRound
  BY <1>1, <1>2 DEF RevealRound, RevealWith, ContinueRound, CloseRound
<1>3. CASE SealPlan
  BY <1>1, <1>3 DEF SealPlan
<1>4. CASE Next /\ ~CaptainReveal
  <2>1. UNCHANGED currentRound \/ \E ph \in Phases : OpenRound(ph)
    BY <1>4 DEF Next, HeirNext, AppraisalNext, CaptainNext, SubmitPick, SetAutoSubmit,
         EditCounter, ReplaceRankings, FlagForAppraisal, UnflagAppraisal, SetHighValue, StartDraft, LeaveRanking, LeaveDraft, Pause, Resume, Phases
  <2>2. QED BY <1>1, <2>1 DEF OpenRound
<1>5. CASE UNCHANGED draftVars
  BY <1>1, <1>5 DEF draftVars
<1>6. QED BY <1>2, <1>3, <1>4, <1>5, DraftSees DEF CaptainReveal

\* Every variable of the engine keeps its type.
LEMMA AutoTypes ==
  ASSUME DraftInv, AutoTypeOK, [AutoNext]_allVars, DraftInv'
  PROVE  AutoTypeOK'
<1> USE DEF AutoTypeOK
<1>1. /\ currentRound \in Rounds /\ 0 \in Rounds
      /\ MaxStreak \in Nat /\ NoVotes \in [Voters -> {"none", "continue", "pause"}]
  BY BoundsAssumption, AutoAssumption DEF DraftInv, TypeOK, Rounds, NoVotes
<1>2. CASE TickContested
  BY <1>1, <1>2 DEF TickContested, settingVars, checkpointVars, tickVars
<1>3. CASE TickBegin
  BY <1>1, <1>3 DEF TickBegin, settingVars, checkpointVars
<1>4. CASE TickEnd
  <2>1. UNCHANGED <<autoDraftEnabled, autoDraftPaused, seenStreak>> /\ ~ticking'
    BY <1>4 DEF TickEnd, settingVars
  <2>2. autoRoundStreak' = seenStreak + 1 /\ autoDraftHoldRound' = 0 /\ ticking' \in BOOLEAN
    BY <1>4 DEF TickEnd
  <2>3. (checkpoint' = TRUE /\ responses' = NoVotes) \/ UNCHANGED <<checkpoint, responses>>
    BY <1>4, Zenon DEF TickEnd, checkpointVars
  <2>4. autoRoundStreak' \in 0..MaxStreak + 1
    BY <1>1, <2>2
  <2>5. QED BY <1>1, <2>1, <2>2, <2>3, <2>4
<1>5. CASE Restart
  BY <1>5 DEF Restart, settingVars, checkpointVars
<1>6. ASSUME NEW v \in Voters, NEW choice \in {"continue", "pause"}, Respond(v, choice)
      PROVE  AutoTypeOK'
  <2>1. responses' = [responses EXCEPT ![v] = choice]
        /\ UNCHANGED <<autoDraftEnabled, autoDraftHoldRound, ticking, seenStreak>>
    BY <1>6 DEF Respond, tickVars
  <2>2. responses' \in [Voters -> {"none", "continue", "pause"}]
    BY <2>1
  <2>3. checkpoint' \in BOOLEAN /\ autoDraftPaused' \in BOOLEAN
    BY <1>6, Zenon DEF Respond
  <2>4. autoRoundStreak' = 0 \/ autoRoundStreak' = autoRoundStreak
    BY <1>6, Zenon DEF Respond
  <2>5. 0 \in 0..MaxStreak + 1
    BY <1>1
  <2>6. QED BY <2>1, <2>2, <2>3, <2>4, <2>5
<1>7. CASE ResumeAutoDraft
  <2>1. autoRoundStreak' = 0 /\ autoDraftHoldRound' = 0 /\ responses' = NoVotes
        /\ autoDraftPaused' \in BOOLEAN /\ checkpoint' \in BOOLEAN
        /\ UNCHANGED <<autoDraftEnabled, ticking, seenStreak>>
    BY <1>7 DEF ResumeAutoDraft, tickVars
  <2>2. 0 \in 0..MaxStreak + 1
    BY <1>1
  <2>3. QED BY <1>1, <2>1, <2>2
<1>8. ASSUME NEW on \in BOOLEAN, SetAutoDraftEnabled(on)
      PROVE  AutoTypeOK'
  BY <1>8 DEF SetAutoDraftEnabled, checkpointVars, tickVars
<1>9. CASE UNCHANGED autoVars
  BY <1>9 DEF autoVars, settingVars, checkpointVars, tickVars
<1>10. QED
  BY <1>2, <1>3, <1>4, <1>5, <1>6, <1>7, <1>8, <1>9 DEF AutoNext, Tick, SwitchNext, allVars

\* Every variable of the engine keeps its type, for any interval.
THEOREM EngineTypes == AutoSpec => []AutoTypeOK
<1>1. AutoInit => AutoTypeOK
  <2>1. 0 \in 0..MaxStreak + 1 /\ 0 \in 0..MaxStreak /\ 0 \in Rounds
    BY BoundsAssumption, AutoAssumption DEF Rounds
  <2>2. NoVotes \in [Voters -> {"none", "continue", "pause"}]
    BY DEF NoVotes
  <2>3. QED BY <2>1, <2>2 DEF AutoInit, AutoTypeOK
<1>2. DraftInv /\ DraftInv' /\ AutoTypeOK /\ [AutoNext]_allVars => AutoTypeOK'
  BY AutoTypes
<1>3. QED BY <1>1, <1>2, EngineKeepsLedger, PTL DEF AutoSpec

\* While a reveal is in flight the table has not been asked, has not paused the
\* automation and does not hold the round, however many requests ran meanwhile.
THEOREM EngineStandsAsideAlways == AutoSpec => []EngineStandsAside
<1>1. AutoInit => EngineStandsAside
  BY DEF AutoInit, Init, EngineStandsAside
<1>2. DraftInv /\ AutoTypeOK /\ EngineStandsAside /\ [AutoNext]_allVars => EngineStandsAside'
  <2> SUFFICES ASSUME DraftInv, AutoTypeOK, EngineStandsAside, [AutoNext]_allVars
               PROVE  EngineStandsAside'
    OBVIOUS
  <2> USE DEF EngineStandsAside
  <2>1. /\ currentRound \in Nat /\ currentRound' \in Nat /\ currentRound <= currentRound'
        /\ autoDraftHoldRound \in Nat
    BY RoundNeverFalls, BoundsAssumption DEF AutoTypeOK, Rounds
  <2>2. CASE TickContested
    BY <2>1, <2>2 DEF TickContested, SealPlan, tickVars
  <2>3. CASE TickBegin
    BY <2>1, <2>3 DEF TickBegin, CanAct, SealPlan, settingVars, checkpointVars
  <2>4. CASE TickEnd
    BY <2>1, <2>4 DEF TickEnd
  <2>5. CASE Restart
    BY <2>1, <2>5 DEF Restart
  <2>6. ASSUME NEW v \in Voters, NEW choice \in {"continue", "pause"}, Respond(v, choice)
        PROVE  EngineStandsAside'
    BY <2>1, <2>6 DEF Respond, tickVars
  <2>7. CASE ResumeAutoDraft
    BY <2>1, <2>7 DEF ResumeAutoDraft, tickVars
  <2>8. ASSUME NEW on \in BOOLEAN, SetAutoDraftEnabled(on)
        PROVE  EngineStandsAside'
    BY <2>1, <2>8 DEF SetAutoDraftEnabled, checkpointVars, tickVars
  <2>9. CASE UNCHANGED autoVars
    BY <2>1, <2>9 DEF autoVars, settingVars, checkpointVars, tickVars
  <2>10. QED
    BY <2>2, <2>3, <2>4, <2>5, <2>6, <2>7, <2>8, <2>9 DEF AutoNext, Tick, SwitchNext, allVars
<1>3. QED BY <1>1, <1>2, EngineKeepsLedger, EngineTypes, PTL DEF AutoSpec

\* One heir's wish to pause decides a checkpoint, whatever comes in between.
THEOREM OnePauseDecides == AutoSpec => OnePauseStops
<1> DEFINE Decides == (checkpoint /\ ~checkpoint') =>
       \/ ~autoDraftPaused' /\ responses' = NoVotes
       \/ /\ \A h \in Heirs : responses'[h] # "none"
          /\ autoDraftPaused' = (\E v \in Voters : responses'[v] = "pause")
<1>1. [AutoNext]_allVars => [Decides]_allVars
  <2> SUFFICES ASSUME AutoNext, checkpoint, ~checkpoint'
               PROVE  \/ ~autoDraftPaused' /\ responses' = NoVotes
                      \/ /\ \A h \in Heirs : responses'[h] # "none"
                         /\ autoDraftPaused' = (\E v \in Voters : responses'[v] = "pause")
    OBVIOUS
  <2>1. ~(TickContested \/ TickBegin \/ TickEnd \/ Restart \/ UNCHANGED autoVars)
    BY DEF TickContested, TickBegin, TickEnd, Restart, autoVars, checkpointVars
  <2>2. CASE ResumeAutoDraft
    BY <2>2 DEF ResumeAutoDraft
  <2>3. ASSUME NEW v \in Voters, NEW choice \in {"continue", "pause"}, Respond(v, choice)
        PROVE  /\ \A h \in Heirs : responses'[h] # "none"
               /\ autoDraftPaused' = (\E w \in Voters : responses'[w] = "pause")
    BY <2>3 DEF Respond
  <2>4. ~\E on \in BOOLEAN : SetAutoDraftEnabled(on)
    BY DEF SetAutoDraftEnabled, checkpointVars
  <2>5. QED BY <2>1, <2>2, <2>3, <2>4 DEF AutoNext, Tick, SwitchNext
<1>2. QED BY <1>1, PTL DEF AutoSpec, OnePauseStops
=============================================================================
