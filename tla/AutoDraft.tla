------------------------------ MODULE AutoDraft ------------------------------
(***************************************************************************)
(* The automatic draft of FairPlay on top of DraftRound.                   *)
(*                                                                         *)
(* Every state poll of a browser runs one tick.  A tick seals the top      *)
(* choice of every heir who owes a pick.  If two of those choices are the  *)
(* same item, the tick puts the round on hold for the table; otherwise it  *)
(* sleeps 600 ms and then reveals the round.  The sleep is the one place   *)
(* where a handler of the server yields with work half done: other         *)
(* requests run, the process may stop, and the session row it read before  *)
(* the sleep is used after it.  After every Interval automatic rounds the  *)
(* heirs are asked to continue or to pause.                                *)
(*                                                                         *)
(* Left out: the timestamps of a checkpoint, its nudge and its stalled     *)
(* alert, which only notify.                                               *)
(***************************************************************************)
EXTENDS DraftRound

CONSTANTS
  Administrators,   \* participants who administer only: they may answer too
  Interval,         \* reconciliationInterval
  MaxStreak         \* bound on autoRoundStreak

ASSUME AutoAssumption ==
  /\ Administrators \cap Heirs = {}
  /\ Interval \in Nat \ {0}
  /\ MaxStreak \in Nat

VARIABLES
  autoDraftEnabled,
  autoDraftPaused,
  autoRoundStreak,
  autoDraftHoldRound,   \* 0 for null
  checkpoint,           \* reconciliation.active
  responses,            \* reconciliation.responses
  ticking,              \* a tick sleeps: autoStepRunning is held
  seenStreak            \* autoRoundStreak as that tick read it

checkpointVars == <<checkpoint, responses>>
settingVars    == <<autoDraftEnabled, autoDraftPaused>>
tickVars       == <<ticking, seenStreak>>
autoVars  == <<settingVars, autoRoundStreak, autoDraftHoldRound, checkpointVars, tickVars>>
allVars   == <<draftVars, autoVars>>

Voters  == Heirs \cup Administrators
NoVotes == [v \in Voters |-> "none"]

AutoTypeOK ==
  /\ autoDraftEnabled \in BOOLEAN /\ autoDraftPaused \in BOOLEAN
  /\ autoRoundStreak \in 0..MaxStreak + 1
  /\ autoDraftHoldRound \in Rounds
  /\ checkpoint \in BOOLEAN
  /\ responses \in [Voters -> {"none", "continue", "pause"}]
  /\ ticking \in BOOLEAN
  /\ seenStreak \in 0..MaxStreak

AutoInit ==
  /\ Init
  /\ autoDraftEnabled = TRUE /\ autoDraftPaused = FALSE
  /\ autoRoundStreak = 0 /\ autoDraftHoldRound = 0
  /\ checkpoint = FALSE /\ responses = NoVotes
  /\ ticking = FALSE /\ seenStreak = 0

-----------------------------------------------------------------------------
(* The tick *)

RoundPicks == picks[currentRound]
Owing      == {h \in Heirs : OwedLevel(RoundPicks[h]) # 0}
Plannable  == {h \in Heirs : CanAutoPick(h, RoundPicks[h], status)}
Planned(h) == AutoSuggest(h, RoundPicks[h], status)

\* Mutant: a round on hold is not left to the table.
CanActOnHeld ==
  /\ ~paused
  /\ phase \in Drafting
  /\ autoDraftEnabled /\ ~autoDraftPaused
  /\ ~checkpoint
  /\ Cardinality(Heirs) >= 2
  /\ Owing # {}
  /\ Owing = Plannable

\* The early returns of autoDraftStep.
CanAct ==
  /\ ~paused
  /\ phase \in Drafting
  /\ autoDraftEnabled /\ ~autoDraftPaused
  /\ ~checkpoint
  /\ autoDraftHoldRound # currentRound
  /\ Cardinality(Heirs) >= 2
  /\ Owing # {}
  /\ Owing = Plannable

\* Looks only at the picks this tick makes.
PlanContested == \E g, h \in Plannable : g # h /\ Planned(g) = Planned(h)

SealPlan ==
  /\ picks' = [picks EXCEPT ![currentRound] = AutoPicked(Heirs, @, status)]
  /\ UNCHANGED <<phase, paused, currentRound, tableVars, itemVars>>

TickContested ==
  /\ ~ticking /\ CanAct /\ PlanContested
  /\ SealPlan
  /\ autoRoundStreak' = 0
  /\ autoDraftHoldRound' = currentRound
  /\ UNCHANGED <<settingVars, checkpointVars, tickVars>>

TickBegin ==
  /\ ~ticking /\ CanAct /\ ~PlanContested
  /\ autoRoundStreak <= MaxStreak
  /\ SealPlan
  /\ ticking' = TRUE
  /\ seenStreak' = autoRoundStreak
  /\ UNCHANGED <<settingVars, autoRoundStreak, autoDraftHoldRound, checkpointVars>>

\* Mutant: the streak read before the sleep is added to the one stored now.
TickEndTwice ==
  /\ ticking
  /\ ticking' = FALSE
  /\ IF PendingHeirs(RoundPicks) # {} THEN RevealRound ELSE UNCHANGED draftVars
  /\ autoRoundStreak' = seenStreak + autoRoundStreak + 1
  /\ autoDraftHoldRound' = 0
  /\ UNCHANGED <<settingVars, checkpointVars, seenStreak>>

\* After the sleep: reveal whatever is sealed in the round that is current now.
TickEnd ==
  /\ ticking
  /\ ticking' = FALSE
  /\ IF PendingHeirs(RoundPicks) # {} THEN RevealRound ELSE UNCHANGED draftVars
  /\ autoRoundStreak' = seenStreak + 1
  /\ autoDraftHoldRound' = 0
  /\ IF /\ (seenStreak + 1) % Interval = 0
        /\ phase' # "complete"
        /\ \E i \in Available(status') : ~flagged[i]
     THEN checkpoint' = TRUE /\ responses' = NoVotes
     ELSE UNCHANGED checkpointVars
  /\ UNCHANGED <<settingVars, seenStreak>>

\* The process stops and starts again: the sleeping tick is gone.
Restart ==
  /\ ticking
  /\ ticking' = FALSE
  /\ UNCHANGED <<draftVars, settingVars, autoRoundStreak, autoDraftHoldRound,
                 checkpointVars, seenStreak>>

-----------------------------------------------------------------------------
(* The checkpoint and the captain's switches; none of them is refused while *)
(* the estate is paused.                                                    *)

\* Mutants: the last answer decides, or it is left out of the count.
RespondLastDecides(v, choice) ==
  /\ checkpoint
  /\ responses' = [responses EXCEPT ![v] = choice]
  /\ IF \A h \in Heirs : responses'[h] # "none"
     THEN /\ checkpoint' = FALSE
          /\ autoRoundStreak' = 0
          /\ autoDraftPaused' = (choice = "pause")
     ELSE UNCHANGED <<checkpoint, autoRoundStreak, autoDraftPaused>>
  /\ UNCHANGED <<draftVars, autoDraftEnabled, autoDraftHoldRound, tickVars>>
RespondUncounted(v, choice) ==
  /\ checkpoint
  /\ responses' = [responses EXCEPT ![v] = choice]
  /\ IF \A h \in Heirs : responses[h] # "none"
     THEN /\ checkpoint' = FALSE
          /\ autoRoundStreak' = 0
          /\ autoDraftPaused' = (\E w \in Voters : responses'[w] = "pause")
     ELSE UNCHANGED <<checkpoint, autoRoundStreak, autoDraftPaused>>
  /\ UNCHANGED <<draftVars, autoDraftEnabled, autoDraftHoldRound, tickVars>>

Respond(v, choice) ==
  /\ checkpoint
  /\ responses' = [responses EXCEPT ![v] = choice]
  /\ IF \A h \in Heirs : responses'[h] # "none"
     THEN /\ checkpoint' = FALSE
          /\ autoRoundStreak' = 0
          /\ autoDraftPaused' = (\E w \in Voters : responses'[w] = "pause")
     ELSE UNCHANGED <<checkpoint, autoRoundStreak, autoDraftPaused>>
  /\ UNCHANGED <<draftVars, autoDraftEnabled, autoDraftHoldRound, tickVars>>

ResumeAutoDraft ==
  /\ autoDraftPaused' = FALSE
  /\ autoRoundStreak' = 0
  /\ autoDraftHoldRound' = 0
  /\ checkpoint' = FALSE /\ responses' = NoVotes
  /\ UNCHANGED <<draftVars, autoDraftEnabled, tickVars>>

SetAutoDraftEnabled(on) ==
  /\ autoDraftEnabled' = on
  /\ UNCHANGED <<draftVars, autoDraftPaused, autoRoundStreak, autoDraftHoldRound,
                 checkpointVars, tickVars>>

Tick == TickContested \/ TickBegin \/ TickEnd

SwitchNext ==
  \/ \E v \in Voters, choice \in {"continue", "pause"} : Respond(v, choice)
  \/ ResumeAutoDraft
  \/ \E on \in BOOLEAN : SetAutoDraftEnabled(on)

AutoNext == Tick \/ Restart \/ SwitchNext \/ (Next /\ UNCHANGED autoVars)

AutoSpec == AutoInit /\ [][AutoNext]_allVars

-----------------------------------------------------------------------------
(* Properties *)

\* While an automatic round is in flight the table has not been asked, has not
\* paused the automation, and does not hold the round the reveal will open,
\* however far other requests moved the draft on during the sleep.
EngineStandsAside ==
  /\ autoDraftHoldRound <= currentRound
  /\ ticking => /\ ~checkpoint /\ ~autoDraftPaused
                /\ autoDraftHoldRound < currentRound

\* One heir's wish to pause decides a checkpoint: the captain closes it and the
\* automation goes on with a clean sheet, or the last heir's answer closes it
\* and the automation pauses exactly if one of the voters asked for that.
OnePauseStops ==
  [][(checkpoint /\ ~checkpoint') =>
       \/ ~autoDraftPaused' /\ responses' = NoVotes
       \/ /\ \A h \in Heirs : responses'[h] # "none"
          /\ autoDraftPaused' = (\E v \in Voters : responses'[v] = "pause")]_allVars

\* A draft left to itself never hangs: it ends, or it waits for the table
\* because a round is contested or somebody's ranking is used up.
WaitsForTable ==
  \/ phase \notin Drafting
  \/ autoDraftHoldRound = currentRound
  \/ Plannable # Owing
UnattendedSettles == <>[]WaitsForTable
=============================================================================
