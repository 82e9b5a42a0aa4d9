------------------------------ MODULE DraftRound ------------------------------
(***************************************************************************)
(* The sealed-pick draft of FairPlay (apps/reindeer-fair-play/server).     *)
(*                                                                         *)
(* In each round every heir seals one pick.  A reveal opens the lowest     *)
(* pick level still sealed: an item picked by one heir is awarded, an item *)
(* picked by several goes to the heir with the highest contested-loss      *)
(* counter, ties broken by the priority order, and the losers owe another  *)
(* pick, up to a third.  A finished round rotates the priority order.      *)
(*                                                                         *)
(* Each HTTP handler of the server reads and writes a synchronous SQLite   *)
(* connection without yielding to another request, so one handler is one   *)
(* action.  AutoDraft adds the one operation that does yield.              *)
(*                                                                         *)
(* Left out: practice mode, groupings and duplicates, roster changes after *)
(* the draft begins (the isAdmin and administersOnly columns of PATCH      *)
(* /api/participants/:id among them), the captain's direct edits of the    *)
(* session and item rows (PATCH /api/session, PATCH /api/items/:id), the   *)
(* undoing of a logged flag change (Catalogue has it), ranking deadlines   *)
(* and the primary/secondary label stored with an award.                   *)
(***************************************************************************)
EXTENDS Naturals, Sequences, FiniteSets

CONSTANTS
  Heirs,      \* participants who draft (administersOnly = false)
  Items,      \* items that are neither practice items nor in a grouping
  Nobody,     \* awardedToParticipantId = null
  Stage,      \* position of each item's contested stage; the general round last
  RankTopN,   \* items each heir must rank before a ranking phase is left
  TypedCounters,  \* loss counters somebody may write over the API; the pages write none
  MaxRound    \* bound on currentRound

ASSUME HeirsAssumption == IsFiniteSet(Heirs) /\ Nobody \notin Heirs
ASSUME ItemsAssumption == IsFiniteSet(Items) /\ Stage \in [Items -> Nat]
ASSUME BoundsAssumption == RankTopN \in Nat /\ MaxRound \in Nat \ {0} /\ TypedCounters \subseteq Nat

VARIABLES
  phase,                 \* sessions.phase, from the ranking phase on
  paused,                \* sessions.state = 'paused'
  currentRound,
  priorityOrder,
  contestedLossCounter,
  autoSubmit,            \* participants.auto_submit
  status,                \* items.status
  awardedTo,
  awardedInRound,
  flagged,               \* items.needs_appraisal, the classification flag
  appraisal,             \* active appraisal_flags row: "none", "owner", or "heir"
                         \* for every source the captain may revert
  rankings,              \* each heir's ordered list
  picks                  \* picks[r][h]: h's picks of round r in pickOrder order

tableVars == <<priorityOrder, contestedLossCounter, autoSubmit, rankings>>
itemVars  == <<status, awardedTo, awardedInRound, flagged, appraisal>>
draftVars == <<phase, paused, currentRound, tableVars, itemVars, picks>>

-----------------------------------------------------------------------------
(* Types *)

Phases   == {"ranking", "draft", "secondary_ranking", "secondary_draft", "complete"}
Drafting == {"draft", "secondary_draft"}
Ranking  == {"ranking", "secondary_ranking"}
Rounds   == 0..MaxRound
Statuses == {"available", "awarded", "needs_appraisal"}
Outcomes == {"pending", "awarded", "lost_contest"}
Pick     == [item : Items, outcome : Outcomes, counts : BOOLEAN]

\* Orderings without repetition of some of the elements of S.
Lists(S) == UNION {{s \in [1..n -> S] : \A j, k \in 1..n : s[j] = s[k] => j = k} :
                     n \in 0..Cardinality(S)}

\* A priority order names every heir once.
Orders == {p \in [1..Cardinality(Heirs) -> Heirs] :
             \A h \in Heirs : \E k \in DOMAIN p : p[k] = h}

TypeOK ==
  /\ phase \in Phases /\ paused \in BOOLEAN
  /\ currentRound \in Rounds
  /\ priorityOrder \in Orders \cup {<<>>}
  /\ contestedLossCounter \in [Heirs -> Nat]
  /\ autoSubmit \in [Heirs -> BOOLEAN]
  /\ status \in [Items -> Statuses]
  /\ awardedTo \in [Items -> Heirs \cup {Nobody}]
  /\ awardedInRound \in [Items -> Rounds]
  /\ flagged \in [Items -> BOOLEAN]
  /\ appraisal \in [Items -> {"none", "heir", "owner"}]
  /\ rankings \in [Heirs -> Seq(Items)]
  /\ picks \in [Rounds -> [Heirs -> Seq(Pick)]]

-----------------------------------------------------------------------------
(* What the handlers compute *)

Last(s) == s[Len(s)]

\* Mutants: the last pick's outcome is not looked at, or any opened pick will do.
OwedLevelAlways(s) == IF s = <<>> THEN 1 ELSE IF Len(s) < 3 THEN Len(s) + 1 ELSE 0
OwedLevelOpened(s) ==
  IF s = <<>> THEN 1
  ELSE IF Last(s).outcome # "pending" /\ Len(s) < 3 THEN Len(s) + 1 ELSE 0

\* The pick level an heir with picks s still owes in the round, 0 for none.
OwedLevel(s) ==
  IF s = <<>> THEN 1
  ELSE IF Last(s).outcome = "lost_contest" /\ Len(s) < 3 THEN Len(s) + 1 ELSE 0

IsPending(s) == s # <<>> /\ Last(s).outcome = "pending"

Available(stat) == {i \in Items : stat[i] = "available"}

\* Mutant: only the flag keeps an item out, not the status of its escalation.
RankablePoolByFlag(stat) ==
  LET live == {i \in Items : stat[i] # "awarded" /\ ~flagged[i]}
  IN {i \in live : \A j \in live : Stage[i] <= Stage[j]}

\* Items in play: the earliest contested stage that still has any, otherwise
\* the general round.
RankablePool(stat) ==
  LET live == {i \in Available(stat) : ~flagged[i]}
  IN {i \in live : \A j \in live : Stage[i] <= Stage[j]}

Ranked(h) == {rankings[h][k] : k \in DOMAIN rankings[h]}

\* What autoSuggest chooses among: ranked, in the pool, not tried this round.
Choices(h, s, stat) ==
  {i \in RankablePool(stat) \cap Ranked(h) : \A k \in DOMAIN s : s[k].item # i}

\* The position of the highest-ranked choice in h's list.
BestRank(h, s, stat) ==
  CHOOSE k \in DOMAIN rankings[h] :
    /\ rankings[h][k] \in Choices(h, s, stat)
    /\ \A j \in DOMAIN rankings[h] : rankings[h][j] \in Choices(h, s, stat) => k <= j

AutoSuggest(h, s, stat) == rankings[h][BestRank(h, s, stat)]

SealedPick(i, counted) == [item |-> i, outcome |-> "pending", counts |-> counted]

\* Heirs for whom the server can pick now, and the round after it has.
CanAutoPick(h, s, stat) == OwedLevel(s) # 0 /\ Choices(h, s, stat) # {}
AutoPicked(who, rp, stat) ==
  [h \in Heirs |->
     IF h \in who /\ CanAutoPick(h, rp[h], stat)
     THEN Append(rp[h], SealedPick(AutoSuggest(h, rp[h], stat), TRUE))
     ELSE rp[h]]

\* runAutoSubmitSweep on the round rp in phase ph.
AutoSubmitSweep(auto, rp, stat, ph) ==
  IF ph \in Drafting THEN AutoPicked({h \in Heirs : auto[h]}, rp, stat) ELSE rp

PriorityIndex(h) ==
  IF \E k \in DOMAIN priorityOrder : priorityOrder[k] = h
  THEN CHOOSE k \in DOMAIN priorityOrder : priorityOrder[k] = h
  ELSE 99

\* Mutants: only the turn decides, or the counters are compared the wrong way.
OutranksByTurn(a, b) == PriorityIndex(a) < PriorityIndex(b)
OutranksSwapped(a, b) ==
  \/ contestedLossCounter[a] < contestedLossCounter[b]
  \/ /\ contestedLossCounter[a] = contestedLossCounter[b]
     /\ PriorityIndex(a) < PriorityIndex(b)

Outranks(a, b) ==
  \/ contestedLossCounter[a] > contestedLossCounter[b]
  \/ /\ contestedLossCounter[a] = contestedLossCounter[b]
     /\ PriorityIndex(a) < PriorityIndex(b)

\* Mutant: P1 leaves the order instead of going to the back.
RotateOut(p) == SubSeq(p, 2, Len(p))
Rotate(p) == [k \in DOMAIN p |-> IF k + 1 \in DOMAIN p THEN p[k + 1] ELSE p[1]]

-----------------------------------------------------------------------------
(* Opening the sealed picks rp of a round *)

PendingHeirs(rp) == {h \in Heirs : IsPending(rp[h])}

\* Mutant: picks opened before are not filtered out.
AtLevelReopened(rp) ==
  {h \in Heirs : rp[h] # <<>> /\ \A g \in PendingHeirs(rp) : Len(rp[h]) <= Len(rp[g])}

\* The heirs whose sealed pick has the lowest pick level: theirs are opened.
AtLevel(rp) ==
  {h \in PendingHeirs(rp) : \A g \in PendingHeirs(rp) : Len(rp[h]) <= Len(rp[g])}

Claim(rp, h) == Last(rp[h]).item
Claimed(rp) == {Claim(rp, h) : h \in AtLevel(rp)}
Contenders(rp, i) == {h \in AtLevel(rp) : Claim(rp, h) = i}

\* Who wins each claimed item.  Only before a priority order is drawn can two
\* contenders be level; the sort then keeps them as they picked, so either.
Winners(rp) ==
  {won \in [Claimed(rp) -> Heirs] :
     \A i \in Claimed(rp) :
       /\ won[i] \in Contenders(rp, i)
       /\ \A h \in Contenders(rp, i) : ~Outranks(h, won[i])}

Wins(rp, won, h) == won[Claim(rp, h)] = h

\* Mutant: the winning pick's own outcome is not stored.
OpenedLosers(rp, won) ==
  [h \in Heirs |->
     IF h \in AtLevel(rp) /\ ~Wins(rp, won, h)
     THEN [rp[h] EXCEPT ![Len(rp[h])].outcome = "lost_contest"] ELSE rp[h]]

Opened(rp, won) ==
  [h \in Heirs |->
     IF h \in AtLevel(rp)
     THEN [rp[h] EXCEPT ![Len(rp[h])].outcome =
             IF Wins(rp, won, h) THEN "awarded" ELSE "lost_contest"]
     ELSE rp[h]]

StatusAfter(won) == [i \in Items |-> IF i \in DOMAIN won THEN "awarded" ELSE status[i]]

\* Mutant: losses of the high-value panel count too.
LossesAfterAnyPick(rp, won) ==
  [h \in Heirs |->
     IF h \in AtLevel(rp) /\ ~Wins(rp, won, h)
     THEN contestedLossCounter[h] + 1 ELSE contestedLossCounter[h]]

LossesAfter(rp, won) ==
  [h \in Heirs |->
     IF h \in AtLevel(rp) /\ ~Wins(rp, won, h) /\ Last(rp[h]).counts
     THEN contestedLossCounter[h] + 1 ELSE contestedLossCounter[h]]

\* Nothing sealed, and nobody who owes a pick has a suggestion left.
RoundOver(rp, stat) ==
  /\ PendingHeirs(rp) = {}
  /\ (\A h \in Heirs : ~CanAutoPick(h, rp[h], stat)) \/ Available(stat) = {}

PhaseAfterRound(stat) ==
  CASE Available(stat) = {} -> "complete"
    [] Available(stat) # {} /\ (\E h \in Heirs : Ranked(h) \cap Available(stat) # {}) ->
         IF phase = "secondary_draft" THEN "secondary_draft" ELSE "draft"
    [] OTHER -> IF phase = "secondary_draft" THEN "complete" ELSE "secondary_ranking"

\* The tail of revealRound: either the round goes on, or it closes, the
\* priority order rotates and the sweep fills the next round.
ContinueRound(opened) ==
  /\ picks' = [picks EXCEPT ![currentRound] = opened]
  /\ UNCHANGED <<phase, currentRound, priorityOrder>>

CloseRound(opened, stat) ==
  /\ currentRound < MaxRound
  /\ phase' = PhaseAfterRound(stat)
  /\ currentRound' = currentRound + 1
  /\ priorityOrder' = Rotate(priorityOrder)
  /\ picks' = [picks EXCEPT
                 ![currentRound] = opened,
                 ![currentRound + 1] =
                   AutoSubmitSweep(autoSubmit, @, stat, PhaseAfterRound(stat))]

\* revealRound with something to reveal.
RevealWith(rp, won) ==
  /\ status' = StatusAfter(won)
  /\ awardedTo' = [i \in Items |-> IF i \in DOMAIN won THEN won[i] ELSE awardedTo[i]]
  /\ awardedInRound' =
       [i \in Items |-> IF i \in DOMAIN won THEN currentRound ELSE awardedInRound[i]]
  /\ contestedLossCounter' = LossesAfter(rp, won)
  /\ \/ /\ RoundOver(Opened(rp, won), StatusAfter(won))
        /\ CloseRound(Opened(rp, won), StatusAfter(won))
     \/ /\ ~RoundOver(Opened(rp, won), StatusAfter(won))
        /\ ContinueRound(Opened(rp, won))

RevealRound ==
  /\ PendingHeirs(picks[currentRound]) # {}
  /\ \E won \in Winners(picks[currentRound]) : RevealWith(picks[currentRound], won)
  /\ UNCHANGED <<paused, flagged, appraisal, autoSubmit, rankings>>

-----------------------------------------------------------------------------
(* The requests of heirs and captain.  enforcePause refuses each of them    *)
(* while the estate is paused, except Resume and the edit of a flag.        *)

Init ==
  /\ phase = "ranking" /\ paused = FALSE
  /\ currentRound = 0
  /\ priorityOrder = <<>>
  /\ contestedLossCounter = [h \in Heirs |-> 0]
  /\ autoSubmit = [h \in Heirs |-> FALSE]
  /\ appraisal \in [Items -> {"none", "owner"}]
  /\ flagged = [i \in Items |-> appraisal[i] # "none"]
  /\ status = [i \in Items |-> IF appraisal[i] = "none" THEN "available" ELSE "needs_appraisal"]
  /\ awardedTo = [i \in Items |-> Nobody]
  /\ awardedInRound = [i \in Items |-> 0]
  /\ rankings \in [Heirs -> Lists(RankablePool(status))]
  /\ picks = [r \in Rounds |-> [h \in Heirs |-> <<>>]]

\* Looks at the item's flag, and at neither its status nor its escalation.
SubmitPick(h, i, counted) ==
  /\ ~paused
  /\ ~flagged[i]
  /\ OwedLevel(picks[currentRound][h]) # 0
  /\ picks' = [picks EXCEPT ![currentRound][h] = Append(@, SealedPick(i, counted))]
  /\ UNCHANGED <<phase, paused, currentRound, tableVars, itemVars>>

\* The list is filtered to the pool and renumbered before it is stored.
ReplaceRankings(h, list) ==
  /\ ~paused
  /\ list \in Lists(RankablePool(status))
  /\ rankings' = [rankings EXCEPT ![h] = list]
  /\ UNCHANGED <<phase, paused, currentRound, priorityOrder, contestedLossCounter,
                 autoSubmit, itemVars, picks>>

\* PATCH /api/participants/:id with autoSubmit: turning it on sweeps the current
\* round at once.
SetAutoSubmit(h, on) ==
  /\ ~paused
  /\ autoSubmit' = [autoSubmit EXCEPT ![h] = on]
  /\ picks' = IF on
              THEN [picks EXCEPT ![currentRound] = AutoSubmitSweep(autoSubmit', @, status, phase)]
              ELSE picks
  /\ UNCHANGED <<phase, paused, currentRound, priorityOrder, contestedLossCounter,
                 rankings, itemVars>>

\* PATCH /api/participants/:id with contestedLossCounter, which nobody's role is
\* asked for.  A request with both columns is the two steps in a row.
EditCounter(h, n) ==
  /\ ~paused
  /\ contestedLossCounter' = [contestedLossCounter EXCEPT ![h] = n]
  /\ UNCHANGED <<phase, paused, currentRound, priorityOrder, autoSubmit, rankings, itemVars, picks>>

\* The ranking list, which names an item once, without it and the rest moved up.
Without(list, i) ==
  IF \A k \in DOMAIN list : list[k] # i THEN list
  ELSE [k \in 1..Len(list) - 1 |->
          IF \E j \in 1..k : list[j] = i THEN list[k + 1] ELSE list[k]]

\* setItemFlags with needsAppraisal, by anybody in a ranking phase, paused or
\* not.  Setting the flag takes the item off every list.  The escalation, if
\* there is one, and the status stay.
SetHighValue(i, on) ==
  /\ phase \in Ranking
  /\ flagged[i] # on
  /\ flagged' = [flagged EXCEPT ![i] = on]
  /\ rankings' = IF on THEN [h \in Heirs |-> Without(rankings[h], i)] ELSE rankings
  /\ UNCHANGED <<phase, paused, currentRound, priorityOrder, contestedLossCounter, autoSubmit,
                 status, awardedTo, awardedInRound, appraisal, picks>>

\* flagForAppraisal: idempotent while an escalation is active; looks at neither
\* the phase nor the item's status.
FlagForAppraisal(i) ==
  /\ ~paused
  /\ appraisal[i] = "none"
  /\ appraisal' = [appraisal EXCEPT ![i] = "heir"]
  /\ flagged' = [flagged EXCEPT ![i] = TRUE]
  /\ status' = [status EXCEPT ![i] = "needs_appraisal"]
  /\ UNCHANGED <<phase, paused, currentRound, tableVars, awardedTo, awardedInRound, picks>>

\* unflagAppraisal: an owner's escalation is not withdrawn.
UnflagAppraisal(i) ==
  /\ ~paused
  /\ appraisal[i] = "heir"
  /\ appraisal' = [appraisal EXCEPT ![i] = "none"]
  /\ flagged' = [flagged EXCEPT ![i] = FALSE]
  /\ status' = [status EXCEPT ![i] = "available"]
  /\ UNCHANGED <<phase, paused, currentRound, tableVars, awardedTo, awardedInRound, picks>>

CaptainReveal == ~paused /\ RevealRound

\* Mutants: starting again opens the next round, or draws the order afresh.
OpenNextRound(ph) ==
  /\ phase' = ph
  /\ IF priorityOrder = <<>> THEN priorityOrder' \in Orders ELSE UNCHANGED priorityOrder
  /\ currentRound' = IF currentRound < MaxRound THEN currentRound + 1 ELSE currentRound
  /\ UNCHANGED <<paused, contestedLossCounter, autoSubmit, rankings, itemVars>>
OpenRoundReshuffled(ph) ==
  /\ phase' = ph
  /\ priorityOrder' \in Orders
  /\ currentRound' = IF currentRound = 0 THEN 1 ELSE currentRound
  /\ UNCHANGED <<paused, contestedLossCounter, autoSubmit, rankings, itemVars>>

\* startDraft: draws a priority order if there is none; no check of the phase.
OpenRound(ph) ==
  /\ phase' = ph
  /\ IF priorityOrder = <<>> THEN priorityOrder' \in Orders ELSE UNCHANGED priorityOrder
  /\ currentRound' = IF currentRound = 0 THEN 1 ELSE currentRound
  /\ UNCHANGED <<paused, contestedLossCounter, autoSubmit, rankings, itemVars>>

StartDraft == ~paused /\ OpenRound("draft") /\ UNCHANGED picks

\* Every heir ranks enough of the pool to leave a ranking phase without force.
RankingComplete ==
  LET pool == RankablePool(status)
  IN \A h \in Heirs : \/ Cardinality(Ranked(h) \cap pool) >= RankTopN
                       \/ pool \subseteq Ranked(h)

\* nextPhase out of a ranking phase opens the draft and sweeps.
LeaveRanking(force) ==
  /\ ~paused
  /\ phase \in Ranking
  /\ force \/ RankingComplete
  /\ OpenRound(IF phase = "ranking" THEN "draft" ELSE "secondary_draft")
  /\ picks' = [picks EXCEPT ![currentRound'] = AutoSubmitSweep(autoSubmit, @, status, phase')]

\* nextPhase out of a draft phase; a sealed pick does not hold it back.
LeaveDraft ==
  /\ ~paused
  /\ phase \in Drafting
  /\ phase' = IF phase = "draft" /\ Available(status) # {} THEN "secondary_ranking" ELSE "complete"
  /\ UNCHANGED <<paused, currentRound, tableVars, itemVars, picks>>

Pause  == ~paused /\ paused' = TRUE  /\ UNCHANGED <<phase, currentRound, tableVars, itemVars, picks>>
Resume == paused  /\ paused' = FALSE /\ UNCHANGED <<phase, currentRound, tableVars, itemVars, picks>>

HeirNext ==
  \E h \in Heirs :
    \/ \E i \in Items, counted \in BOOLEAN : SubmitPick(h, i, counted)
    \/ \E on \in BOOLEAN : SetAutoSubmit(h, on)
    \/ \E n \in TypedCounters : EditCounter(h, n)
    \/ \E list \in Lists(Items) : ReplaceRankings(h, list)

AppraisalNext ==
  \E i \in Items :
    FlagForAppraisal(i) \/ UnflagAppraisal(i) \/ \E on \in BOOLEAN : SetHighValue(i, on)

CaptainNext ==
  \/ CaptainReveal
  \/ StartDraft
  \/ \E force \in BOOLEAN : LeaveRanking(force)
  \/ LeaveDraft
  \/ Pause
  \/ Resume

Next == HeirNext \/ AppraisalNext \/ CaptainNext

Spec == Init /\ [][Next]_draftVars

-----------------------------------------------------------------------------
(* Properties *)

\* An heir seals a second or third pick only after losing the one before:
\* within a round every pick but the heir's last lost its contest, and there
\* are at most three.  So nobody holds two sealed picks, or picks again after
\* an award, whoever submitted them: the heir, a sweep or the captain.
Disciplined(s) ==
  Len(s) <= 3 /\ \A k \in 1..Len(s) - 1 : s[k].outcome = "lost_contest"
PickDiscipline == \A r \in Rounds, h \in Heirs : Disciplined(picks[r][h])

\* No sealed pick is stranded when a round closes, and no pick is made ahead
\* of its round.  (Round 0 is the time before the draft begins: a pick sealed
\* then is left behind when startDraft moves to round 1.)
RoundsInOrder ==
  \A r \in Rounds, h \in Heirs :
    /\ 0 < r /\ r < currentRound => ~IsPending(picks[r][h])
    /\ r > currentRound => picks[r][h] = <<>>

\* What Results shows is what the ledger says: an awarded item has an owner
\* whose last pick of the award's round named it and was awarded.
AwardRecorded(i) ==
  \E h \in Heirs :
    /\ awardedTo[i] = h
    /\ awardedInRound[i] <= currentRound
    /\ picks[awardedInRound[i]][h] # <<>>
    /\ Last(picks[awardedInRound[i]][h]).item = i
    /\ Last(picks[awardedInRound[i]][h]).outcome = "awarded"
AwardsRecorded == \A i \in Items : status[i] = "awarded" => AwardRecorded(i)

\* A round gives no heir two items.
OneItemPerRound ==
  \A i, j \in Items :
    (/\ status[i] = "awarded" /\ status[j] = "awarded"
     /\ awardedTo[i] = awardedTo[j] /\ awardedInRound[i] = awardedInRound[j]) => i = j

\* Contested losses are shared: an heir is never two losses ahead of everyone
\* else, because the heir with the most losses wins the contest.  (As long as
\* nobody types a counter in.)
LossesShared ==
  \A h \in Heirs :
    contestedLossCounter[h] > 0 =>
      \E g \in Heirs \ {h} : contestedLossCounter[g] + 1 >= contestedLossCounter[h]

\* The counter that decides contests is the number of counted losses in the
\* ledger: no loss is forgotten, none is counted twice.  (As long as nobody
\* types a counter in.)
CountedLosses(h) ==
  {e \in Rounds \X (1..3) :
     /\ e[2] \in DOMAIN picks[e[1]][h]
     /\ picks[e[1]][h][e[2]].outcome = "lost_contest"
     /\ picks[e[1]][h][e[2]].counts}
CounterIsLedger == \A h \in Heirs : contestedLossCounter[h] = Cardinality(CountedLosses(h))

\* While an escalation is open the server suggests the item to nobody, whoever
\* cleared its classification flag meanwhile and put it back on a list.  So a
\* sweep or a tick never seals it; only somebody who picks it by hand can.
EscalatedNotOffered ==
  \A h \in Heirs :
    LET s == picks[currentRound][h]
    IN CanAutoPick(h, s, status) => appraisal[AutoSuggest(h, s, status)] = "none"

\* The ledger only grows: a sealed pick keeps its item until it is opened, and
\* an opened pick never changes again.
LedgerGrows ==
  \A r \in Rounds, h \in Heirs :
    /\ Len(picks[r][h]) <= Len(picks'[r][h])
    /\ \A k \in DOMAIN picks[r][h] :
         /\ picks'[r][h][k].item = picks[r][h][k].item
         /\ picks[r][h][k].outcome # "pending" => picks'[r][h][k] = picks[r][h][k]
LedgerAppendOnly == [][LedgerGrows]_draftVars

\* Once drawn, the priority order moves exactly when a round closes, by one
\* place: nobody's turn to go first is skipped or repeated.
TurnsRotate ==
  [][priorityOrder # <<>> =>
       \/ currentRound' = currentRound + 1 /\ priorityOrder' = Rotate(priorityOrder)
       \/ UNCHANGED <<currentRound, priorityOrder>>]_draftVars

\* A contest is never won against a heavier loser: the heirs a reveal turns
\* away had no more contested losses than the one it awards the item to.
ContestsGoToTheUnlucky ==
  [][\A h \in Heirs :
       LET before == picks[currentRound][h]
           after  == picks'[currentRound][h]
       IN (IsPending(before) /\ Last(after).outcome = "lost_contest") =>
            LET w == awardedTo'[Last(before).item]
            IN /\ w \in Heirs \ {h}
               /\ contestedLossCounter[w] >= contestedLossCounter[h]]_draftVars

-----------------------------------------------------------------------------
(* What the documents say of the draft and the code does not do *)

\* The specification of the escalations: those of the owner are permanent, the
\* trust handles such an item outside the game.  So none is ever awarded.
OwnerItemsStayOut == \A i \in Items : appraisal[i] = "owner" => status[i] # "awarded"

\* revealRound's comment: an heir with nothing ranked and available passes,
\* otherwise the round could never complete.  So a round under way never has
\* nothing sealed and nobody with a suggestion left.
NoRoundStuck ==
  (/\ phase \in Drafting /\ currentRound > 0
   /\ \E h \in Heirs : picks[currentRound][h] # <<>>) =>
      ~RoundOver(picks[currentRound], status)
=============================================================================
