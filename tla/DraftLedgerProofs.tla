------------------------- MODULE DraftLedgerProofs -------------------------
(* More about the ledger of DraftRound, for any set of heirs and items: it   *)
(* only grows, the counters are read off it, the turns go round, and nothing *)
(* escalated is ever suggested for it.                                       *)
EXTENDS DraftRoundProofs

-----------------------------------------------------------------------------
(* How the picks of one heir in one round change *)

\* s becomes t by sealing one more pick.
SealsOne(s, t) ==
  \E i \in Items, counted \in BOOLEAN : t = Append(s, SealedPick(i, counted))

\* s becomes t by opening its last pick, with outcome o.
OpensLast(s, t, o) ==
  /\ s \in Seq(Pick) /\ t \in Seq(Pick) /\ s # <<>> /\ Last(s).outcome = "pending"
  /\ t = [s EXCEPT ![Len(s)] = [Last(s) EXCEPT !.outcome = o]]

\* An opened pick is the last one; the others, its item and its panel stay.
LEMMA OpensLastKeeps ==
  ASSUME NEW s, NEW t, NEW o \in {"awarded", "lost_contest"}, OpensLast(s, t, o)
  PROVE  /\ Len(t) = Len(s) /\ Len(s) \in Nat \ {0}
         /\ DOMAIN s = 1..Len(s) /\ DOMAIN t = 1..Len(s)
         /\ s[Len(s)].outcome = "pending" /\ t[Len(s)].outcome = o
         /\ t[Len(s)].item = s[Len(s)].item /\ t[Len(s)].counts = s[Len(s)].counts
         /\ \A k \in DOMAIN s : k # Len(s) => t[k] = s[k]
<1>1. s \in Seq(Pick) /\ t \in Seq(Pick) /\ s # <<>> /\ Len(s) \in Nat \ {0} /\ DOMAIN s = 1..Len(s)
  BY EmptySeq, LenProperties DEF OpensLast
<1>2. s[Len(s)] \in Pick /\ Last(s) = s[Len(s)] /\ Last(s).outcome = "pending"
  BY <1>1, ElementOfSeq DEF OpensLast, Last
<1> DEFINE e == [Last(s) EXCEPT !.outcome = o]
<1>3. e \in Pick /\ e.item = s[Len(s)].item /\ e.outcome = o /\ e.counts = s[Len(s)].counts
  BY <1>2 DEF Pick, Outcomes
<1>4. t = [s EXCEPT ![Len(s)] = e]
  BY DEF OpensLast
<1> HIDE DEF e
<1>5. /\ Len(t) = Len(s)
      /\ \A j \in 1..Len(s) : t[j] = IF j = Len(s) THEN e ELSE s[j]
  BY <1>1, <1>3, <1>4, ExceptSeq
<1>6. DOMAIN t = 1..Len(t)
  BY <1>1, LenProperties
<1>7. Len(s) \in 1..Len(s) /\ t[Len(s)] = e /\ \A k \in 1..Len(s) : k # Len(s) => t[k] = s[k]
  <2>1. Len(s) \in 1..Len(s)
    BY <1>1
  <2>2. QED BY <1>5, <2>1
<1>8. t[Len(s)].item = s[Len(s)].item /\ t[Len(s)].counts = s[Len(s)].counts
      /\ t[Len(s)].outcome = o /\ s[Len(s)].outcome = "pending"
  BY <1>2, <1>3, <1>7
<1>9. DOMAIN t = 1..Len(s) /\ Len(t) = Len(s)
  BY <1>5, <1>6
<1>10. QED BY <1>1, <1>7, <1>8, <1>9

\* In a step of the draft an heir's picks of a round stay, gain a sealed pick,
\* or have their sealed pick opened.
LEMMA LedgerStep ==
  ASSUME DraftInv, RevealRound \/ OnlySeals, NEW r \in Rounds, NEW h \in Heirs
  PROVE  \/ picks'[r][h] = picks[r][h]
         \/ SealsOne(picks[r][h], picks'[r][h])
         \/ \E o \in {"awarded", "lost_contest"} : OpensLast(picks[r][h], picks'[r][h], o)
<1>1. \A q \in Rounds : Seals(picks[q], picks'[q]) =>
        picks'[q][h] = picks[q][h] \/ SealsOne(picks[q][h], picks'[q][h])
  BY DEF Seals, SealsOne
<1>2. CASE RevealRound
  <2> DEFINE rp == picks[currentRound]
  <2>1. PICK won \in Winners(rp) : RevealWith(rp, won)
    BY <1>2 DEF RevealRound
  <2>2. /\ picks'[currentRound] = Opened(rp, won)
        /\ \A q \in Rounds \ {currentRound} : Seals(picks[q], picks'[q])
    BY <2>1, RevealedPicks
  <2>3. rp \in RoundType /\ Disciplined(rp[h])
    BY DEF DraftInv, LedgerInv, PickDiscipline, TypeOK, RoundType
  <2> HIDE DEF rp
  <2>4. CASE r = currentRound /\ h \in AtLevel(rp)
    <3>1. Opened(rp, won)[h] \in Seq(Pick)
      BY <2>1, <2>3, <2>4, OpenedPick DEF rp
    <3>2. rp[h] \in Seq(Pick) /\ rp[h] # <<>> /\ Last(rp[h]).outcome = "pending"
      BY <2>3, <2>4 DEF AtLevel, PendingHeirs, IsPending, RoundType
    <3>3. Opened(rp, won)[h] =
            [rp[h] EXCEPT ![Len(rp[h])] =
               [Last(rp[h]) EXCEPT !.outcome = IF Wins(rp, won, h) THEN "awarded" ELSE "lost_contest"]]
      BY <2>4 DEF Opened, Last
    <3>4. OpensLast(rp[h], Opened(rp, won)[h], IF Wins(rp, won, h) THEN "awarded" ELSE "lost_contest")
      BY <3>1, <3>2, <3>3 DEF OpensLast
    <3>5. QED BY <2>2, <2>4, <3>4 DEF rp
  <2>5. CASE r = currentRound /\ h \notin AtLevel(rp)
    <3>1. Opened(rp, won)[h] = rp[h]
      BY <2>5 DEF Opened
    <3>2. QED BY <2>2, <2>5, <3>1 DEF rp
  <2>6. CASE r # currentRound
    BY <1>1, <2>2, <2>6
  <2>7. QED BY <2>4, <2>5, <2>6
<1>3. CASE OnlySeals
  BY <1>1, <1>3 DEF OnlySeals
<1>4. QED BY <1>2, <1>3

\* The picks of a round are sequences of at most three.
LEMMA LedgerRow ==
  ASSUME DraftInv, NEW r \in Rounds, NEW h \in Heirs
  PROVE  /\ picks[r][h] \in Seq(Pick) /\ Len(picks[r][h]) \in Nat /\ Len(picks[r][h]) <= 3
         /\ DOMAIN picks[r][h] = 1..Len(picks[r][h])
<1>1. picks[r][h] \in Seq(Pick) /\ Disciplined(picks[r][h])
  BY DEF DraftInv, LedgerInv, PickDiscipline, TypeOK
<1>2. QED BY <1>1, LenProperties DEF Disciplined

\* What one more sealed pick leaves in place.
LEMMA SealsOneKeeps ==
  ASSUME NEW s \in Seq(Pick), NEW t, SealsOne(s, t)
  PROVE  /\ Len(t) = Len(s) + 1 /\ DOMAIN t = 1..Len(s) + 1 /\ Len(s) \in Nat
         /\ \A k \in 1..Len(s) : t[k] = s[k]
         /\ t[Len(s) + 1].outcome = "pending"
<1>1. PICK i \in Items, counted \in BOOLEAN : t = Append(s, SealedPick(i, counted))
  BY DEF SealsOne
<1>2. SealedPick(i, counted) \in Pick /\ SealedPick(i, counted).item = i
      /\ SealedPick(i, counted).outcome = "pending"
  BY DEF SealedPick, Pick, Outcomes
<1>3. /\ t \in Seq(Pick) /\ Len(t) = Len(s) + 1 /\ Len(s) \in Nat
      /\ t[Len(s) + 1] = SealedPick(i, counted) /\ \A k \in 1..Len(s) : t[k] = s[k]
  BY <1>1, <1>2, AppendProperties, LenProperties
<1>4. DOMAIN t = 1..Len(t)
  BY <1>3, LenProperties
<1>5. QED BY <1>1, <1>2, <1>3, <1>4

-----------------------------------------------------------------------------
(* The ledger only grows *)

\* No step of the draft rewrites an opened pick or the item of a sealed one.
LEMMA StepsGrow ==
  ASSUME DraftInv, RevealRound \/ OnlySeals
  PROVE  LedgerGrows
<1> SUFFICES ASSUME NEW r \in Rounds, NEW h \in Heirs
             PROVE  /\ Len(picks[r][h]) <= Len(picks'[r][h])
                    /\ \A k \in DOMAIN picks[r][h] :
                         /\ picks'[r][h][k].item = picks[r][h][k].item
                         /\ picks[r][h][k].outcome # "pending" => picks'[r][h][k] = picks[r][h][k]
  BY DEF LedgerGrows
<1>1. /\ picks[r][h] \in Seq(Pick) /\ Len(picks[r][h]) \in Nat
      /\ DOMAIN picks[r][h] = 1..Len(picks[r][h])
  BY LedgerRow
<1>2. CASE picks'[r][h] = picks[r][h]
  BY <1>1, <1>2
<1>3. CASE SealsOne(picks[r][h], picks'[r][h])
  BY <1>1, <1>3, SealsOneKeeps
<1>4. ASSUME NEW o \in {"awarded", "lost_contest"}, OpensLast(picks[r][h], picks'[r][h], o)
      PROVE  /\ Len(picks[r][h]) <= Len(picks'[r][h])
             /\ \A k \in DOMAIN picks[r][h] :
                  /\ picks'[r][h][k].item = picks[r][h][k].item
                  /\ picks[r][h][k].outcome # "pending" => picks'[r][h][k] = picks[r][h][k]
  BY <1>1, <1>4, OpensLastKeeps
<1>5. QED BY <1>2, <1>3, <1>4, LedgerStep

\* The ledger is append-only: the step a captain or an heir takes never undoes
\* or rewrites what an earlier reveal recorded.
THEOREM LedgerIsAppendOnly == Spec => LedgerAppendOnly
<1>1. DraftInv /\ [Next]_draftVars => [LedgerGrows]_draftVars
  BY StepsGrow, StepsRevealOrSeal
<1>2. QED BY <1>1, DraftInvariant, PTL DEF Spec, LedgerAppendOnly

-----------------------------------------------------------------------------
(* The turns *)

\* A priority order is drawn no later than the first round opens.
OrderAfterStart == priorityOrder # <<>> => currentRound # 0

\* A reveal closes the round and rotates the order, or leaves both alone.
LEMMA RevealTurns ==
  ASSUME TypeOK, RevealRound
  PROVE  \/ currentRound' = currentRound + 1 /\ priorityOrder' = Rotate(priorityOrder)
         \/ UNCHANGED <<currentRound, priorityOrder>>
  BY DEF RevealRound, RevealWith, ContinueRound, CloseRound

\* A request other than a reveal leaves a drawn order and its round alone.
LEMMA OtherTurns ==
  ASSUME TypeOK, OrderAfterStart, [Next]_draftVars, ~CaptainReveal
  PROVE  /\ priorityOrder # <<>> => UNCHANGED <<currentRound, priorityOrder>>
         /\ OrderAfterStart'
<1>1. CASE UNCHANGED <<currentRound, priorityOrder>>
  BY <1>1 DEF OrderAfterStart
<1>2. ASSUME NEW ph, OpenRound(ph)
      PROVE  /\ priorityOrder # <<>> => UNCHANGED <<currentRound, priorityOrder>>
             /\ OrderAfterStart'
  BY <1>2 DEF OpenRound, OrderAfterStart
<1>3. UNCHANGED <<currentRound, priorityOrder>> \/ \E ph \in Phases : OpenRound(ph)
  BY DEF Next, HeirNext, AppraisalNext, CaptainNext, SubmitPick, SetAutoSubmit, EditCounter,
         ReplaceRankings, FlagForAppraisal, UnflagAppraisal, SetHighValue, StartDraft,
         LeaveRanking, LeaveDraft, Pause, Resume, draftVars, tableVars, Phases
<1>4. QED BY <1>1, <1>2, <1>3

\* A drawn order keeps its round, or the round closes and it moves by one place.
TurnKept ==
  priorityOrder # <<>> =>
    \/ currentRound' = currentRound + 1 /\ priorityOrder' = Rotate(priorityOrder)
    \/ UNCHANGED <<currentRound, priorityOrder>>

\* Requests and reveals keep the turns.
LEMMA TurnStep ==
  ASSUME TypeOK, OrderAfterStart, RevealRound \/ [Next]_draftVars
  PROVE  OrderAfterStart' /\ TurnKept
<1>1. CASE RevealRound
  <2>1. \/ currentRound' = currentRound + 1 /\ priorityOrder' = Rotate(priorityOrder)
        \/ UNCHANGED <<currentRound, priorityOrder>>
    BY <1>1, RevealTurns
  <2>2. currentRound \in Nat
    BY BoundsAssumption DEF TypeOK, Rounds
  <2>3. QED BY <2>1, <2>2 DEF OrderAfterStart, TurnKept
<1>2. CASE [Next]_draftVars /\ ~CaptainReveal
  BY <1>2, OtherTurns DEF TurnKept
<1>3. QED BY <1>1, <1>2 DEF CaptainReveal

\* Nobody's turn to go first is skipped or repeated.
THEOREM TurnsGoRound == Spec => TurnsRotate
<1>1. Init => OrderAfterStart
  BY DEF Init, OrderAfterStart
<1>2. TypeOK /\ OrderAfterStart /\ [Next]_draftVars => OrderAfterStart' /\ [TurnKept]_draftVars
  BY TurnStep
<1>3. QED BY <1>1, <1>2, DraftTypes, PTL DEF Spec, TurnsRotate, TurnKept

-----------------------------------------------------------------------------
(* What is escalated *)

\* An item with an open escalation is not available: it awaits its appraisal, or
\* was awarded before the escalation or after somebody picked it by hand.
EscalatedIsOff == \A i \in Items : appraisal[i] # "none" => status[i] # "available"

\* Whatever is asked, escalations and statuses move by reveals and by appraisal
\* requests.
LEMMA ItemSteps ==
  ASSUME [Next]_draftVars
  PROVE  RevealRound \/ AppraisalNext \/ UNCHANGED <<status, appraisal>>
  BY DEF Next, HeirNext, CaptainNext, CaptainReveal, SubmitPick, SetAutoSubmit, EditCounter,
         ReplaceRankings, StartDraft, OpenRound, LeaveRanking, LeaveDraft, Pause, Resume,
         draftVars, itemVars

\* An escalation and the status of its item are written together, and a reveal
\* makes nothing available.
LEMMA EscalationStep ==
  ASSUME TypeOK, EscalatedIsOff, RevealRound \/ AppraisalNext \/ UNCHANGED <<status, appraisal>>
  PROVE  EscalatedIsOff'
<1>1. appraisal \in [Items -> {"none", "heir", "owner"}] /\ status \in [Items -> Statuses]
  BY DEF TypeOK
<1>2. CASE RevealRound
  <2>1. PICK won \in Winners(picks[currentRound]) :
          status' = StatusAfter(won) /\ UNCHANGED appraisal
    BY <1>2 DEF RevealRound, RevealWith
  <2>2. QED BY <1>1, <2>1 DEF EscalatedIsOff, StatusAfter
<1>3. CASE AppraisalNext
  <2>1. PICK i \in Items :
          \/ appraisal' = [appraisal EXCEPT ![i] = "heir"] /\ status' = [status EXCEPT ![i] = "needs_appraisal"]
          \/ appraisal' = [appraisal EXCEPT ![i] = "none"] /\ status' = [status EXCEPT ![i] = "available"]
          \/ UNCHANGED <<status, appraisal>>
    BY <1>3 DEF AppraisalNext, FlagForAppraisal, UnflagAppraisal, SetHighValue
  <2>2. QED BY <1>1, <2>1 DEF EscalatedIsOff
<1>4. CASE UNCHANGED <<status, appraisal>>
  BY <1>4 DEF EscalatedIsOff
<1>5. QED BY <1>2, <1>3, <1>4

\* The owner's escalations are in place when the draft begins.
LEMMA EscalationsStart == Init => EscalatedIsOff
  BY DEF Init, EscalatedIsOff

\* A suggestion is an available item, so no escalated one.
LEMMA SuggestionsAreFree ==
  ASSUME TypeOK, EscalatedIsOff
  PROVE  EscalatedNotOffered
<1> SUFFICES ASSUME NEW h \in Heirs, CanAutoPick(h, picks[currentRound][h], status)
             PROVE  appraisal[AutoSuggest(h, picks[currentRound][h], status)] = "none"
  BY DEF EscalatedNotOffered
<1>1. AutoSuggest(h, picks[currentRound][h], status) \in Choices(h, picks[currentRound][h], status)
  BY SuggestionIsAChoice DEF CanAutoPick, TypeOK
<1>2. AutoSuggest(h, picks[currentRound][h], status) \in Available(status)
  BY <1>1 DEF Choices, RankablePool
<1>3. QED BY <1>2 DEF Available, EscalatedIsOff

\* No sweep and no tick ever seals an escalated item.
THEOREM EscalatedStayUnoffered == Spec => []EscalatedNotOffered
<1>1. TypeOK /\ EscalatedIsOff /\ [Next]_draftVars => EscalatedIsOff'
  BY EscalationStep, ItemSteps
<1>2. TypeOK /\ EscalatedIsOff => EscalatedNotOffered
  BY SuggestionsAreFree
<1>3. QED BY <1>1, <1>2, EscalationsStart, DraftTypes, PTL DEF Spec

-----------------------------------------------------------------------------
(* The counters *)

\* The places of the ledger are finitely many.
LEMMA FinitePlaces == IsFiniteSet(Rounds \X (1..3))
<1>1. 0 \in Int /\ 1 \in Int /\ 3 \in Int /\ MaxRound \in Int
  BY BoundsAssumption
<1>2. IsFiniteSet(0..MaxRound) /\ IsFiniteSet(1..3)
  BY <1>1, FS_Interval
<1>3. QED BY <1>2, FS_Product DEF Rounds

\* The pick at place e of the ledger is a counted loss of h.
LostAt(h, e) ==
  /\ e[2] \in DOMAIN picks[e[1]][h]
  /\ picks[e[1]][h][e[2]].outcome = "lost_contest"
  /\ picks[e[1]][h][e[2]].counts

\* The step turns h's sealed pick at place <<r, k>> into a counted loss.
LosesAt(h, r, k) ==
  /\ OpensLast(picks[r][h], picks'[r][h], "lost_contest")
  /\ k = Len(picks[r][h]) /\ Last(picks[r][h]).counts

\* A place of the ledger becomes a counted loss only by the opening of its pick.
LEMMA SamePlace ==
  ASSUME DraftInv, RevealRound \/ OnlySeals, NEW h \in Heirs, NEW r \in Rounds, NEW k \in 1..3,
         ~LosesAt(h, r, k)
  PROVE  LostAt(h, <<r, k>>)' <=> LostAt(h, <<r, k>>)
<1> DEFINE s == picks[r][h]
           t == picks'[r][h]
<1>1. s \in Seq(Pick) /\ Len(s) \in Nat /\ DOMAIN s = 1..Len(s)
  BY LedgerRow
<1>2. t = s \/ SealsOne(s, t) \/ \E o \in {"awarded", "lost_contest"} : OpensLast(s, t, o)
  BY LedgerStep
<1>3. OpensLast(s, t, "lost_contest") /\ k = Len(s) => ~s[Len(s)].counts
  BY DEF LosesAt, Last
<1>4. /\ LostAt(h, <<r, k>>) <=> k \in DOMAIN s /\ s[k].outcome = "lost_contest" /\ s[k].counts
      /\ LostAt(h, <<r, k>>)' <=> k \in DOMAIN t /\ t[k].outcome = "lost_contest" /\ t[k].counts
  BY DEF LostAt
<1> HIDE DEF s, t
<1>5. CASE t = s
  BY <1>4, <1>5
<1>6. CASE SealsOne(s, t)
  <2>1. /\ DOMAIN t = 1..Len(s) + 1 /\ t[Len(s) + 1].outcome = "pending"
        /\ \A j \in 1..Len(s) : t[j] = s[j]
    BY <1>1, <1>6, SealsOneKeeps
  <2>2. CASE k \in 1..Len(s)
    <3>1. t[k] = s[k] /\ k \in DOMAIN t /\ k \in DOMAIN s
      BY <1>1, <2>1, <2>2
    <3>2. QED BY <1>4, <3>1
  <2>3. CASE k \notin 1..Len(s)
    <3>1. k \notin DOMAIN s /\ (k \in DOMAIN t => t[k].outcome = "pending")
      BY <1>1, <2>1, <2>3
    <3>2. QED BY <1>4, <3>1
  <2>4. QED BY <2>2, <2>3
<1>7. ASSUME NEW o \in {"awarded", "lost_contest"}, OpensLast(s, t, o)
      PROVE  LostAt(h, <<r, k>>)' <=> LostAt(h, <<r, k>>)
  <2>1. /\ DOMAIN t = 1..Len(s) /\ Len(s) \in 1..Len(s)
        /\ t[Len(s)].outcome = o /\ t[Len(s)].counts = s[Len(s)].counts
        /\ s[Len(s)].outcome = "pending"
        /\ \A j \in DOMAIN s : j # Len(s) => t[j] = s[j]
    BY <1>7, OpensLastKeeps
  <2>2. CASE k = Len(s)
    BY <1>3, <1>4, <1>7, <2>1, <2>2
  <2>3. CASE k # Len(s)
    BY <1>1, <1>4, <2>1, <2>3
  <2>4. QED BY <2>2, <2>3
<1>8. QED BY <1>2, <1>5, <1>6, <1>7

\* The counted losses are the lost places.
LEMMA LossesAreLost ==
  ASSUME NEW h \in Heirs
  PROVE  /\ CountedLosses(h) = {e \in Rounds \X (1..3) : LostAt(h, e)}
         /\ CountedLosses(h)' = {e \in Rounds \X (1..3) : LostAt(h, e)'}
  BY DEF CountedLosses, LostAt

\* A step that counts no loss for h leaves h's counted losses alone.
LEMMA SameLosses ==
  ASSUME DraftInv, RevealRound \/ OnlySeals, NEW h \in Heirs,
         \A r \in Rounds, k \in 1..3 : ~LosesAt(h, r, k)
  PROVE  CountedLosses(h)' = CountedLosses(h)
<1>1. \A r \in Rounds, k \in 1..3 : LostAt(h, <<r, k>>)' <=> LostAt(h, <<r, k>>)
  BY SamePlace
<1>2. ASSUME NEW e \in Rounds \X (1..3)
      PROVE  LostAt(h, e)' <=> LostAt(h, e)
  <2>1. PICK r \in Rounds, k \in 1..3 : e = <<r, k>>
    OBVIOUS
  <2>2. QED BY <1>1, <2>1
<1>3. QED BY <1>2, LossesAreLost

\* A step that counts one loss for h adds one to h's counted losses.
LEMMA OneMoreLoss ==
  ASSUME DraftInv, RevealRound \/ OnlySeals, NEW h \in Heirs, NEW r \in Rounds, NEW k \in 1..3,
         LosesAt(h, r, k),
         \A q \in Rounds, j \in 1..3 : LosesAt(h, q, j) => q = r /\ j = k
  PROVE  /\ CountedLosses(h)' = CountedLosses(h) \cup {<<r, k>>}
         /\ <<r, k>> \notin CountedLosses(h)
<1>1. LostAt(h, <<r, k>>)' /\ ~LostAt(h, <<r, k>>)
  <2>1. /\ DOMAIN picks'[r][h] = 1..k /\ k \in 1..k
        /\ picks'[r][h][k].outcome = "lost_contest" /\ picks[r][h][k].outcome = "pending"
        /\ picks'[r][h][k].counts = picks[r][h][k].counts
    BY OpensLastKeeps DEF LosesAt
  <2>2. picks[r][h][k].counts
    BY DEF LosesAt, Last
  <2>3. QED BY <2>1, <2>2 DEF LostAt
<1>2. ASSUME NEW e \in Rounds \X (1..3), e # <<r, k>>
      PROVE  LostAt(h, e)' <=> LostAt(h, e)
  <2>1. PICK q \in Rounds, j \in 1..3 : e = <<q, j>>
    OBVIOUS
  <2>2. ~LosesAt(h, q, j)
    BY <1>2, <2>1
  <2>3. LostAt(h, <<q, j>>)' <=> LostAt(h, <<q, j>>)
    BY <2>2, SamePlace
  <2>4. QED BY <2>1, <2>3
<1>3. <<r, k>> \in Rounds \X (1..3)
  OBVIOUS
<1>4. QED BY <1>1, <1>2, <1>3, LossesAreLost

\* A seal, or nothing at all, opens no pick.
LEMMA SealsOpenNothing ==
  ASSUME NEW s \in Seq(Pick), NEW t, t = s \/ SealsOne(s, t)
  PROVE  ~OpensLast(s, t, "lost_contest")
<1> SUFFICES ASSUME OpensLast(s, t, "lost_contest") PROVE FALSE
  OBVIOUS
<1>1. Len(t) = Len(s) /\ Len(s) \in Nat
      /\ s[Len(s)].outcome = "pending" /\ t[Len(s)].outcome = "lost_contest"
  BY OpensLastKeeps
<1>2. CASE t = s
  BY <1>1, <1>2
<1>3. CASE SealsOne(s, t)
  <2>1. Len(t) = Len(s) + 1
    BY <1>3, SealsOneKeeps
  <2>2. QED BY <1>1, <2>1
<1>4. QED BY <1>2, <1>3

\* A round whose picks are only sealed counts no loss.
LEMMA SealsCountNothing ==
  ASSUME DraftInv, NEW h \in Heirs, NEW r \in Rounds, Seals(picks[r], picks'[r]), NEW k
  PROVE  ~LosesAt(h, r, k)
<1>1. picks'[r][h] = picks[r][h] \/ SealsOne(picks[r][h], picks'[r][h])
  BY DEF Seals, SealsOne
<1>2. QED BY <1>1, LedgerRow, SealsOpenNothing DEF LosesAt

\* Every step counts in the ledger the losses it counts in the counter.
LEMMA StepCounts ==
  ASSUME DraftInv, CounterIsLedger, NEW h \in Heirs,
         RevealRound \/ (OnlySeals /\ UNCHANGED contestedLossCounter)
  PROVE  contestedLossCounter'[h] = Cardinality(CountedLosses(h)')
<1>1. /\ contestedLossCounter[h] = Cardinality(CountedLosses(h))
      /\ contestedLossCounter \in [Heirs -> Nat] /\ currentRound \in Rounds
  BY DEF CounterIsLedger, DraftInv, TypeOK
<1>2. IsFiniteSet(CountedLosses(h))
  BY FinitePlaces, FS_Subset, LossesAreLost
<1>3. CASE OnlySeals /\ UNCHANGED contestedLossCounter
  <2>1. contestedLossCounter'[h] = contestedLossCounter[h]
    BY <1>3
  <2>2. CountedLosses(h)' = CountedLosses(h)
    BY <1>3, SealsCountNothing, SameLosses DEF OnlySeals
  <2>3. QED BY <1>1, <2>1, <2>2
<1>4. CASE RevealRound
  <2> DEFINE rp == picks[currentRound]
             loses(won) == h \in AtLevel(rp) /\ ~Wins(rp, won, h) /\ Last(rp[h]).counts
  <2>1. PICK won \in Winners(rp) : RevealWith(rp, won)
    BY <1>4 DEF RevealRound
  <2>2. /\ picks'[currentRound] = Opened(rp, won)
        /\ \A q \in Rounds \ {currentRound} : Seals(picks[q], picks'[q])
    BY <2>1, RevealedPicks
  <2>3. contestedLossCounter'[h] =
          IF loses(won) THEN contestedLossCounter[h] + 1 ELSE contestedLossCounter[h]
    BY <2>1 DEF RevealWith, LossesAfter
  <2>4. rp \in RoundType /\ Disciplined(rp[h])
    BY <1>1 DEF DraftInv, LedgerInv, PickDiscipline, TypeOK, RoundType
  <2> DEFINE n == Len(rp[h])
  <2>5. \A q \in Rounds, k \in 1..3 : LosesAt(h, q, k) => q = currentRound /\ k = n
    BY <2>2, SealsCountNothing DEF LosesAt
  <2>6. CASE loses(won)
    <3>1. OpensLast(rp[h], picks'[currentRound][h], "lost_contest")
      <4>1. Opened(rp, won)[h] \in Seq(Pick)
        BY <2>1, <2>4, <2>6, OpenedPick
      <4> HIDE DEF rp
      <4>2. rp[h] \in Seq(Pick) /\ rp[h] # <<>> /\ Last(rp[h]).outcome = "pending"
        BY <2>4, <2>6 DEF AtLevel, PendingHeirs, IsPending, RoundType
      <4>3. Opened(rp, won)[h] = [rp[h] EXCEPT ![Len(rp[h])] =
                                    [Last(rp[h]) EXCEPT !.outcome = "lost_contest"]]
        BY <2>6 DEF Opened, Last
      <4>4. QED BY <2>2, <4>1, <4>2, <4>3 DEF OpensLast
    <3>2. LosesAt(h, currentRound, n)
      BY <2>6, <3>1 DEF LosesAt
    <3>3. n \in 1..3
      <4>1. Len(rp[h]) \in Nat \ {0}
        BY <3>1, OpensLastKeeps
      <4>2. Len(rp[h]) <= 3
        BY <2>4 DEF Disciplined
      <4>3. \A m \in Nat \ {0} : m <= 3 => m \in 1..3
        OBVIOUS
      <4> HIDE DEF rp
      <4>4. QED BY <4>1, <4>2, <4>3
    <3>4. /\ CountedLosses(h)' = CountedLosses(h) \cup {<<currentRound, n>>}
          /\ <<currentRound, n>> \notin CountedLosses(h)
      BY <1>1, <2>5, <3>2, <3>3, OneMoreLoss
    <3> HIDE DEF n
    <3>5. Cardinality(CountedLosses(h)') = Cardinality(CountedLosses(h)) + 1
      BY <1>2, <3>4, FS_AddElement
    <3>6. QED BY <1>1, <2>3, <2>6, <3>5
  <2>7. CASE ~loses(won)
    <3>1. ~LosesAt(h, currentRound, n)
      <4> SUFFICES ASSUME OpensLast(rp[h], Opened(rp, won)[h], "lost_contest"), Last(rp[h]).counts
                   PROVE  FALSE
        BY <2>2 DEF LosesAt
      <4>1. n \in Nat /\ rp[h][n].outcome = "pending" /\ Opened(rp, won)[h][n].outcome = "lost_contest"
            /\ Len(Opened(rp, won)[h]) = n
        BY OpensLastKeeps
      <4>2. h \in AtLevel(rp)
        BY <4>1 DEF Opened
      <4>3. Last(Opened(rp, won)[h]).outcome = "awarded"
        BY <2>1, <2>4, <2>7, <4>2, OpenedPick
      <4>4. QED BY <4>1, <4>3 DEF Last
    <3>2. \A q \in Rounds, k \in 1..3 : ~LosesAt(h, q, k)
      BY <2>5, <3>1
    <3>3. CountedLosses(h)' = CountedLosses(h)
      BY <3>2, SameLosses
    <3>4. QED BY <1>1, <2>3, <2>7, <3>3
  <2>8. QED BY <2>6, <2>7
<1>5. QED BY <1>3, <1>4

\* When the draft begins nothing is lost.
LEMMA CountersStart == Init => CounterIsLedger
<1>1. SUFFICES ASSUME Init, NEW h \in Heirs
               PROVE  contestedLossCounter[h] = Cardinality(CountedLosses(h))
  BY DEF CounterIsLedger
<1>2. contestedLossCounter[h] = 0 /\ picks = [r \in Rounds |-> [g \in Heirs |-> <<>>]]
  BY <1>1 DEF Init
<1>3. \A e \in CountedLosses(h) : DOMAIN picks[e[1]][h] # {} /\ e[1] \in Rounds
  BY DEF CountedLosses
<1>4. CountedLosses(h) = {}
  BY <1>2, <1>3
<1>5. QED BY <1>2, <1>4, FS_EmptySet

\* The counter that decides contests counts each loss of the ledger once, as long
\* as nobody types a counter in.
THEOREM CountersCountLosses ==
  ASSUME TypedCounters = {}
  PROVE  Spec => []CounterIsLedger
<1>1. DraftInv /\ CounterIsLedger /\ [Next]_draftVars => CounterIsLedger'
  BY StepCounts, StepsRevealOrSeal, OnlyRevealsCount DEF CounterIsLedger, CaptainReveal
<1>2. QED BY <1>1, CountersStart, DraftInvariant, PTL DEF Spec
=============================================================================
