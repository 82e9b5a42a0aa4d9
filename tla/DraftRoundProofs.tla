--------------------------- MODULE DraftRoundProofs ---------------------------
(* Proofs about DraftRound, for any set of heirs and items. *)
EXTENDS DraftRound, TLAPS, SequenceTheorems, FiniteSetTheorems, WellFoundedInduction

-----------------------------------------------------------------------------
(* The least element of a set of naturals, and so the best-ranked choice *)

Below == {ss \in Nat \X Nat : ss[1] < ss[2]}

\* The order on the naturals is well founded.
LEMMA BelowWellFounded == IsWellFoundedOn(Below, Nat)
  BY NatLessThanWellFounded DEF OpToRel, Below

\* A non-empty set of naturals has a least element.
LEMMA LeastNat ==
  ASSUME NEW S \in SUBSET Nat, S # {}
  PROVE  \E m \in S : \A n \in S : m <= n
<1>1. \E m \in S : \A n \in S : ~ (<<n, m>> \in Below)
  BY BelowWellFounded, WFMin, Zenon
<1>2. \A m, n \in Nat : <<n, m>> \notin Below => m <= n
  BY DEF Below
<1>3. QED BY <1>1, <1>2

RoundType == [Heirs -> Seq(Pick)]

\* autoSuggest returns one of the heir's choices whenever there is one.
LEMMA SuggestionIsAChoice ==
  ASSUME NEW h \in Heirs, NEW s, NEW stat, rankings \in [Heirs -> Seq(Items)],
         Choices(h, s, stat) # {}
  PROVE  AutoSuggest(h, s, stat) \in Choices(h, s, stat)
<1> DEFINE D == {k \in DOMAIN rankings[h] : rankings[h][k] \in Choices(h, s, stat)}
<1>1. DOMAIN rankings[h] \subseteq Nat
  OBVIOUS
<1>2. D # {} /\ D \in SUBSET Nat
  BY <1>1 DEF Choices, Ranked
<1>3. \E m \in D : \A n \in D : m <= n
  BY <1>2, LeastNat
<1>4. \E k \in DOMAIN rankings[h] :
        /\ rankings[h][k] \in Choices(h, s, stat)
        /\ \A j \in DOMAIN rankings[h] : rankings[h][j] \in Choices(h, s, stat) => k <= j
  BY <1>3
<1>5. QED BY <1>4 DEF AutoSuggest, BestRank

-----------------------------------------------------------------------------
(* Sealing picks *)

\* rq is rp with new sealed picks for heirs who owed one.
Seals(rp, rq) ==
  /\ rq \in RoundType
  /\ \A h \in Heirs :
       \/ rq[h] = rp[h]
       \/ /\ OwedLevel(rp[h]) # 0
          /\ \E i \in Items, counted \in BOOLEAN : rq[h] = Append(rp[h], SealedPick(i, counted))

\* A sweep, and a tick of the automatic draft, at most seal picks.
LEMMA AutoPickedSeals ==
  ASSUME TypeOK, NEW rp \in RoundType, NEW who, NEW stat
  PROVE  Seals(rp, AutoPicked(who, rp, stat))
<1> DEFINE rq == AutoPicked(who, rp, stat)
<1>1. \A h \in Heirs : CanAutoPick(h, rp[h], stat) =>
         /\ OwedLevel(rp[h]) # 0
         /\ AutoSuggest(h, rp[h], stat) \in Items
  BY SuggestionIsAChoice DEF CanAutoPick, TypeOK, Choices, RankablePool, Available
<1>2. \A i \in Items, counted \in BOOLEAN : SealedPick(i, counted) \in Pick
  BY DEF SealedPick, Pick, Outcomes
<1>3. \A h \in Heirs : rp[h] \in Seq(Pick)
  BY DEF RoundType
<1>4. ASSUME NEW h \in Heirs
      PROVE  \/ rq[h] = rp[h]
             \/ CanAutoPick(h, rp[h], stat)
                /\ rq[h] = Append(rp[h], SealedPick(AutoSuggest(h, rp[h], stat), TRUE))
  BY DEF AutoPicked
<1>5. ASSUME NEW h \in Heirs
      PROVE  rq[h] \in Seq(Pick)
  <2>1. CASE rq[h] = rp[h]
    BY <1>3, <2>1
  <2>2. CASE /\ CanAutoPick(h, rp[h], stat)
             /\ rq[h] = Append(rp[h], SealedPick(AutoSuggest(h, rp[h], stat), TRUE))
    <3>1. SealedPick(AutoSuggest(h, rp[h], stat), TRUE) \in Pick
      BY <1>1, <1>2, <2>2
    <3> HIDE DEF rq
    <3>2. QED BY <1>3, <2>2, <3>1, AppendProperties
  <2>3. QED BY <1>4, <2>1, <2>2
<1>6. rq \in RoundType
  BY <1>5 DEF AutoPicked, RoundType
<1>7. QED BY <1>1, <1>4, <1>6 DEF Seals

\* runAutoSubmitSweep at most seals picks, whatever the phase.
LEMMA SweepSeals ==
  ASSUME TypeOK, NEW rp \in RoundType, NEW auto, NEW stat, NEW ph
  PROVE  Seals(rp, AutoSubmitSweep(auto, rp, stat, ph))
<1>1. Seals(rp, rp)
  BY DEF Seals
<1>2. QED BY <1>1, AutoPickedSeals DEF AutoSubmitSweep

\* What appending a sealed pick does to an heir's picks of a round.
LEMMA SealOne ==
  ASSUME NEW s \in Seq(Pick), Disciplined(s), OwedLevel(s) # 0, NEW p \in Pick
  PROVE  /\ Disciplined(Append(s, p))
         /\ Append(s, p) # <<>> /\ Last(Append(s, p)) = p
         /\ s # <<>> => Last(s).outcome = "lost_contest"
<1> DEFINE t == Append(s, p)
<1>1. /\ t \in Seq(Pick) /\ Len(t) = Len(s) + 1 /\ Len(s) \in Nat
      /\ t[Len(s) + 1] = p /\ \A k \in 1..Len(s) : t[k] = s[k]
  BY AppendProperties, LenProperties
<1>2. t # <<>> /\ Last(t) = p
  BY <1>1, EmptySeq DEF Last
<1>3. s # <<>> => Last(s).outcome = "lost_contest" /\ Len(s) < 3
  BY DEF OwedLevel
<1>4. s = <<>> => Len(s) = 0
  BY EmptySeq
<1>5. \A k \in 1..Len(s) : s[k].outcome = "lost_contest"
  BY <1>1, <1>3, <1>4 DEF Disciplined, Last
<1>6. Len(t) <= 3
  BY <1>1, <1>3, <1>4
<1>7. QED BY <1>1, <1>2, <1>3, <1>5, <1>6 DEF Disciplined

-----------------------------------------------------------------------------
(* Opening picks *)

\* A pick that is opened keeps its item and its place.
LEMMA OpenedPick ==
  ASSUME NEW rp \in RoundType, NEW won \in Winners(rp), NEW h \in AtLevel(rp),
         Disciplined(rp[h])
  PROVE  /\ Opened(rp, won)[h] \in Seq(Pick)
         /\ Disciplined(Opened(rp, won)[h])
         /\ Opened(rp, won)[h] # <<>>
         /\ Last(Opened(rp, won)[h]).item = Claim(rp, h)
         /\ Last(Opened(rp, won)[h]).outcome =
              IF Wins(rp, won, h) THEN "awarded" ELSE "lost_contest"
<1> DEFINE s == rp[h]
           e == [Last(s) EXCEPT !.outcome = IF Wins(rp, won, h) THEN "awarded" ELSE "lost_contest"]
           t == Opened(rp, won)[h]
<1>1. h \in Heirs /\ s \in Seq(Pick) /\ s # <<>>
  BY DEF AtLevel, PendingHeirs, IsPending, RoundType
<1>2. Len(s) \in Nat /\ Len(s) \in 1..Len(s) /\ s[Len(s)] \in Pick
  BY <1>1, EmptySeq, LenProperties, ElementOfSeq
<1>3. e \in Pick /\ e.item = Claim(rp, h)
      /\ e.outcome = IF Wins(rp, won, h) THEN "awarded" ELSE "lost_contest"
  BY <1>2 DEF Last, Pick, Outcomes, Claim
<1>4. t = [s EXCEPT ![Len(s)] = e]
  BY <1>1 DEF Opened, Last
<1> HIDE DEF t, e
<1>5. /\ t \in Seq(Pick) /\ Len(t) = Len(s)
      /\ \A j \in 1..Len(s) : t[j] = IF j = Len(s) THEN e ELSE s[j]
  BY <1>1, <1>2, <1>3, <1>4, ExceptSeq
<1>6. t # <<>> /\ Last(t) = e
  BY <1>2, <1>5, EmptySeq DEF Last
<1>7. Disciplined(t)
  BY <1>2, <1>5 DEF Disciplined
<1>8. QED BY <1>3, <1>5, <1>6, <1>7 DEF t

\* What a reveal makes of the picks of a round.
LEMMA OpenedRound ==
  ASSUME NEW rp \in RoundType, NEW won \in Winners(rp),
         \A h \in Heirs : Disciplined(rp[h])
  PROVE  /\ Opened(rp, won) \in RoundType
         /\ \A h \in Heirs : Disciplined(Opened(rp, won)[h])
         /\ \A h \in Heirs \ AtLevel(rp) : Opened(rp, won)[h] = rp[h]
<1>1. \A h \in Heirs \ AtLevel(rp) : Opened(rp, won)[h] = rp[h]
  BY DEF Opened
<1>2. AtLevel(rp) \subseteq Heirs
  BY DEF AtLevel, PendingHeirs
<1>3. \A h \in Heirs : Opened(rp, won)[h] \in Seq(Pick) /\ Disciplined(Opened(rp, won)[h])
  BY <1>1, OpenedPick DEF RoundType
<1>4. Opened(rp, won) \in RoundType
  BY <1>3 DEF Opened, RoundType
<1>5. QED BY <1>1, <1>3, <1>4

\* The winner of a claimed item is one of the heirs who claim it.
LEMMA WinnerClaims ==
  ASSUME NEW rp \in RoundType, NEW won \in Winners(rp), NEW i \in DOMAIN won
  PROVE  /\ won[i] \in AtLevel(rp) /\ Claim(rp, won[i]) = i /\ Wins(rp, won, won[i])
         /\ won[i] \in Heirs
  BY DEF Winners, Contenders, Wins, AtLevel, PendingHeirs

-----------------------------------------------------------------------------
(* The invariant of the draft *)

\* The ledger invariants, strengthened with each other: an award is recorded
\* for good because nobody picks again after one and closed rounds stay shut.
LedgerInv == PickDiscipline /\ RoundsInOrder /\ AwardsRecorded
DraftInv  == TypeOK /\ LedgerInv

\* A request that seals picks in the current round, or in round 1 as it opens.
LEMMA SealStep ==
  ASSUME DraftInv,
         NEW r \in Rounds, r = currentRound \/ (currentRound = 0 /\ r = 1),
         NEW rq, Seals(picks[r], rq),
         currentRound' = r,
         picks' = [picks EXCEPT ![r] = rq],
         UNCHANGED <<status, awardedTo, awardedInRound>>
  PROVE  picks' \in [Rounds -> RoundType] /\ LedgerInv'
<1> USE DEF DraftInv, LedgerInv
<1>1. /\ picks \in [Rounds -> RoundType] /\ rq \in RoundType /\ picks' \in [Rounds -> RoundType]
      /\ picks'[r] = rq
      /\ \A q \in Rounds \ {r} : picks'[q] = picks[q]
  BY DEF TypeOK, Seals, RoundType
<1>2. ASSUME NEW h \in Heirs
      PROVE  \/ rq[h] = picks[r][h]
             \/ /\ Disciplined(rq[h]) /\ rq[h] # <<>>
                /\ picks[r][h] # <<>> => Last(picks[r][h]).outcome = "lost_contest"
  <2>1. CASE rq[h] = picks[r][h]
    BY <2>1
  <2>2. CASE rq[h] # picks[r][h]
    <3>1. PICK i \in Items, counted \in BOOLEAN :
            OwedLevel(picks[r][h]) # 0 /\ rq[h] = Append(picks[r][h], SealedPick(i, counted))
      BY <2>2 DEF Seals
    <3>2. SealedPick(i, counted) \in Pick
      BY DEF SealedPick, Pick, Outcomes
    <3>3. picks[r][h] \in Seq(Pick) /\ Disciplined(picks[r][h])
      BY <1>1 DEF RoundType, PickDiscipline
    <3>4. QED BY <3>1, <3>2, <3>3, SealOne
  <2>3. QED BY <2>1, <2>2
<1>3. PickDiscipline'
  <2>1. ASSUME NEW q \in Rounds, NEW h \in Heirs
        PROVE  Disciplined(picks'[q][h])
    BY <1>1, <1>2 DEF PickDiscipline
  <2>2. QED BY <2>1 DEF PickDiscipline
<1>4. RoundsInOrder'
  <2>1. currentRound \in Nat /\ r \in Nat /\ Rounds \subseteq Nat
    BY BoundsAssumption DEF TypeOK, Rounds
  <2>2. ASSUME NEW q \in Rounds, NEW h \in Heirs
        PROVE  /\ 0 < q /\ q < r => ~IsPending(picks'[q][h])
               /\ q > r => picks'[q][h] = <<>>
    <3>1. q \in Nat
      BY <2>1
    <3>2. CASE q = r
      BY <2>1, <3>2
    <3>3. CASE q # r
      <4>1. picks'[q] = picks[q]
        BY <1>1, <3>3
      <4>2. (0 < q /\ q < r => q < currentRound) /\ (q > r => q > currentRound)
        BY <2>1, <3>1
      <4>3. QED BY <4>1, <4>2 DEF RoundsInOrder
    <3>4. QED BY <3>2, <3>3
  <2>3. QED BY <2>2 DEF RoundsInOrder
<1>5. AwardsRecorded'
  <2>1. SUFFICES ASSUME NEW i \in Items, status[i] = "awarded"
                 PROVE  AwardRecorded(i)'
    BY DEF AwardsRecorded
  <2>2. PICK h \in Heirs :
          /\ awardedTo[i] = h /\ awardedInRound[i] <= currentRound
          /\ picks[awardedInRound[i]][h] # <<>>
          /\ Last(picks[awardedInRound[i]][h]).item = i
          /\ Last(picks[awardedInRound[i]][h]).outcome = "awarded"
    BY <2>1 DEF AwardsRecorded, AwardRecorded
  <2>3. awardedInRound[i] \in Rounds /\ Rounds \subseteq Nat /\ currentRound \in Rounds
    BY BoundsAssumption DEF TypeOK, Rounds
  <2>4. picks'[awardedInRound[i]][h] = picks[awardedInRound[i]][h]
    <3>1. CASE awardedInRound[i] = r
      BY <1>1, <1>2, <2>2, <3>1
    <3>2. CASE awardedInRound[i] # r
      BY <1>1, <2>3, <3>2
    <3>3. QED BY <3>1, <3>2
  <2>5. awardedInRound[i] <= currentRound'
    <3>1. awardedInRound[i] \in Nat /\ currentRound \in Nat /\ awardedInRound[i] <= currentRound
      BY <2>2, <2>3
    <3>2. currentRound' \in Nat /\ currentRound <= currentRound'
      BY <3>1, <2>3
    <3>3. QED BY <3>1, <3>2
  <2>6. QED BY <2>2, <2>4, <2>5 DEF AwardRecorded
<1>6. QED BY <1>1, <1>3, <1>4, <1>5

\* A request that moves no pick and awards nothing.
LEMMA QuietStep ==
  ASSUME DraftInv, UNCHANGED <<currentRound, picks, awardedTo, awardedInRound>>,
         \A i \in Items : status'[i] = "awarded" => status[i] = "awarded"
  PROVE  LedgerInv'
  BY DEF DraftInv, LedgerInv, PickDiscipline, RoundsInOrder, AwardsRecorded, AwardRecorded

\* A reveal opens picks of the current round, and seals picks of the next one
\* if it closes the round.
LEMMA RevealedPicks ==
  ASSUME DraftInv, NEW won \in Winners(picks[currentRound]),
         RevealWith(picks[currentRound], won)
  PROVE  /\ picks'[currentRound] = Opened(picks[currentRound], won)
         /\ \A q \in Rounds \ {currentRound} : Seals(picks[q], picks'[q])
         /\ \/ currentRound' = currentRound
            \/ /\ currentRound' = currentRound + 1 /\ currentRound' \in Rounds
               /\ PendingHeirs(Opened(picks[currentRound], won)) = {}
<1> DEFINE opened == Opened(picks[currentRound], won)
           stat == StatusAfter(won)
           next == AutoSubmitSweep(autoSubmit, picks[currentRound + 1], stat, PhaseAfterRound(stat))
<1>1. /\ TypeOK /\ currentRound \in Rounds /\ Rounds \subseteq Nat
      /\ picks \in [Rounds -> RoundType]
  BY BoundsAssumption DEF DraftInv, TypeOK, Rounds, RoundType
<1>2. \A q \in Rounds : Seals(picks[q], picks[q])
  BY <1>1 DEF Seals
<1>3. \/ /\ currentRound' = currentRound
         /\ picks' = [picks EXCEPT ![currentRound] = opened]
      \/ /\ currentRound < MaxRound /\ currentRound' = currentRound + 1
         /\ PendingHeirs(opened) = {}
         /\ picks' = [picks EXCEPT ![currentRound] = opened, ![currentRound + 1] = next]
  BY DEF RevealWith, ContinueRound, CloseRound, RoundOver
<1>4. currentRound < MaxRound =>
        /\ currentRound + 1 \in Rounds
        /\ Seals(picks[currentRound + 1], next)
  BY <1>1, BoundsAssumption, SweepSeals DEF Rounds
<1> HIDE DEF opened, next
<1>5. currentRound + 1 # currentRound
  BY <1>1
<1>6. picks'[currentRound] = opened
  BY <1>1, <1>3, <1>4, <1>5
<1>7. \A q \in Rounds \ {currentRound} : Seals(picks[q], picks'[q])
  BY <1>1, <1>2, <1>3, <1>4, <1>5
<1>8. QED BY <1>3, <1>4, <1>6, <1>7 DEF opened

\* A reveal with winners won.
LEMMA RevealStep ==
  ASSUME DraftInv, NEW won \in Winners(picks[currentRound]),
         RevealWith(picks[currentRound], won)
  PROVE  /\ picks' \in [Rounds -> RoundType]
         /\ status' \in [Items -> Statuses]
         /\ awardedTo' \in [Items -> Heirs \cup {Nobody}]
         /\ awardedInRound' \in [Items -> Rounds]
         /\ contestedLossCounter' \in [Heirs -> Nat]
         /\ currentRound' \in Rounds
         /\ LedgerInv'
<1> USE DEF DraftInv, LedgerInv
<1> DEFINE rp == picks[currentRound]
           opened == Opened(rp, won)
           stat == StatusAfter(won)
           next == AutoSubmitSweep(autoSubmit, picks[currentRound + 1], stat, PhaseAfterRound(stat))
<1>1. currentRound \in Rounds /\ Rounds \subseteq Nat /\ \A n \in Nat : n <= MaxRound => n \in Rounds
  BY BoundsAssumption DEF TypeOK, Rounds
<1>2. picks \in [Rounds -> RoundType] /\ rp \in RoundType /\ \A h \in Heirs : Disciplined(rp[h])
  BY <1>1 DEF TypeOK, RoundType, PickDiscipline
<1>3. /\ opened \in RoundType
      /\ \A h \in Heirs : Disciplined(opened[h])
      /\ \A h \in Heirs \ AtLevel(rp) : opened[h] = rp[h]
  BY <1>2, OpenedRound
<1>4. \/ /\ currentRound' = currentRound
         /\ picks' = [picks EXCEPT ![currentRound] = opened]
      \/ /\ currentRound < MaxRound /\ currentRound' = currentRound + 1
         /\ PendingHeirs(opened) = {}
         /\ picks' = [picks EXCEPT ![currentRound] = opened, ![currentRound + 1] = next]
  BY DEF RevealWith, ContinueRound, CloseRound, RoundOver
<1>5. /\ currentRound' \in Rounds
      /\ currentRound' = currentRound \/ currentRound' = currentRound + 1
      /\ currentRound' # currentRound => PendingHeirs(opened) = {}
  BY <1>1, <1>4, BoundsAssumption DEF Rounds
<1>6. currentRound < MaxRound =>
        /\ currentRound + 1 \in Rounds
        /\ picks[currentRound + 1] \in RoundType
        /\ Seals(picks[currentRound + 1], next)
  BY <1>1, <1>2, BoundsAssumption, SweepSeals DEF Rounds
<1>7. /\ picks' \in [Rounds -> RoundType]
      /\ picks'[currentRound] = opened
      /\ \A q \in Rounds : q # currentRound /\ q # currentRound' => picks'[q] = picks[q]
      /\ currentRound' # currentRound => picks'[currentRound'] = next /\ Seals(picks[currentRound'], next)
  <2>1. CASE currentRound' = currentRound
    BY <1>1, <1>2, <1>3, <1>4, <2>1
  <2>2. CASE currentRound' # currentRound
    <3>1. next \in RoundType /\ currentRound + 1 # currentRound /\ currentRound' = currentRound + 1
      BY <1>1, <1>4, <1>6, <2>2 DEF Seals
    <3> HIDE DEF next, opened
    <3>2. QED BY <1>1, <1>2, <1>3, <1>4, <1>6, <2>2, <3>1
  <2>3. QED BY <2>1, <2>2
<1>8. PickDiscipline'
  <2>1. ASSUME NEW q \in Rounds, NEW h \in Heirs
        PROVE  Disciplined(picks'[q][h])
    <3>1. CASE q = currentRound
      BY <1>3, <1>7, <3>1
    <3>2. CASE q # currentRound /\ q # currentRound'
      BY <1>7, <3>2 DEF PickDiscipline
    <3>3. CASE q # currentRound /\ q = currentRound'
      <4>1. picks[q][h] \in Seq(Pick) /\ Disciplined(picks[q][h])
        BY <1>2 DEF PickDiscipline, RoundType
      <4>2. picks'[q] = next /\ Seals(picks[q], next)
        BY <1>7, <3>3
      <4>3. CASE picks'[q][h] = picks[q][h]
        BY <4>1, <4>3
      <4>4. CASE picks'[q][h] # picks[q][h]
        <5> HIDE DEF next
        <5>1. PICK i \in Items, counted \in BOOLEAN :
                OwedLevel(picks[q][h]) # 0 /\ next[h] = Append(picks[q][h], SealedPick(i, counted))
          BY <4>2, <4>4 DEF Seals
        <5>2. SealedPick(i, counted) \in Pick
          BY DEF SealedPick, Pick, Outcomes
        <5>3. QED BY <4>1, <4>2, <5>1, <5>2, SealOne
      <4>5. QED BY <4>3, <4>4
    <3>4. QED BY <3>1, <3>2, <3>3
  <2>2. QED BY <2>1 DEF PickDiscipline
<1>9. RoundsInOrder'
  <2>1. ASSUME NEW q \in Rounds, NEW h \in Heirs
        PROVE  /\ 0 < q /\ q < currentRound' => ~IsPending(picks'[q][h])
               /\ q > currentRound' => picks'[q][h] = <<>>
    <3> HIDE DEF opened, next
    <3>1. CASE q = currentRound
      <4>1. q < currentRound' => ~IsPending(opened[h])
        BY <1>1, <1>5, <3>1 DEF PendingHeirs
      <4>2. QED BY <1>1, <1>5, <1>7, <3>1, <4>1
    <3>2. CASE q # currentRound /\ q # currentRound'
      BY <1>1, <1>5, <1>7, <3>2 DEF RoundsInOrder
    <3>3. CASE q = currentRound'
      BY <1>1, <1>5, <3>1, <3>3
    <3>4. QED BY <3>1, <3>2, <3>3
  <2>2. QED BY <2>1 DEF RoundsInOrder
<1>10. /\ status' \in [Items -> Statuses]
       /\ awardedTo' \in [Items -> Heirs \cup {Nobody}]
       /\ awardedInRound' \in [Items -> Rounds]
  BY <1>1, <1>2, WinnerClaims DEF RevealWith, StatusAfter, TypeOK, Statuses
<1>11. contestedLossCounter' \in [Heirs -> Nat]
  BY DEF RevealWith, LossesAfter, TypeOK
<1>12. AwardsRecorded'
  <2>1. SUFFICES ASSUME NEW i \in Items, status'[i] = "awarded"
                 PROVE  AwardRecorded(i)'
    BY DEF AwardsRecorded
  <2>2. CASE i \in DOMAIN won
    <3>1. /\ won[i] \in AtLevel(rp) /\ Claim(rp, won[i]) = i
          /\ Wins(rp, won, won[i]) /\ won[i] \in Heirs
      BY <1>2, <2>2, WinnerClaims
    <3>2. /\ opened[won[i]] # <<>>
          /\ Last(opened[won[i]]).item = i /\ Last(opened[won[i]]).outcome = "awarded"
      BY <1>2, <3>1, OpenedPick
    <3>3. awardedTo'[i] = won[i] /\ awardedInRound'[i] = currentRound
      BY <2>2 DEF RevealWith
    <3>4. currentRound <= currentRound'
      BY <1>1, <1>5
    <3> HIDE DEF opened
    <3>5. QED BY <1>7, <3>1, <3>2, <3>3, <3>4 DEF AwardRecorded
  <2>3. CASE i \notin DOMAIN won
    <3>1. /\ status[i] = "awarded" /\ awardedTo'[i] = awardedTo[i]
          /\ awardedInRound'[i] = awardedInRound[i]
      BY <2>1, <2>3 DEF RevealWith, StatusAfter
    <3> DEFINE r == awardedInRound[i]
    <3>2. PICK h \in Heirs :
            /\ awardedTo[i] = h /\ r <= currentRound
            /\ picks[r][h] # <<>>
            /\ Last(picks[r][h]).item = i /\ Last(picks[r][h]).outcome = "awarded"
      BY <3>1 DEF AwardsRecorded, AwardRecorded
    <3>3. r \in Rounds
      BY DEF TypeOK
    <3>4. picks'[r][h] = picks[r][h]
      <4>1. CASE r = currentRound
        <5>1. h \notin AtLevel(rp)
          BY <3>2, <4>1 DEF AtLevel, PendingHeirs, IsPending
        <5> HIDE DEF opened, next
        <5>2. QED BY <1>3, <1>7, <4>1, <5>1
      <4>2. CASE r # currentRound
        <5>1. r # currentRound'
          BY <1>1, <1>5, <3>2, <3>3, <4>2
        <5> HIDE DEF opened, next, r
        <5>2. QED BY <1>7, <3>3, <4>2, <5>1
      <4>3. QED BY <4>1, <4>2
    <3>5. r <= currentRound'
      <4> HIDE DEF opened, next, r
      <4>1. r \in Nat /\ currentRound \in Nat /\ r <= currentRound
        BY <1>1, <3>2, <3>3
      <4>2. currentRound' = currentRound \/ currentRound' = currentRound + 1
        BY <1>5
      <4>3. QED BY <4>1, <4>2
    <3>6. QED BY <3>1, <3>2, <3>4, <3>5 DEF AwardRecorded
  <2>4. QED BY <2>2, <2>3
<1>13. QED BY <1>5, <1>7, <1>8, <1>9, <1>10, <1>11, <1>12

-----------------------------------------------------------------------------
(* Types *)

\* An heir's list is a sequence of items.
LEMMA ListsAreSequences ==
  ASSUME NEW S \in SUBSET Items
  PROVE  Lists(S) \subseteq Seq(Items)
<1>1. Cardinality(S) \in Nat
  BY ItemsAssumption, FS_Subset, FS_CardinalityType
<1>2. ASSUME NEW n \in Nat, NEW s \in [1..n -> S]
      PROVE  s \in Seq(Items)
  <2>1. s \in [1..n -> Items]
    OBVIOUS
  <2>2. QED BY <2>1
<1>3. QED BY <1>1, <1>2 DEF Lists

\* A round that closes leaves a priority order a priority order.
LEMMA RotateOrders ==
  ASSUME NEW p \in Orders \cup {<<>>}
  PROVE  Rotate(p) \in Orders \cup {<<>>}
<1>1. CASE p = <<>>
  <2>1. DOMAIN p = {}
    BY <1>1
  <2>2. Rotate(p) = <<>>
    BY <2>1 DEF Rotate
  <2>3. QED BY <2>2
<1>2. CASE p \in Orders
  <2> DEFINE N == Cardinality(Heirs)
             q == Rotate(p)
  <2>1. N \in Nat
    BY HeirsAssumption, FS_CardinalityType
  <2>2. p \in [1..N -> Heirs] /\ \A h \in Heirs : \E k \in 1..N : p[k] = h
    BY <1>2 DEF Orders
  <2> HIDE DEF N
  <2>3. q \in [1..N -> Heirs]
    BY <2>1, <2>2 DEF Rotate
  <2>4. ASSUME NEW h \in Heirs
        PROVE  \E k \in 1..N : q[k] = h
    <3>1. PICK k \in 1..N : p[k] = h
      BY <2>2
    <3>2. CASE k = 1
      <4>1. N \in 1..N /\ N + 1 \notin 1..N
        BY <2>1, <3>1
      <4>2. q[N] = h
        BY <2>2, <3>1, <3>2, <4>1 DEF Rotate
      <4>3. QED BY <4>1, <4>2
    <3>3. CASE k # 1
      <4>1. k - 1 \in 1..N /\ (k - 1) + 1 = k
        BY <2>1, <3>1, <3>3
      <4>2. q[k - 1] = h
        BY <2>2, <3>1, <4>1 DEF Rotate
      <4>3. QED BY <4>1, <4>2
    <3>4. QED BY <3>2, <3>3
  <2>5. q \in Orders
    BY <2>3, <2>4 DEF Orders, N
  <2>6. QED BY <2>5
<1>3. QED BY <1>1, <1>2

\* The draft starts in a state of the invariant.
LEMMA InitHolds == Init => DraftInv
<1> SUFFICES ASSUME Init PROVE DraftInv
  OBVIOUS
<1>1. 0 \in Rounds /\ Rounds \subseteq Nat
  BY BoundsAssumption DEF Rounds
<1>2. status \in [Items -> {"available", "needs_appraisal"}]
  BY DEF Init
<1>3. Lists(RankablePool(status)) \subseteq Seq(Items)
  BY ListsAreSequences DEF RankablePool, Available
<1>4. picks \in [Rounds -> [Heirs -> Seq(Pick)]]
  BY EmptySeq DEF Init
<1>5. /\ phase \in Phases /\ paused \in BOOLEAN
      /\ priorityOrder \in Orders \cup {<<>>}
      /\ contestedLossCounter \in [Heirs -> Nat]
      /\ autoSubmit \in [Heirs -> BOOLEAN]
      /\ awardedTo \in [Items -> Heirs \cup {Nobody}]
      /\ appraisal \in [Items -> {"none", "heir", "owner"}]
      /\ flagged \in [Items -> BOOLEAN]
  BY DEF Init, Phases
<1>6. rankings \in [Heirs -> Seq(Items)]
  BY <1>3 DEF Init
<1>7. status \in [Items -> Statuses]
  BY <1>2 DEF Statuses
<1>8. currentRound \in Rounds /\ awardedInRound \in [Items -> Rounds]
  BY <1>1 DEF Init
<1>9. TypeOK
  BY <1>4, <1>5, <1>6, <1>7, <1>8 DEF TypeOK
<1>10. \A r \in Rounds, h \in Heirs : picks[r][h] = <<>>
  BY DEF Init
<1>11. PickDiscipline /\ RoundsInOrder
  BY <1>10, EmptySeq DEF PickDiscipline, Disciplined, RoundsInOrder, IsPending
<1>12. AwardsRecorded
  BY <1>2 DEF AwardsRecorded
<1>13. QED BY <1>9, <1>11, <1>12 DEF DraftInv, LedgerInv

-----------------------------------------------------------------------------
(* Every step preserves the invariant *)

\* Both ends of a round leave a phase that is a phase of the draft.
LEMMA PhaseTypes ==
  ASSUME TypeOK, NEW stat
  PROVE  PhaseAfterRound(stat) \in Phases
  BY DEF TypeOK, Phases, PhaseAfterRound

\* An heir's own pick seals too.
LEMMA SubmitSeals ==
  ASSUME DraftInv, NEW h \in Heirs, NEW i \in Items, NEW counted \in BOOLEAN, SubmitPick(h, i, counted)
  PROVE  \E rq : /\ Seals(picks[currentRound], rq)
                 /\ picks' = [picks EXCEPT ![currentRound] = rq]
<1> DEFINE rp == picks[currentRound]
           rq == [rp EXCEPT ![h] = Append(@, SealedPick(i, counted))]
<1>1. currentRound \in Rounds /\ rp \in RoundType
  BY DEF DraftInv, TypeOK, RoundType
<1>2. SealedPick(i, counted) \in Pick
  BY DEF SealedPick, Pick, Outcomes
<1>3. rq \in RoundType
  <2>1. rp[h] \in Seq(Pick) /\ Append(rp[h], SealedPick(i, counted)) \in Seq(Pick)
    BY <1>1, <1>2, AppendProperties DEF RoundType
  <2> HIDE DEF rp
  <2>2. QED BY <1>1, <2>1 DEF RoundType
<1>4. Seals(rp, rq)
  <2>1. OwedLevel(rp[h]) # 0
    BY DEF SubmitPick
  <2> HIDE DEF rp
  <2>2. \A g \in Heirs : rq[g] = IF g = h THEN Append(rp[h], SealedPick(i, counted)) ELSE rp[g]
    BY <1>1 DEF RoundType
  <2>3. QED BY <1>3, <2>1, <2>2 DEF Seals
<1>5. picks' = [picks EXCEPT ![currentRound] = rq]
  BY DEF SubmitPick
<1> HIDE DEF rq
<1>6. QED BY <1>4, <1>5

\* A submitted pick, the heir's or the high-value panel's, keeps the invariant.
LEMMA SubmitTypes ==
  ASSUME DraftInv, NEW h \in Heirs, NEW i \in Items, NEW counted \in BOOLEAN, SubmitPick(h, i, counted)
  PROVE  DraftInv'
<1>1. PICK rq : Seals(picks[currentRound], rq) /\ picks' = [picks EXCEPT ![currentRound] = rq]
  BY SubmitSeals
<1>2. currentRound' = currentRound /\ UNCHANGED <<status, awardedTo, awardedInRound>>
  BY DEF SubmitPick, itemVars
<1>3. currentRound \in Rounds
  BY DEF DraftInv, TypeOK
<1>4. picks' \in [Rounds -> RoundType] /\ LedgerInv'
  BY <1>1, <1>2, <1>3, SealStep
<1>5. TypeOK'
  BY <1>4 DEF DraftInv, TypeOK, SubmitPick, RoundType, tableVars, itemVars
<1>6. QED BY <1>4, <1>5 DEF DraftInv

\* Switching auto-submit, with the sweep it may trigger, keeps the invariant.
LEMMA AutoSubmitTypes ==
  ASSUME DraftInv, NEW h \in Heirs, NEW on \in BOOLEAN, SetAutoSubmit(h, on)
  PROVE  DraftInv'
<1>1. currentRound \in Rounds /\ picks[currentRound] \in RoundType /\ TypeOK
  BY DEF DraftInv, TypeOK, RoundType
<1> DEFINE rq == AutoSubmitSweep(autoSubmit', picks[currentRound], status, phase)
<1>2. Seals(picks[currentRound], rq)
  BY <1>1, SweepSeals
<1>3. Seals(picks[currentRound], picks[currentRound])
  BY <1>1 DEF Seals
<1>4. currentRound' = currentRound /\ UNCHANGED <<status, awardedTo, awardedInRound>>
  BY DEF SetAutoSubmit, itemVars
<1>5. \/ picks' = [picks EXCEPT ![currentRound] = rq]
      \/ picks' = [picks EXCEPT ![currentRound] = picks[currentRound]]
  BY <1>1 DEF SetAutoSubmit, DraftInv, TypeOK
<1> HIDE DEF rq
<1>6. picks' \in [Rounds -> RoundType] /\ LedgerInv'
  BY <1>1, <1>2, <1>3, <1>4, <1>5, SealStep
<1>7. autoSubmit' \in [Heirs -> BOOLEAN]
  BY <1>1 DEF SetAutoSubmit, TypeOK
<1>8. TypeOK'
  BY <1>1, <1>6, <1>7 DEF TypeOK, SetAutoSubmit, RoundType, itemVars
<1>9. QED BY <1>6, <1>8 DEF DraftInv

\* A reveal, whoever asks for it, keeps the invariant.
LEMMA RevealTypes ==
  ASSUME DraftInv, RevealRound
  PROVE  DraftInv'
<1>1. PICK won \in Winners(picks[currentRound]) : RevealWith(picks[currentRound], won)
  BY DEF RevealRound
<1>2. UNCHANGED <<paused, flagged, appraisal, autoSubmit, rankings>>
  BY DEF RevealRound
<1>3. /\ picks' \in [Rounds -> RoundType]
      /\ status' \in [Items -> Statuses]
      /\ awardedTo' \in [Items -> Heirs \cup {Nobody}]
      /\ awardedInRound' \in [Items -> Rounds]
      /\ contestedLossCounter' \in [Heirs -> Nat]
      /\ currentRound' \in Rounds
      /\ LedgerInv'
  BY <1>1, RevealStep
<1>4. phase' \in Phases /\ priorityOrder' \in Orders \cup {<<>>}
  BY <1>1, PhaseTypes, RotateOrders DEF RevealWith, ContinueRound, CloseRound, DraftInv, TypeOK
<1>5. TypeOK'
  BY <1>2, <1>3, <1>4 DEF DraftInv, TypeOK, RoundType
<1>6. QED BY <1>3, <1>5 DEF DraftInv

\* Opening the draft from a ranking phase, or again, keeps the invariant.
LEMMA OpenTypes ==
  ASSUME DraftInv, NEW ph \in Drafting, OpenRound(ph),
         picks' = picks \/ picks' = [picks EXCEPT ![currentRound'] =
                              AutoSubmitSweep(autoSubmit, picks[currentRound'], status, phase')]
  PROVE  DraftInv'
<1>1. 0 \in Rounds /\ 1 \in Rounds /\ currentRound' \in Rounds
      /\ (currentRound' = currentRound \/ (currentRound = 0 /\ currentRound' = 1))
  BY BoundsAssumption DEF OpenRound, DraftInv, TypeOK, Rounds
<1>2. picks[currentRound'] \in RoundType /\ TypeOK
  BY <1>1 DEF DraftInv, TypeOK, RoundType
<1> DEFINE r == currentRound'
           rq == AutoSubmitSweep(autoSubmit, picks[r], status, phase')
<1>3. Seals(picks[r], rq) /\ Seals(picks[r], picks[r])
  BY <1>2, SweepSeals DEF Seals
<1>4. UNCHANGED <<status, awardedTo, awardedInRound>>
  BY DEF OpenRound, itemVars
<1>5. \/ picks' = [picks EXCEPT ![r] = rq]
      \/ picks' = [picks EXCEPT ![r] = picks[r]]
  BY <1>1 DEF DraftInv, TypeOK
<1> HIDE DEF rq
<1>6. picks' \in [Rounds -> RoundType] /\ LedgerInv'
  BY <1>1, <1>3, <1>4, <1>5, SealStep
<1>7. phase' \in Phases /\ priorityOrder' \in Orders \cup {<<>>}
  BY <1>2 DEF OpenRound, TypeOK, Phases, Drafting
<1>8. TypeOK'
  BY <1>1, <1>2, <1>6, <1>7 DEF TypeOK, OpenRound, RoundType, itemVars
<1>9. QED BY <1>6, <1>8 DEF DraftInv

\* A request that touches neither picks nor awards keeps the invariant.
LEMMA QuietTypes ==
  ASSUME DraftInv, UNCHANGED <<currentRound, picks, awardedTo, awardedInRound>>,
         \A i \in Items : status'[i] = "awarded" => status[i] = "awarded",
         TypeOK'
  PROVE  DraftInv'
  BY QuietStep DEF DraftInv

\* One step per request, whichever heir, item or list it names.
LEMMA HeirSteps == ASSUME DraftInv, HeirNext PROVE DraftInv'
<1>1. ASSUME NEW h \in Heirs, NEW i \in Items, NEW counted \in BOOLEAN, SubmitPick(h, i, counted)
      PROVE  DraftInv'
  BY <1>1, SubmitTypes
<1>2. ASSUME NEW h \in Heirs, NEW on \in BOOLEAN, SetAutoSubmit(h, on)
      PROVE  DraftInv'
  BY <1>2, AutoSubmitTypes
<1>3. ASSUME NEW h \in Heirs, NEW list, ReplaceRankings(h, list)
      PROVE  DraftInv'
  <2>1. list \in Seq(Items)
    BY <1>3, ListsAreSequences DEF ReplaceRankings, RankablePool, Available
  <2>2. rankings' \in [Heirs -> Seq(Items)]
    BY <1>3, <2>1 DEF ReplaceRankings, DraftInv, TypeOK
  <2>3. UNCHANGED <<phase, paused, currentRound, priorityOrder, contestedLossCounter,
                    autoSubmit, status, awardedTo, awardedInRound, flagged, appraisal, picks>>
    BY <1>3 DEF ReplaceRankings, itemVars
  <2>4. TypeOK'
    BY <2>2, <2>3 DEF DraftInv, TypeOK
  <2>5. QED BY <2>3, <2>4, QuietTypes
<1>4. ASSUME NEW h \in Heirs, NEW n \in TypedCounters, EditCounter(h, n)
      PROVE  DraftInv'
  <2>1. contestedLossCounter' \in [Heirs -> Nat]
    BY <1>4, BoundsAssumption DEF EditCounter, DraftInv, TypeOK
  <2>2. UNCHANGED <<phase, paused, currentRound, priorityOrder, autoSubmit, rankings,
                    status, awardedTo, awardedInRound, flagged, appraisal, picks>>
    BY <1>4 DEF EditCounter, itemVars
  <2>3. TypeOK'
    BY <2>1, <2>2 DEF DraftInv, TypeOK
  <2>4. QED BY <2>2, <2>3, QuietTypes
<1>5. QED BY <1>1, <1>2, <1>3, <1>4 DEF HeirNext

\* A list that loses an item is still a list of items.
LEMMA WithoutIsSeq ==
  ASSUME NEW list \in Seq(Items), NEW i
  PROVE  Without(list, i) \in Seq(Items)
<1> DEFINE n == Len(list) - 1
           rest == [k \in 1..n |-> IF \E j \in 1..k : list[j] = i THEN list[k + 1] ELSE list[k]]
<1>1. CASE \A k \in DOMAIN list : list[k] # i
  BY <1>1 DEF Without
<1>2. CASE ~\A k \in DOMAIN list : list[k] # i
  <2>1. n \in Nat /\ DOMAIN list = 1..n + 1 /\ \A k \in 1..n + 1 : list[k] \in Items
    BY <1>2, EmptySeq, LenProperties, ElementOfSeq
  <2> HIDE DEF n
  <2>2. \A k \in 1..n : k \in 1..n + 1 /\ k + 1 \in 1..n + 1
    BY <2>1
  <2>3. rest \in [1..n -> Items]
    BY <2>1, <2>2
  <2>4. rest \in Seq(Items)
    BY <2>1, <2>3
  <2>5. QED BY <1>2, <2>4 DEF Without, n
<1>3. QED BY <1>1, <1>2

\* Raising and withdrawing an escalation keeps the invariant.
LEMMA EscalationSteps ==
  ASSUME DraftInv, NEW i \in Items, FlagForAppraisal(i) \/ UnflagAppraisal(i)
  PROVE  DraftInv'
<1>1. UNCHANGED <<phase, paused, currentRound, tableVars, awardedTo, awardedInRound, picks>>
  BY DEF FlagForAppraisal, UnflagAppraisal
<1>2. /\ appraisal' \in [Items -> {"none", "heir", "owner"}]
      /\ flagged' \in [Items -> BOOLEAN]
      /\ status' \in [Items -> Statuses]
      /\ \A j \in Items : status'[j] = "awarded" => status[j] = "awarded"
  BY DEF FlagForAppraisal, UnflagAppraisal, DraftInv, TypeOK, Statuses
<1>3. TypeOK'
  BY <1>1, <1>2 DEF DraftInv, TypeOK, tableVars
<1>4. QED BY <1>1, <1>2, <1>3, QuietTypes

\* So does the classification flag, which may take the item off every list.
LEMMA HighValueStep ==
  ASSUME DraftInv, NEW i \in Items, NEW on \in BOOLEAN, SetHighValue(i, on)
  PROVE  DraftInv'
<1>1. rankings \in [Heirs -> Seq(Items)] /\ flagged \in [Items -> BOOLEAN]
  BY DEF DraftInv, TypeOK
<1>2. rankings' \in [Heirs -> Seq(Items)]
  BY <1>1, WithoutIsSeq DEF SetHighValue
<1>3. flagged' \in [Items -> BOOLEAN]
  BY <1>1 DEF SetHighValue
<1>4. UNCHANGED <<phase, paused, currentRound, priorityOrder, contestedLossCounter, autoSubmit,
                  status, awardedTo, awardedInRound, appraisal, picks>>
  BY DEF SetHighValue
<1>5. TypeOK'
  BY <1>2, <1>3, <1>4 DEF DraftInv, TypeOK
<1>6. QED BY <1>4, <1>5, QuietTypes

\* What is said of an item, as an escalation or as a flag, keeps the invariant.
LEMMA AppraisalSteps == ASSUME DraftInv, AppraisalNext PROVE DraftInv'
  BY EscalationSteps, HighValueStep DEF AppraisalNext

\* The captain's requests keep the invariant.
LEMMA CaptainSteps == ASSUME DraftInv, CaptainNext PROVE DraftInv'
<1>1. CASE CaptainReveal
  BY <1>1, RevealTypes DEF CaptainReveal
<1>2. CASE StartDraft
  BY <1>2, OpenTypes DEF StartDraft, Drafting
<1>3. ASSUME NEW force \in BOOLEAN, LeaveRanking(force)
      PROVE  DraftInv'
  BY <1>3, OpenTypes DEF LeaveRanking, Drafting
<1>4. CASE LeaveDraft
  <2>1. phase' \in Phases
    BY <1>4 DEF LeaveDraft, Phases
  <2>2. UNCHANGED <<paused, currentRound, tableVars, itemVars, picks>>
    BY <1>4 DEF LeaveDraft
  <2>3. TypeOK'
    BY <2>1, <2>2 DEF DraftInv, TypeOK, tableVars, itemVars
  <2>4. QED BY <2>2, <2>3, QuietTypes DEF itemVars
<1>5. CASE Pause \/ Resume
  <2>1. UNCHANGED <<phase, currentRound, tableVars, itemVars, picks>> /\ paused' \in BOOLEAN
    BY <1>5 DEF Pause, Resume
  <2>2. TypeOK'
    BY <2>1 DEF DraftInv, TypeOK, tableVars, itemVars
  <2>3. QED BY <2>1, <2>2, QuietTypes DEF itemVars
<1>6. QED BY <1>1, <1>2, <1>3, <1>4, <1>5 DEF CaptainNext

\* Every step of the draft keeps the invariant.
LEMMA NextHolds == DraftInv /\ [Next]_draftVars => DraftInv'
<1> SUFFICES ASSUME DraftInv, [Next]_draftVars PROVE DraftInv'
  OBVIOUS
<1>1. CASE UNCHANGED draftVars
  <2>1. UNCHANGED <<phase, paused, currentRound, priorityOrder, contestedLossCounter, autoSubmit,
                    rankings, status, awardedTo, awardedInRound, flagged, appraisal, picks>>
    BY <1>1 DEF draftVars, tableVars, itemVars
  <2>2. TypeOK'
    BY <2>1 DEF DraftInv, TypeOK
  <2>3. QED BY <2>1, <2>2, QuietTypes
<1>2. QED BY <1>1, HeirSteps, AppraisalSteps, CaptainSteps DEF Next

\* Whatever is not a reveal only seals picks.
LEMMA OnlyRevealsOpen ==
  ASSUME DraftInv, [Next]_draftVars, ~CaptainReveal
  PROVE  \A r \in Rounds : Seals(picks[r], picks'[r])
<1>1. TypeOK /\ picks \in [Rounds -> RoundType] /\ currentRound \in Rounds
  BY DEF DraftInv, TypeOK, RoundType
<1>2. \A r \in Rounds : Seals(picks[r], picks[r])
  BY <1>1 DEF Seals
<1>3. ASSUME NEW r \in Rounds, NEW rq, Seals(picks[r], rq), picks' = [picks EXCEPT ![r] = rq]
      PROVE  \A q \in Rounds : Seals(picks[q], picks'[q])
  BY <1>1, <1>2, <1>3
<1>4. CASE UNCHANGED picks
  BY <1>2, <1>4
<1>5. ASSUME NEW h \in Heirs, NEW i \in Items, NEW counted \in BOOLEAN, SubmitPick(h, i, counted)
      PROVE  \A q \in Rounds : Seals(picks[q], picks'[q])
  BY <1>1, <1>3, <1>5, SubmitSeals
<1>6. ASSUME NEW h \in Heirs, NEW on \in BOOLEAN, SetAutoSubmit(h, on)
      PROVE  \A q \in Rounds : Seals(picks[q], picks'[q])
  <2> DEFINE rq == AutoSubmitSweep(autoSubmit', picks[currentRound], status, phase)
  <2>1. Seals(picks[currentRound], rq)
    BY <1>1, SweepSeals
  <2>2. UNCHANGED picks \/ picks' = [picks EXCEPT ![currentRound] = rq]
    BY <1>6 DEF SetAutoSubmit
  <2> HIDE DEF rq
  <2>3. QED BY <1>1, <1>3, <1>4, <2>1, <2>2
<1>7. ASSUME NEW force \in BOOLEAN, LeaveRanking(force)
      PROVE  \A q \in Rounds : Seals(picks[q], picks'[q])
  <2>1. currentRound' \in Rounds
    BY <1>1, <1>7, BoundsAssumption DEF LeaveRanking, OpenRound, Rounds
  <2> DEFINE rq == AutoSubmitSweep(autoSubmit, picks[currentRound'], status, phase')
  <2>2. Seals(picks[currentRound'], rq)
    BY <1>1, <2>1, SweepSeals
  <2>3. picks' = [picks EXCEPT ![currentRound'] = rq]
    BY <1>7 DEF LeaveRanking
  <2> HIDE DEF rq
  <2>4. QED BY <1>3, <2>1, <2>2, <2>3
<1>8. UNCHANGED picks
      \/ (\E h \in Heirs, i \in Items, counted \in BOOLEAN : SubmitPick(h, i, counted))
      \/ (\E h \in Heirs, on \in BOOLEAN : SetAutoSubmit(h, on))
      \/ (\E force \in BOOLEAN : LeaveRanking(force))
  BY DEF Next, HeirNext, AppraisalNext, CaptainNext, EditCounter, ReplaceRankings,
         FlagForAppraisal, UnflagAppraisal, SetHighValue, StartDraft, LeaveDraft, Pause, Resume,
         draftVars
<1>9. QED BY <1>4, <1>5, <1>6, <1>7, <1>8

\* A step, an heir's, the captain's or the engine's, that at most seals picks: it
\* opens none.
OnlySeals == \A r \in Rounds : Seals(picks[r], picks'[r])

\* Every request is a reveal or at most seals picks.
LEMMA StepsRevealOrSeal ==
  ASSUME DraftInv, [Next]_draftVars
  PROVE  RevealRound \/ OnlySeals
  BY OnlyRevealsOpen DEF CaptainReveal, OnlySeals

\* As long as nobody types a counter in, only a reveal changes one.
LEMMA OnlyRevealsCount ==
  ASSUME TypedCounters = {}, [Next]_draftVars, ~CaptainReveal
  PROVE  UNCHANGED contestedLossCounter
  BY DEF Next, HeirNext, AppraisalNext, CaptainNext, SubmitPick, SetAutoSubmit, ReplaceRankings,
         FlagForAppraisal, UnflagAppraisal, SetHighValue, StartDraft, OpenRound, LeaveRanking,
         LeaveDraft, Pause, Resume, draftVars, tableVars

-----------------------------------------------------------------------------
(* What holds of every draft *)

\* The inductive invariant holds in every state the draft reaches.
THEOREM DraftInvariant == Spec => []DraftInv
<1>1. QED BY InitHolds, NextHolds, PTL DEF Spec

\* Every variable keeps its type.
THEOREM DraftTypes == Spec => []TypeOK
<1>1. DraftInv => TypeOK
  BY DEF DraftInv
<1>2. QED BY <1>1, DraftInvariant, PTL

\* Nobody ever holds two sealed picks, picks again after an award, or takes a
\* fourth pick in a round.
THEOREM PicksAreDisciplined == Spec => []PickDiscipline
<1>1. DraftInv => PickDiscipline
  BY DEF DraftInv, LedgerInv
<1>2. QED BY <1>1, DraftInvariant, PTL

\* No round closes over a sealed pick, and none is picked ahead of.
THEOREM RoundsCloseInOrder == Spec => []RoundsInOrder
<1>1. DraftInv => RoundsInOrder
  BY DEF DraftInv, LedgerInv
<1>2. QED BY <1>1, DraftInvariant, PTL

\* Every award on Results is backed by a pick of the ledger, for good.
THEOREM AwardsAreRecorded == Spec => []AwardsRecorded
<1>1. DraftInv => AwardsRecorded
  BY DEF DraftInv, LedgerInv
<1>2. QED BY <1>1, DraftInvariant, PTL

\* Two awards of a round to one heir would be the same last pick of the round.
LEMMA OneOfTheRound == DraftInv => OneItemPerRound
  BY DEF DraftInv, LedgerInv, AwardsRecorded, AwardRecorded, OneItemPerRound

\* No heir is awarded two items in one round.
THEOREM OneAwardARound == Spec => []OneItemPerRound
<1>1. QED BY OneOfTheRound, DraftInvariant, PTL

-----------------------------------------------------------------------------
(* Contested losses *)

\* An heir a reveal turns away lost to somebody with at least as many losses,
\* who wins the item.
LEMMA LoserHasAWinner ==
  ASSUME TypeOK, NEW rp \in RoundType, NEW won \in Winners(rp),
         NEW h \in AtLevel(rp), ~Wins(rp, won, h)
  PROVE  \E w \in AtLevel(rp) \ {h} :
           /\ w = won[Claim(rp, h)] /\ Wins(rp, won, w)
           /\ contestedLossCounter[w] >= contestedLossCounter[h]
<1> DEFINE i == Claim(rp, h)
           w == won[i]
<1>1. i \in Claimed(rp) /\ DOMAIN won = Claimed(rp) /\ h \in Contenders(rp, i)
  BY DEF Claimed, Winners, Contenders
<1>2. w \in AtLevel(rp) /\ Wins(rp, won, w) /\ w # h
  BY <1>1, WinnerClaims DEF Wins
<1>3. ~Outranks(h, w)
  BY <1>1 DEF Winners
<1>4. h \in Heirs /\ w \in Heirs
  BY <1>2 DEF AtLevel, PendingHeirs
<1>5. contestedLossCounter[h] \in Nat /\ contestedLossCounter[w] \in Nat
  BY <1>4 DEF TypeOK
<1>6. ~(contestedLossCounter[h] > contestedLossCounter[w])
  BY <1>3 DEF Outranks
<1>7. contestedLossCounter[w] >= contestedLossCounter[h]
  BY <1>5, <1>6
<1>8. QED BY <1>2, <1>7

\* A reveal keeps the losses shared.
LEMMA RevealShares ==
  ASSUME TypeOK, LossesShared, RevealRound
  PROVE  LossesShared'
<1> DEFINE rp == picks[currentRound]
<1>1. PICK won \in Winners(rp) : RevealWith(rp, won)
  BY DEF RevealRound
<1>2. rp \in RoundType
  BY DEF TypeOK, RoundType
<1>3. /\ contestedLossCounter \in [Heirs -> Nat]
      /\ \A h \in Heirs : contestedLossCounter'[h] =
           IF h \in AtLevel(rp) /\ ~Wins(rp, won, h) /\ Last(rp[h]).counts
           THEN contestedLossCounter[h] + 1 ELSE contestedLossCounter[h]
  BY <1>1 DEF TypeOK, RevealWith, LossesAfter
<1> HIDE DEF rp
<1>4. \A h \in Heirs : contestedLossCounter[h] \in Nat /\ contestedLossCounter'[h] \in Nat
                        /\ contestedLossCounter[h] <= contestedLossCounter'[h]
  BY <1>3
<1>5. SUFFICES ASSUME NEW h \in Heirs, contestedLossCounter'[h] > 0
               PROVE  \E g \in Heirs \ {h} : contestedLossCounter'[g] + 1 >= contestedLossCounter'[h]
  BY DEF LossesShared
<1>6. CASE h \in AtLevel(rp) /\ ~Wins(rp, won, h) /\ Last(rp[h]).counts
  <2>1. PICK w \in AtLevel(rp) \ {h} :
          Wins(rp, won, w) /\ contestedLossCounter[w] >= contestedLossCounter[h]
    BY <1>2, <1>6, LoserHasAWinner
  <2>2. w \in Heirs \ {h}
    BY DEF AtLevel, PendingHeirs
  <2>3. contestedLossCounter'[h] = contestedLossCounter[h] + 1
    BY <1>3, <1>6
  <2>4. contestedLossCounter'[w] + 1 >= contestedLossCounter'[h]
    BY <1>4, <2>1, <2>2, <2>3
  <2>5. QED BY <2>2, <2>4
<1>7. CASE ~(h \in AtLevel(rp) /\ ~Wins(rp, won, h) /\ Last(rp[h]).counts)
  <2>1. contestedLossCounter'[h] = contestedLossCounter[h]
    BY <1>3, <1>7
  <2>2. PICK g \in Heirs \ {h} : contestedLossCounter[g] + 1 >= contestedLossCounter[h]
    BY <1>5, <2>1 DEF LossesShared
  <2>3. contestedLossCounter'[g] + 1 >= contestedLossCounter'[h]
    BY <1>4, <2>1, <2>2
  <2>4. QED BY <2>3
<1>8. QED BY <1>6, <1>7

\* Only reveals count losses.
LEMMA StepShares ==
  ASSUME TypeOK, LossesShared, RevealRound \/ UNCHANGED contestedLossCounter
  PROVE  LossesShared'
<1>1. CASE RevealRound
  BY <1>1, RevealShares
<1>2. CASE UNCHANGED contestedLossCounter
  BY <1>2 DEF LossesShared
<1>3. QED BY <1>1, <1>2

\* No heir is ever two contested losses ahead of every other, as long as nobody
\* types a counter in.
THEOREM LossesStayShared ==
  ASSUME TypedCounters = {}
  PROVE  Spec => []LossesShared
<1>1. Init => LossesShared
  BY DEF Init, LossesShared
<1>2. DraftInv /\ LossesShared /\ [Next]_draftVars => LossesShared'
  BY StepShares, OnlyRevealsCount DEF DraftInv, CaptainReveal
<1>3. QED BY <1>1, <1>2, DraftInvariant, PTL DEF Spec

\* The heirs whom the step turns away had no more losses than the winner.
FairToLosers ==
  \A h \in Heirs :
    LET before == picks[currentRound][h]
        after  == picks'[currentRound][h]
    IN (IsPending(before) /\ Last(after).outcome = "lost_contest") =>
         LET w == awardedTo'[Last(before).item]
         IN /\ w \in Heirs \ {h}
            /\ contestedLossCounter[w] >= contestedLossCounter[h]

\* A reveal opens the picks of losers together with their winner's.
LEMMA RevealIsFair ==
  ASSUME DraftInv, RevealRound
  PROVE  FairToLosers
<1> DEFINE rp == picks[currentRound]
<1>1. PICK won \in Winners(rp) : RevealWith(rp, won)
  BY DEF RevealRound
<1>2. currentRound \in Rounds /\ rp \in RoundType /\ TypeOK /\ \A h \in Heirs : Disciplined(rp[h])
  BY DEF DraftInv, LedgerInv, PickDiscipline, TypeOK, RoundType
<1>3. picks'[currentRound] = Opened(rp, won)
  <2>1. picks \in [Rounds -> RoundType] /\ currentRound \in Nat
    BY <1>2, BoundsAssumption DEF TypeOK, RoundType, Rounds
  <2> HIDE DEF rp
  <2>2. QED BY <1>1, <1>2, <2>1 DEF RevealWith, ContinueRound, CloseRound
<1>4. SUFFICES ASSUME NEW h \in Heirs, IsPending(rp[h]),
                      Last(picks'[currentRound][h]).outcome = "lost_contest"
               PROVE  /\ awardedTo'[Last(rp[h]).item] \in Heirs \ {h}
                      /\ contestedLossCounter[awardedTo'[Last(rp[h]).item]] >= contestedLossCounter[h]
  BY DEF FairToLosers
<1> HIDE DEF rp
<1>5. Opened(rp, won)[h] # rp[h]
  BY <1>3, <1>4 DEF IsPending
<1>6. h \in AtLevel(rp)
  BY <1>2, <1>5, OpenedRound
<1>7. ~Wins(rp, won, h)
  BY <1>2, <1>3, <1>4, <1>6, OpenedPick
<1>8. PICK w \in AtLevel(rp) \ {h} :
        w = won[Claim(rp, h)] /\ contestedLossCounter[w] >= contestedLossCounter[h]
  BY <1>2, <1>6, <1>7, LoserHasAWinner
<1>9. Claim(rp, h) \in DOMAIN won /\ Claim(rp, h) \in Items
  <2>1. rp[h] \in Seq(Pick) /\ rp[h] # <<>>
    BY <1>2, <1>4 DEF IsPending, RoundType
  <2>2. Last(rp[h]) \in Pick
    BY <2>1, EmptySeq, LenProperties, ElementOfSeq DEF Last
  <2>3. QED BY <1>6, <2>2 DEF Claimed, Winners, Claim, Pick
<1>10. awardedTo'[Claim(rp, h)] = w
  BY <1>1, <1>8, <1>9 DEF RevealWith
<1>11. w \in Heirs \ {h}
  BY DEF AtLevel, PendingHeirs
<1>12. QED BY <1>8, <1>10, <1>11 DEF Claim

\* A seal turns nobody away.
LEMMA SealIsFair ==
  ASSUME DraftInv, OnlySeals
  PROVE  FairToLosers
<1>1. SUFFICES ASSUME NEW h \in Heirs, IsPending(picks[currentRound][h])
               PROVE  Last(picks'[currentRound][h]).outcome # "lost_contest"
  BY DEF FairToLosers
<1>2. OwedLevel(picks[currentRound][h]) = 0
  BY <1>1 DEF IsPending, OwedLevel
<1>3. picks'[currentRound][h] = picks[currentRound][h]
  <2>1. currentRound \in Rounds
    BY DEF DraftInv, TypeOK
  <2>2. Seals(picks[currentRound], picks'[currentRound])
    BY <2>1 DEF OnlySeals
  <2>3. QED BY <1>2, <2>2 DEF Seals
<1>4. QED BY <1>1, <1>3 DEF IsPending

\* The heirs a reveal turns away had no more contested losses than the winner.
THEOREM ContestsAreFair == Spec => ContestsGoToTheUnlucky
<1>1. DraftInv /\ [Next]_draftVars => [FairToLosers]_draftVars
  BY RevealIsFair, SealIsFair, StepsRevealOrSeal
<1>2. QED BY <1>1, DraftInvariant, PTL DEF Spec, ContestsGoToTheUnlucky, FairToLosers
=============================================================================
