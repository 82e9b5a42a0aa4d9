------------------------ MODULE DraftRefinementProofs ------------------------
(* The proof that the draft implements SealedDraft, for any heirs and items. *)
EXTENDS DraftRefinement, DraftRoundProofs

-----------------------------------------------------------------------------
(* The claims and the awards of one heir's picks *)

\* The items heir h has sealed, and has been given, in a round with picks rp.
Sealing(rp, h) == {i \in Items : IsPending(rp[h]) /\ Last(rp[h]).item = i}
Given(rp, h) ==
  {i \in Items : \E k \in DOMAIN rp[h] : rp[h][k].item = i /\ rp[h][k].outcome = "awarded"}

\* The claims are what the heirs have sealed in the current round.
LEMMA ClaimsAreSealed ==
  ASSUME NEW h \in Heirs, NEW i \in Items
  PROVE  <<h, i>> \in SealedClaims <=> i \in Sealing(picks[currentRound], h)
  BY DEF SealedClaims, Sealing

\* The awards are what the heirs were given in all the rounds.
LEMMA AwardsAreGiven ==
  ASSUME NEW r \in Rounds, NEW h \in Heirs, NEW i \in Items
  PROVE  <<r, h, i>> \in LedgerAwards <=> i \in Given(picks[r], h)
  BY DEF LedgerAwards, Given

\* An heir without a sealed pick is no claimant.
LEMMA NothingSealed ==
  ASSUME NEW h \in Heirs, Sealing(picks[currentRound], h) = {}
  PROVE  h \notin Promise!Claimants
<1>1. ASSUME NEW c \in SealedClaims PROVE c[1] # h
  <2>1. c \in Heirs \X Items /\ IsPending(picks[currentRound][c[1]])
        /\ Last(picks[currentRound][c[1]]).item = c[2]
    BY DEF SealedClaims
  <2>2. c[2] \in Items
    BY <2>1
  <2>3. c[2] \in Sealing(picks[currentRound], c[1])
    BY <2>1, <2>2 DEF Sealing
  <2>4. QED BY <2>3
<1>2. QED BY <1>1 DEF Promise!Claimants

\* An heir with no award in the round was not served in it.
LEMMA NothingGiven ==
  ASSUME NEW h \in Heirs, Given(picks[currentRound], h) = {}
  PROVE  h \notin Promise!Served
<1>1. ASSUME NEW a \in LedgerAwards, a[1] = currentRound PROVE a[2] # h
  <2>1. a \in Rounds \X Heirs \X Items
        /\ \E k \in DOMAIN picks[a[1]][a[2]] :
             picks[a[1]][a[2]][k].item = a[3] /\ picks[a[1]][a[2]][k].outcome = "awarded"
    BY DEF LedgerAwards
  <2>2. a[3] \in Items
    BY <2>1
  <2>3. a[3] \in Given(picks[currentRound], a[2])
    BY <1>1, <2>1, <2>2 DEF Given
  <2>4. QED BY <2>3
<1>2. QED BY <1>1 DEF Promise!Served

\* The last pick of a non-empty sequence of picks, and the ones before it.
LEMMA LastPick ==
  ASSUME NEW s \in Seq(Pick), s # <<>>
  PROVE  /\ Len(s) \in Nat \ {0} /\ DOMAIN s = 1..Len(s) /\ Len(s) \in DOMAIN s
         /\ Last(s) = s[Len(s)] /\ Last(s) \in Pick /\ Last(s).item \in Items
<1>1. Len(s) \in Nat \ {0} /\ DOMAIN s = 1..Len(s)
  BY EmptySeq, LenProperties
<1>2. Last(s) = s[Len(s)] /\ Len(s) \in DOMAIN s
  BY <1>1 DEF Last
<1>3. s[Len(s)] \in Pick
  BY <1>1, ElementOfSeq
<1>4. QED BY <1>1, <1>2, <1>3 DEF Pick

\* An heir who owes a pick has sealed nothing and has been given nothing.
LEMMA OwingHasNothing ==
  ASSUME NEW rp \in RoundType, NEW h \in Heirs, Disciplined(rp[h]), OwedLevel(rp[h]) # 0
  PROVE  Sealing(rp, h) = {} /\ Given(rp, h) = {}
<1>1. rp[h] \in Seq(Pick)
  BY DEF RoundType
<1>2. CASE rp[h] = <<>>
  BY <1>2 DEF Sealing, Given, IsPending
<1>3. CASE rp[h] # <<>>
  <2>1. Last(rp[h]).outcome = "lost_contest"
    BY <1>3 DEF OwedLevel
  <2>2. \A k \in DOMAIN rp[h] : rp[h][k].outcome = "lost_contest"
    BY <1>1, <1>3, <2>1, LastPick DEF Disciplined
  <2>3. QED BY <2>1, <2>2 DEF Sealing, Given, IsPending
<1>4. QED BY <1>2, <1>3

\* An heir with a sealed pick has been given nothing in the round.
LEMMA PendingHasNothing ==
  ASSUME NEW rp \in RoundType, NEW h \in Heirs, Disciplined(rp[h]), IsPending(rp[h])
  PROVE  Given(rp, h) = {} /\ Sealing(rp, h) = {Claim(rp, h)} /\ Claim(rp, h) \in Items
<1>1. rp[h] \in Seq(Pick) /\ rp[h] # <<>> /\ Last(rp[h]).outcome = "pending"
  BY DEF RoundType, IsPending
<1>2. \A k \in DOMAIN rp[h] : rp[h][k].outcome # "awarded"
  BY <1>1, LastPick DEF Disciplined
<1>3. QED BY <1>1, <1>2, LastPick DEF Given, Sealing, Claim

\* Sealing a pick adds one claim and gives nothing.
LEMMA SealGivesNothing ==
  ASSUME NEW rp \in RoundType, NEW rq \in RoundType, NEW h \in Heirs, Disciplined(rp[h]),
         OwedLevel(rp[h]) # 0, NEW i \in Items, NEW counted \in BOOLEAN,
         rq[h] = Append(rp[h], SealedPick(i, counted))
  PROVE  Sealing(rq, h) = {i} /\ Given(rq, h) = {}
<1>1. SealedPick(i, counted) \in Pick /\ SealedPick(i, counted).item = i
      /\ SealedPick(i, counted).outcome = "pending"
  BY DEF SealedPick, Pick, Outcomes
<1>2. rp[h] \in Seq(Pick)
  BY DEF RoundType
<1>3. Disciplined(rq[h]) /\ rq[h] # <<>> /\ Last(rq[h]) = SealedPick(i, counted)
  BY <1>1, <1>2, SealOne
<1>4. IsPending(rq[h])
  BY <1>1, <1>3 DEF IsPending
<1>5. QED BY <1>1, <1>3, <1>4, PendingHasNothing DEF Claim

\* A round without picks has neither claims nor awards.
LEMMA EmptyHasNothing ==
  ASSUME NEW rp, NEW h \in Heirs, rp[h] = <<>>
  PROVE  Sealing(rp, h) = {} /\ Given(rp, h) = {}
  BY DEF Sealing, Given, IsPending

-----------------------------------------------------------------------------
(* Sealing *)

\* A seal changes no award; it adds a claim for heirs with neither.
LEMMA SealsClaim ==
  ASSUME NEW rp \in RoundType, NEW rq, Seals(rp, rq), NEW h \in Heirs, Disciplined(rp[h])
  PROVE  /\ Given(rq, h) = Given(rp, h)
         /\ \/ Sealing(rq, h) = Sealing(rp, h)
            \/ Sealing(rp, h) = {} /\ Given(rp, h) = {}
         /\ \A i, j \in Sealing(rq, h) : i = j
<1>1. rq \in RoundType
  BY DEF Seals
<1>2. CASE rq[h] = rp[h]
  BY <1>2 DEF Sealing, Given
<1>3. ASSUME OwedLevel(rp[h]) # 0, NEW i \in Items, NEW counted \in BOOLEAN,
             rq[h] = Append(rp[h], SealedPick(i, counted))
      PROVE  Sealing(rq, h) = {i} /\ Given(rq, h) = {} /\ Sealing(rp, h) = {} /\ Given(rp, h) = {}
  BY <1>1, <1>3, SealGivesNothing, OwingHasNothing
<1>4. \A i, j \in Sealing(rq, h) : i = j
  BY DEF Sealing
<1>5. QED BY <1>2, <1>3, <1>4 DEF Seals

\* The request only seals picks, in the current round or in round 1 as it opens:
\* a step of the promise.
LEMMA SealRefines ==
  ASSUME DraftInv,
         NEW r \in Rounds, r = currentRound \/ (currentRound = 0 /\ r = 1),
         NEW rq, Seals(picks[r], rq),
         currentRound' = r, UNCHANGED awardedTo,
         picks' = [picks EXCEPT ![r] = rq]
  PROVE  Promise!Seal \/ Promise!Begin
<1>1. /\ picks \in [Rounds -> RoundType] /\ rq \in RoundType
      /\ picks'[r] = rq /\ \A q \in Rounds \ {r} : picks'[q] = picks[q]
      /\ \A h \in Heirs : Disciplined(picks[r][h])
  BY DEF DraftInv, LedgerInv, PickDiscipline, TypeOK, RoundType, Seals
<1>2. \A h \in Heirs :
        /\ Given(rq, h) = Given(picks[r], h)
        /\ \/ Sealing(rq, h) = Sealing(picks[r], h)
           \/ Sealing(picks[r], h) = {} /\ Given(picks[r], h) = {}
        /\ \A i, j \in Sealing(rq, h) : i = j
  BY <1>1, SealsClaim
<1>3. LedgerAwards' = LedgerAwards
  <2>1. \A q \in Rounds, h \in Heirs : Given(picks'[q], h) = Given(picks[q], h)
    BY <1>1, <1>2
  <2>2. \A q \in Rounds, h \in Heirs, i \in Items :
          <<q, h, i>> \in LedgerAwards' <=> i \in Given(picks'[q], h)
    BY DEF LedgerAwards, Given
  <2>3. LedgerAwards \subseteq Rounds \X Heirs \X Items /\ LedgerAwards' \subseteq Rounds \X Heirs \X Items
    BY DEF LedgerAwards
  <2>4. \A a \in Rounds \X Heirs \X Items : a \in LedgerAwards' <=> a \in LedgerAwards
    BY <2>1, <2>2, AwardsAreGiven
  <2>5. QED BY <2>3, <2>4
<1>4. /\ SealedClaims' \subseteq Heirs \X Items
      /\ \A h \in Heirs, i \in Items : <<h, i>> \in SealedClaims' <=> i \in Sealing(rq, h)
  BY <1>1 DEF SealedClaims, Sealing
<1>5. \A c, d \in SealedClaims' : c[1] = d[1] => c = d
  BY <1>2, <1>4
<1>6. CASE r = currentRound
  <2>1. \A c \in Heirs \X Items : c \in SealedClaims => c \in SealedClaims'
    <3>1. SUFFICES ASSUME NEW h \in Heirs, NEW i \in Items, <<h, i>> \in SealedClaims
                   PROVE  <<h, i>> \in SealedClaims'
      OBVIOUS
    <3>2. i \in Sealing(picks[r], h)
      BY <1>6, <3>1, ClaimsAreSealed
    <3>3. QED BY <1>2, <1>4, <3>2
  <2>2. SealedClaims \subseteq SealedClaims'
    BY <2>1 DEF SealedClaims
  <2>3. ASSUME NEW c \in SealedClaims' \ SealedClaims
        PROVE  c[1] \notin Promise!Claimants \cup Promise!Served
    <3>1. PICK h \in Heirs, i \in Items : c = <<h, i>>
      BY <1>4
    <3>2. i \in Sealing(rq, h) /\ i \notin Sealing(picks[r], h)
      BY <1>4, <1>6, <2>3, <3>1, ClaimsAreSealed
    <3>3. Sealing(picks[r], h) = {} /\ Given(picks[r], h) = {}
      BY <1>2, <3>2
    <3>4. h \notin Promise!Claimants /\ h \notin Promise!Served
      BY <1>6, <3>3, NothingSealed, NothingGiven
    <3>5. c[1] = h
      BY <3>1
    <3>6. QED BY <3>4, <3>5
  <2>4. QED BY <1>3, <1>4, <1>5, <1>6, <2>2, <2>3 DEF Promise!Seal, Promise!Sealed
<1>7. CASE currentRound = 0 /\ r = 1
  BY <1>3, <1>4, <1>5, <1>7 DEF Promise!Begin, Promise!Sealed
<1>8. QED BY <1>6, <1>7

-----------------------------------------------------------------------------
(* Opening *)

\* A pick that is opened is a claim no more, and an award if it won.
LEMMA OpenedHeir ==
  ASSUME NEW rp \in RoundType, NEW won \in Winners(rp), NEW h \in AtLevel(rp),
         Disciplined(rp[h])
  PROVE  /\ Sealing(Opened(rp, won), h) = {}
         /\ Given(Opened(rp, won), h) = IF Wins(rp, won, h) THEN {Claim(rp, h)} ELSE {}
         /\ Given(rp, h) = {} /\ Claim(rp, h) \in Items
<1> DEFINE t == Opened(rp, won)[h]
<1>1. /\ t \in Seq(Pick) /\ Disciplined(t) /\ t # <<>>
      /\ Last(t).item = Claim(rp, h)
      /\ Last(t).outcome = IF Wins(rp, won, h) THEN "awarded" ELSE "lost_contest"
  BY OpenedPick
<1>2. h \in Heirs /\ IsPending(rp[h])
  BY DEF AtLevel, PendingHeirs
<1>3. Given(rp, h) = {} /\ Claim(rp, h) \in Items
  BY <1>2, PendingHasNothing
<1>4. Sealing(Opened(rp, won), h) = {}
  BY <1>1 DEF Sealing, IsPending
<1> HIDE DEF t
<1>5. /\ DOMAIN t = 1..Len(t) /\ Len(t) \in DOMAIN t /\ Last(t) = t[Len(t)]
      /\ Len(t) \in Nat \ {0}
  BY <1>1, LastPick
<1>6. \A k \in DOMAIN t : k # Len(t) => t[k].outcome = "lost_contest"
  BY <1>1, <1>5 DEF Disciplined
<1>7. \A i \in Items : (\E k \in DOMAIN t : t[k].item = i /\ t[k].outcome = "awarded")
                         <=> Wins(rp, won, h) /\ i = Claim(rp, h)
  BY <1>1, <1>5, <1>6
<1>8. Given(Opened(rp, won), h) = IF Wins(rp, won, h) THEN {Claim(rp, h)} ELSE {}
  BY <1>3, <1>7 DEF Given, t
<1>9. QED BY <1>3, <1>4, <1>8

\* The claims a reveal opens, and the ones it honours.
OpenedClaims(rp) == {c \in SealedClaims : c[1] \in AtLevel(rp)}
WonClaims(rp, won) == {c \in OpenedClaims(rp) : Wins(rp, won, c[1])}

\* Every claimed item goes to exactly one of its claimants.
LEMMA WinnersAreHonoured ==
  ASSUME DraftInv, NEW won \in Winners(picks[currentRound])
  PROVE  Promise!Honoured(OpenedClaims(picks[currentRound]), WonClaims(picks[currentRound], won))
<1> DEFINE rp == picks[currentRound]
<1>1. rp \in RoundType /\ DOMAIN won = Claimed(rp)
  BY DEF DraftInv, TypeOK, RoundType, Winners
<1>2. \A c \in OpenedClaims(rp) :
        /\ c \in Heirs \X Items /\ c[1] \in AtLevel(rp) /\ Claim(rp, c[1]) = c[2]
  BY DEF OpenedClaims, SealedClaims, Claim
<1>3. ASSUME NEW c \in OpenedClaims(rp)
      PROVE  \E w \in WonClaims(rp, won) : w[2] = c[2]
  <2>1. c[2] \in DOMAIN won /\ c[2] \in Items
    BY <1>1, <1>2 DEF Claimed
  <2> DEFINE g == won[c[2]]
  <2>2. g \in AtLevel(rp) /\ Claim(rp, g) = c[2] /\ Wins(rp, won, g) /\ g \in Heirs
    BY <1>1, <2>1, WinnerClaims
  <2>3. IsPending(rp[g])
    BY <2>2 DEF AtLevel, PendingHeirs
  <2> HIDE DEF g
  <2>4. <<g, c[2]>> \in SealedClaims
    BY <2>1, <2>2, <2>3 DEF SealedClaims, Claim
  <2>5. <<g, c[2]>> \in WonClaims(rp, won)
    BY <2>2, <2>4 DEF WonClaims, OpenedClaims
  <2>6. QED BY <2>5
<1>4. ASSUME NEW v \in WonClaims(rp, won), NEW w \in WonClaims(rp, won), v[2] = w[2]
      PROVE  v = w
  <2>1. v \in Heirs \X Items /\ w \in Heirs \X Items
    BY <1>2 DEF WonClaims
  <2>2. v[1] = won[v[2]] /\ w[1] = won[w[2]]
    BY <1>2 DEF WonClaims, Wins
  <2>3. v[1] = w[1]
    BY <1>4, <2>2
  <2>4. QED BY <1>4, <2>1, <2>3
<1>5. QED BY <1>3, <1>4 DEF Promise!Honoured

\* What a reveal makes of the awards of each round.
LEMMA RevealGives ==
  ASSUME DraftInv, NEW won \in Winners(picks[currentRound]),
         RevealWith(picks[currentRound], won)
  PROVE  Promise!Award(WonClaims(picks[currentRound], won))
<1> DEFINE rp == picks[currentRound]
           wonClaims == WonClaims(rp, won)
<1>1. /\ rp \in RoundType /\ currentRound \in Rounds /\ picks \in [Rounds -> RoundType]
      /\ \A q \in Rounds, h \in Heirs : Disciplined(picks[q][h])
  BY DEF DraftInv, LedgerInv, PickDiscipline, TypeOK, RoundType
<1>2. /\ picks'[currentRound] = Opened(rp, won)
      /\ \A q \in Rounds \ {currentRound} : Seals(picks[q], picks'[q])
  BY RevealedPicks
<1>3. \A q \in Rounds, h \in Heirs, i \in Items :
        <<q, h, i>> \in LedgerAwards' <=> i \in Given(picks'[q], h)
  BY DEF LedgerAwards, Given
<1>4. ASSUME NEW h \in Heirs, NEW i \in Items
      PROVE  <<h, i>> \in wonClaims <=> h \in AtLevel(rp) /\ Wins(rp, won, h) /\ i = Claim(rp, h)
  BY DEF WonClaims, OpenedClaims, SealedClaims, AtLevel, PendingHeirs, Claim
<1> HIDE DEF rp, wonClaims
<1>5. ASSUME NEW q \in Rounds, NEW h \in Heirs, NEW i \in Items
      PROVE  <<q, h, i>> \in LedgerAwards' <=>
               <<q, h, i>> \in LedgerAwards \/ (q = currentRound /\ <<h, i>> \in wonClaims)
  <2>1. CASE q # currentRound
    <3>1. Given(picks'[q], h) = Given(picks[q], h)
      BY <1>1, <1>2, <2>1, SealsClaim
    <3>2. QED BY <1>3, <2>1, <3>1, AwardsAreGiven
  <2>2. CASE q = currentRound /\ h \in AtLevel(rp)
    <3>1. /\ Given(Opened(rp, won), h) = IF Wins(rp, won, h) THEN {Claim(rp, h)} ELSE {}
          /\ Given(rp, h) = {}
      BY <1>1, <2>2, OpenedHeir DEF rp
    <3>2. <<q, h, i>> \notin LedgerAwards
      BY <2>2, <3>1, AwardsAreGiven DEF rp
    <3>3. QED BY <1>2, <1>3, <1>4, <2>2, <3>1, <3>2
  <2>3. CASE q = currentRound /\ h \notin AtLevel(rp)
    <3>1. Opened(rp, won)[h] = rp[h]
      BY <2>3 DEF Opened
    <3>2. Given(Opened(rp, won), h) = Given(rp, h)
      BY <3>1 DEF Given
    <3>3. QED BY <1>2, <1>3, <1>4, <2>3, <3>2, AwardsAreGiven DEF rp
  <2>4. QED BY <2>1, <2>2, <2>3
<1>6. wonClaims \subseteq Heirs \X Items
  BY DEF wonClaims, WonClaims, OpenedClaims, SealedClaims
<1> DEFINE new == {<<currentRound, w[1], w[2]>> : w \in wonClaims}
<1>7. ASSUME NEW q \in Rounds, NEW h \in Heirs, NEW i \in Items
      PROVE  <<q, h, i>> \in new <=> q = currentRound /\ <<h, i>> \in wonClaims
  BY <1>6
<1>8. new \subseteq Rounds \X Heirs \X Items
  BY <1>1, <1>6
<1>9. LedgerAwards \subseteq Rounds \X Heirs \X Items /\ LedgerAwards' \subseteq Rounds \X Heirs \X Items
  BY DEF LedgerAwards
<1> HIDE DEF new
<1>10. \A a \in Rounds \X Heirs \X Items : a \in LedgerAwards' <=> a \in LedgerAwards \cup new
  <2>1. TAKE a \in Rounds \X Heirs \X Items
  <2>2. PICK q \in Rounds, h \in Heirs, i \in Items : a = <<q, h, i>>
    OBVIOUS
  <2>3. QED BY <1>5, <1>7, <2>2
<1>11. LedgerAwards' = LedgerAwards \cup new
  BY <1>8, <1>9, <1>10
<1>12. ASSUME NEW i \in Items
       PROVE  IF \E w \in wonClaims : w[2] = i
              THEN <<awardedTo'[i], i>> \in wonClaims
              ELSE awardedTo'[i] = awardedTo[i]
  <2>1. awardedTo'[i] = IF i \in DOMAIN won THEN won[i] ELSE awardedTo[i]
    BY DEF RevealWith
  <2>2. CASE i \in DOMAIN won
    <3>1. won[i] \in AtLevel(rp) /\ Claim(rp, won[i]) = i /\ Wins(rp, won, won[i]) /\ won[i] \in Heirs
      BY <1>1, <2>2, WinnerClaims DEF rp
    <3>2. <<won[i], i>> \in wonClaims
      BY <1>4, <3>1
    <3>3. QED BY <2>1, <2>2, <3>2
  <2>3. CASE i \notin DOMAIN won
    <3>1. \A w \in wonClaims : w[2] # i
      <4>1. SUFFICES ASSUME NEW h \in Heirs, <<h, i>> \in wonClaims PROVE FALSE
        BY <1>6
      <4>2. h \in AtLevel(rp) /\ i = Claim(rp, h)
        BY <1>4, <4>1
      <4>3. QED BY <2>3, <4>2 DEF Winners, Claimed, rp
    <3>2. QED BY <2>1, <2>3, <3>1
  <2>4. QED BY <2>2, <2>3
<1>13. QED BY <1>11, <1>12 DEF Promise!Award, new, wonClaims, rp

\* A reveal is an opening of the promise.
LEMMA RevealRefines ==
  ASSUME DraftInv, RevealRound
  PROVE  Promise!Open \/ Promise!OpenLast
<1> DEFINE rp == picks[currentRound]
<1>1. PendingHeirs(rp) # {}
  BY DEF RevealRound
<1>2. PICK won \in Winners(rp) : RevealWith(rp, won)
  BY DEF RevealRound
<1> DEFINE opened == OpenedClaims(rp)
           wonClaims == WonClaims(rp, won)
<1>3. /\ rp \in RoundType /\ currentRound \in Rounds /\ picks \in [Rounds -> RoundType]
      /\ \A q \in Rounds, h \in Heirs : Disciplined(picks[q][h])
  BY DEF DraftInv, LedgerInv, PickDiscipline, TypeOK, RoundType
<1>4. /\ picks'[currentRound] = Opened(rp, won)
      /\ \A q \in Rounds \ {currentRound} : Seals(picks[q], picks'[q])
      /\ \/ currentRound' = currentRound
         \/ /\ currentRound' = currentRound + 1 /\ currentRound' \in Rounds
            /\ PendingHeirs(Opened(rp, won)) = {}
  BY <1>2, RevealedPicks
<1>5. Promise!Honoured(opened, wonClaims) /\ Promise!Award(wonClaims)
      /\ wonClaims \subseteq opened /\ opened \subseteq SealedClaims
  BY <1>2, WinnersAreHonoured, RevealGives DEF WonClaims, OpenedClaims
<1>6. SealedClaims \subseteq Heirs \X Items /\ SealedClaims' \subseteq Heirs \X Items
  BY DEF SealedClaims
<1>7. AtLevel(rp) # {}
  <2>1. DEFINE lens == {Len(rp[h]) : h \in PendingHeirs(rp)}
  <2>2. lens \in SUBSET Nat /\ lens # {}
    <3>1. \A h \in Heirs : rp[h] \in Seq(Pick)
      BY <1>3 DEF RoundType
    <3>2. \A h \in PendingHeirs(rp) : Len(rp[h]) \in Nat
      BY <3>1, LenProperties DEF PendingHeirs
    <3>3. QED BY <1>1, <3>2
  <2>3. PICK m \in lens : \A n \in lens : m <= n
    BY <2>2, LeastNat
  <2>4. QED BY <2>3 DEF AtLevel
<1>8. opened # {}
  <2>1. PICK h \in AtLevel(rp) : TRUE
    BY <1>7
  <2>2. h \in Heirs /\ IsPending(rp[h])
    BY DEF AtLevel, PendingHeirs
  <2>3. Claim(rp, h) \in Items
    BY <1>3, <2>1, <2>2, PendingHasNothing
  <2>4. <<h, Claim(rp, h)>> \in SealedClaims
    BY <2>2, <2>3 DEF SealedClaims, Claim
  <2>5. <<h, Claim(rp, h)>> \in opened
    BY <2>4 DEF OpenedClaims
  <2>6. QED BY <2>5
<1>9. CASE currentRound' = currentRound
  <2>1. ASSUME NEW h \in Heirs, NEW i \in Items
        PROVE  <<h, i>> \in SealedClaims' <=> <<h, i>> \in SealedClaims /\ h \notin AtLevel(rp)
    <3> HIDE DEF rp
    <3>1. <<h, i>> \in SealedClaims' <=> i \in Sealing(Opened(rp, won), h)
      BY <1>4, <1>9 DEF SealedClaims, Sealing
    <3>2. <<h, i>> \in SealedClaims <=> i \in Sealing(rp, h)
      BY ClaimsAreSealed DEF rp
    <3>3. CASE h \in AtLevel(rp)
      BY <1>2, <1>3, <3>1, <3>3, OpenedHeir DEF rp
    <3>4. CASE h \notin AtLevel(rp)
      <4>1. Opened(rp, won)[h] = rp[h]
        BY <3>4 DEF Opened
      <4>2. QED BY <3>1, <3>2, <3>4, <4>1 DEF Sealing
    <3>5. QED BY <3>3, <3>4
  <2>2. \A c \in Heirs \X Items : c \in SealedClaims' <=> c \in SealedClaims \ opened
    BY <2>1 DEF OpenedClaims
  <2> HIDE DEF opened
  <2>3. SealedClaims' = SealedClaims \ opened
    BY <1>6, <2>2
  <2>4. QED BY <1>5, <1>8, <1>9, <2>3 DEF Promise!Open
<1>10. CASE currentRound' # currentRound
  <2>1. PendingHeirs(Opened(rp, won)) = {} /\ currentRound' = currentRound + 1
    BY <1>4, <1>10
  <2>2. \A h \in PendingHeirs(rp) : h \in AtLevel(rp)
    BY <2>1 DEF PendingHeirs, Opened
  <2>3. \A c \in SealedClaims : c[1] \in AtLevel(rp)
    BY <2>2 DEF SealedClaims, PendingHeirs
  <2>4. opened = SealedClaims
    BY <2>3 DEF OpenedClaims
  <2>5. \A c, d \in SealedClaims' : c[1] = d[1] => c = d
    <3>1. \A c \in SealedClaims' :
            c \in Heirs \X Items /\ Last(picks'[currentRound'][c[1]]).item = c[2]
      BY DEF SealedClaims
    <3>2. \A c, d \in SealedClaims' : c[1] = d[1] => c[2] = d[2]
      BY <3>1
    <3>3. QED BY <3>1, <3>2
  <2>6. Promise!Sealed(SealedClaims')
    BY <1>6, <2>5 DEF Promise!Sealed
  <2> HIDE DEF opened, wonClaims
  <2>7. QED BY <1>5, <1>8, <2>1, <2>4, <2>6 DEF Promise!OpenLast
<1>11. QED BY <1>9, <1>10

-----------------------------------------------------------------------------
(* Every step *)

\* A request that moves neither picks nor the round leaves the promise alone.
LEMMA QuietRefines ==
  ASSUME UNCHANGED <<picks, currentRound, awardedTo>>
  PROVE  UNCHANGED Promise!vars
  BY DEF Promise!vars, SealedClaims, LedgerAwards

\* Opening the draft, with or without a sweep.
LEMMA OpenRefines ==
  ASSUME DraftInv, NEW ph, OpenRound(ph),
         \/ UNCHANGED picks
         \/ picks' = [picks EXCEPT ![currentRound'] = AutoSubmitSweep(autoSubmit, @, status, phase')]
  PROVE  Promise!Seal \/ Promise!Begin
<1> DEFINE r == IF currentRound = 0 THEN 1 ELSE currentRound
           rq == AutoSubmitSweep(autoSubmit, picks[r], status, phase')
<1>1. r \in Rounds /\ currentRound' = r /\ (r = currentRound \/ (currentRound = 0 /\ r = 1))
  BY BoundsAssumption DEF OpenRound, DraftInv, TypeOK, Rounds
<1>2. TypeOK /\ picks[r] \in RoundType
  BY <1>1 DEF DraftInv, TypeOK, RoundType
<1>3. Seals(picks[r], rq) /\ Seals(picks[r], picks[r])
  BY <1>2, SweepSeals DEF Seals
<1>4. \/ picks' = [picks EXCEPT ![r] = rq]
      \/ picks' = [picks EXCEPT ![r] = picks[r]]
  BY <1>1 DEF DraftInv, TypeOK
<1> HIDE DEF rq, r
<1>5. QED BY <1>1, <1>3, <1>4, SealRefines DEF OpenRound, itemVars

\* A request other than a reveal seals picks or leaves the promise alone.
LEMMA OtherStepsRefine ==
  ASSUME DraftInv, [Next]_draftVars, ~CaptainReveal
  PROVE  Promise!Seal \/ Promise!Begin \/ UNCHANGED Promise!vars
<1>1. CASE UNCHANGED <<picks, currentRound, awardedTo>>
  BY <1>1, QuietRefines
<1>2. TypeOK /\ currentRound \in Rounds /\ picks[currentRound] \in RoundType
  BY DEF DraftInv, TypeOK, RoundType
<1>3. ASSUME NEW h \in Heirs, NEW i \in Items, NEW counted \in BOOLEAN, SubmitPick(h, i, counted)
      PROVE  Promise!Seal \/ Promise!Begin
  BY <1>2, <1>3, SubmitSeals, SealRefines DEF SubmitPick, itemVars
<1>4. ASSUME NEW h \in Heirs, NEW on \in BOOLEAN, SetAutoSubmit(h, on), picks' # picks
      PROVE  Promise!Seal \/ Promise!Begin
  <2> DEFINE rq == AutoSubmitSweep(autoSubmit', picks[currentRound], status, phase)
  <2>1. Seals(picks[currentRound], rq)
    BY <1>2, SweepSeals
  <2>2. /\ picks' = [picks EXCEPT ![currentRound] = rq]
        /\ currentRound' = currentRound /\ UNCHANGED awardedTo
    BY <1>4 DEF SetAutoSubmit, itemVars
  <2> HIDE DEF rq
  <2>3. QED BY <1>2, <2>1, <2>2, SealRefines
<1>5. ASSUME NEW force \in BOOLEAN, LeaveRanking(force)
      PROVE  Promise!Seal \/ Promise!Begin
  BY <1>5, OpenRefines DEF LeaveRanking
<1>6. CASE StartDraft
  BY <1>6, OpenRefines DEF StartDraft
<1>7. UNCHANGED <<picks, currentRound, awardedTo>>
      \/ (\E h \in Heirs, i \in Items, counted \in BOOLEAN : SubmitPick(h, i, counted))
      \/ (\E h \in Heirs, on \in BOOLEAN : SetAutoSubmit(h, on) /\ picks' # picks)
      \/ (\E force \in BOOLEAN : LeaveRanking(force))
      \/ StartDraft
  BY DEF Next, HeirNext, AppraisalNext, CaptainNext, ReplaceRankings, FlagForAppraisal, SetAutoSubmit,
         UnflagAppraisal, SetHighValue, EditCounter, LeaveDraft, Pause, Resume, draftVars, itemVars
<1>8. QED BY <1>1, <1>3, <1>4, <1>5, <1>6, <1>7

\* The draft starts with nothing claimed and nothing given.
LEMMA PromiseStarts == Init => Promise!Init
<1>1. SUFFICES ASSUME Init PROVE SealedClaims = {} /\ LedgerAwards = {} /\ currentRound = 0
  BY DEF Promise!Init, Init
<1>2. currentRound = 0 /\ 0 \in Rounds /\ \A r \in Rounds, h \in Heirs : picks[r][h] = <<>>
  <2>1. 0 \in Rounds
    BY BoundsAssumption DEF Rounds
  <2>2. currentRound = 0 /\ picks = [r \in Rounds |-> [h \in Heirs |-> <<>>]]
    BY <1>1 DEF Init
  <2>3. QED BY <2>1, <2>2
<1>3. \A c \in SealedClaims : c[1] \in Heirs /\ picks[0][c[1]] # <<>>
  BY <1>2 DEF SealedClaims, IsPending
<1>4. \A a \in LedgerAwards : a[1] \in Rounds /\ a[2] \in Heirs /\ DOMAIN picks[a[1]][a[2]] # {}
  BY DEF LedgerAwards
<1>5. QED BY <1>2, <1>3, <1>4

\* The draft implements the sealed-bid promise, for any heirs and items.
THEOREM DraftKeepsPromise == Spec => KeepsPromise
<1>1. Init => Promise!Init
  BY PromiseStarts
<1>2. DraftInv /\ [Next]_draftVars => [Promise!Next]_Promise!vars
  BY OtherStepsRefine, RevealRefines DEF CaptainReveal, Promise!Next
<1>3. QED BY <1>1, <1>2, DraftInvariant, PTL DEF Spec, KeepsPromise, Promise!Spec

-----------------------------------------------------------------------------
(* What the promise is worth *)

\* An opening serves claimants who were not served before, once each.
LEMMA AwardServesOnce ==
  ASSUME Promise!PromiseInv, NEW won \in SUBSET SealedClaims, Promise!Award(won)
  PROVE  /\ Promise!ServedOnce'
         /\ \A a \in LedgerAwards' : a[1] \in 0..currentRound /\ a[3] \in Items
         /\ \A a \in LedgerAwards' :
              a \in LedgerAwards \/ (a[1] = currentRound /\ \E w \in won : a[2] = w[1])
         /\ \A w \in won : \E a \in LedgerAwards' : a[1] = currentRound
         /\ LedgerAwards \subseteq LedgerAwards'
         /\ Promise!LastGivenHolds'
<1> USE DEF Promise!PromiseInv
<1>1. LedgerAwards' = LedgerAwards \cup {<<currentRound, w[1], w[2]>> : w \in won}
  BY DEF Promise!Award
<1>2. \A w \in won, a \in LedgerAwards : ~(a[1] = currentRound /\ a[2] = w[1])
  BY DEF Promise!Claimants, Promise!Served
<1>3. \A v, w \in won : v[1] = w[1] => v = w
  BY DEF Promise!Sealed
<1>4. ASSUME NEW a \in LedgerAwards', NEW b \in LedgerAwards', a[1] = b[1], a[2] = b[2]
      PROVE  a = b
  <2>1. CASE a \in LedgerAwards /\ b \in LedgerAwards
    BY <1>4, <2>1 DEF Promise!ServedOnce
  <2>2. CASE a \notin LedgerAwards
    <3>1. PICK w \in won : a = <<currentRound, w[1], w[2]>>
      BY <1>1, <2>2
    <3>2. b \notin LedgerAwards
      BY <1>2, <1>4, <3>1
    <3>3. PICK v \in won : b = <<currentRound, v[1], v[2]>>
      BY <1>1, <3>2
    <3>4. QED BY <1>3, <1>4, <3>1, <3>3
  <2>3. CASE b \notin LedgerAwards
    <3>1. PICK w \in won : b = <<currentRound, w[1], w[2]>>
      BY <1>1, <2>3
    <3>2. a \notin LedgerAwards
      BY <1>2, <1>4, <3>1
    <3>3. PICK v \in won : a = <<currentRound, v[1], v[2]>>
      BY <1>1, <3>2
    <3>4. QED BY <1>3, <1>4, <3>1, <3>3
  <2>4. QED BY <2>1, <2>2, <2>3
<1>5. Promise!ServedOnce'
  BY <1>4 DEF Promise!ServedOnce
<1>6. ASSUME NEW a \in LedgerAwards'
      PROVE  a \in LedgerAwards \/ (a[1] = currentRound /\ \E w \in won : a[2] = w[1])
  <2>1. SUFFICES ASSUME a \notin LedgerAwards
                 PROVE  a[1] = currentRound /\ \E w \in won : a[2] = w[1]
    OBVIOUS
  <2>2. PICK w \in won : a = <<currentRound, w[1], w[2]>>
    BY <1>1, <2>1
  <2>3. QED BY <2>2
<1>7. ASSUME NEW a \in LedgerAwards'
      PROVE  a[1] \in 0..currentRound /\ a[3] \in Items
  <2>1. CASE a \in LedgerAwards
    BY <2>1
  <2>2. CASE a \notin LedgerAwards
    <3>1. PICK w \in won : a = <<currentRound, w[1], w[2]>>
      BY <1>1, <2>2
    <3>2. w \in Heirs \X Items
      BY DEF Promise!Sealed
    <3>3. QED BY <3>1, <3>2
  <2>3. QED BY <2>1, <2>2
<1>8. ASSUME NEW w \in won
      PROVE  \E a \in LedgerAwards' : a[1] = currentRound
  <2>1. <<currentRound, w[1], w[2]>> \in LedgerAwards'
    BY <1>1
  <2>2. <<currentRound, w[1], w[2]>>[1] = currentRound
    OBVIOUS
  <2>3. QED BY <2>1, <2>2
<1>9. LedgerAwards \subseteq LedgerAwards'
  BY <1>1
<1>10. ASSUME NEW a \in LedgerAwards'
       PROVE  \E b \in LedgerAwards' : b[3] = a[3] /\ b[2] = awardedTo'[a[3]] /\ a[1] <= b[1]
  <2> DEFINE i == a[3]
  <2>1. i \in Items /\ a[1] \in 0..currentRound
    BY <1>7
  <2>2. CASE \E w \in won : w[2] = i
    <3>1. <<awardedTo'[i], i>> \in won
      BY <2>1, <2>2 DEF Promise!Award
    <3> DEFINE b == <<currentRound, awardedTo'[i], i>>
    <3>2. b \in LedgerAwards'
      <4>1. \A w \in won : <<currentRound, w[1], w[2]>> \in LedgerAwards'
        BY <1>1
      <4>2. <<currentRound, <<awardedTo'[i], i>>[1], <<awardedTo'[i], i>>[2]>> \in LedgerAwards'
        BY <3>1, <4>1
      <4>3. QED BY <4>2
    <3>3. b[3] = i /\ b[2] = awardedTo'[i] /\ a[1] <= b[1]
      BY <2>1
    <3>4. QED BY <3>2, <3>3
  <2>3. CASE ~ \E w \in won : w[2] = i
    <3>1. awardedTo'[i] = awardedTo[i]
      BY <2>1, <2>3 DEF Promise!Award
    <3>2. a \in LedgerAwards
      <4>1. SUFFICES ASSUME a \notin LedgerAwards PROVE FALSE
        OBVIOUS
      <4>2. PICK w \in won : a = <<currentRound, w[1], w[2]>>
        BY <1>1, <4>1
      <4>3. QED BY <2>3, <4>2
    <3>3. QED BY <1>9, <3>1, <3>2 DEF Promise!LastGivenHolds
  <2>4. QED BY <2>2, <2>3
<1>11. Promise!LastGivenHolds'
  BY <1>10 DEF Promise!LastGivenHolds
<1>12. QED BY <1>5, <1>6, <1>7, <1>8, <1>9, <1>11

\* Every step of the promise keeps the invariant of the promise.
LEMMA PromiseHolds ==
  ASSUME Promise!PromiseInv, [Promise!Next]_Promise!vars
  PROVE  Promise!PromiseInv'
<1> USE DEF Promise!PromiseInv
<1>1. CASE Promise!Seal
  <2>1. UNCHANGED <<currentRound, LedgerAwards, awardedTo>> /\ SealedClaims \subseteq SealedClaims'
        /\ Promise!Sealed(SealedClaims')
        /\ \A c \in SealedClaims' \ SealedClaims : c[1] \notin Promise!Claimants \cup Promise!Served
    BY <1>1 DEF Promise!Seal
  <2>2. Promise!Served' = Promise!Served
    BY <2>1 DEF Promise!Served
  <2>3. \A c \in SealedClaims' : c[1] \notin Promise!Served
    BY <2>1 DEF Promise!Claimants
  <2>4. Promise!Claimants' \cap Promise!Served' = {}
    BY <2>2, <2>3 DEF Promise!Claimants
  <2>5. /\ Promise!Sealed(SealedClaims)' /\ Promise!ServedOnce' /\ Promise!EveryRoundGives'
        /\ Promise!LastGivenHolds'
    BY <2>1 DEF Promise!Sealed, Promise!ServedOnce, Promise!EveryRoundGives, Promise!LastGivenHolds
  <2>6. QED BY <2>1, <2>4, <2>5
<1>2. CASE Promise!Open
  <2>1. PICK opened \in SUBSET SealedClaims, won \in SUBSET SealedClaims :
          /\ won \subseteq opened /\ Promise!Award(won)
          /\ SealedClaims' = SealedClaims \ opened
          /\ currentRound' = currentRound
    BY <1>2 DEF Promise!Open
  <2>2. /\ Promise!ServedOnce' /\ Promise!LastGivenHolds'
        /\ \A a \in LedgerAwards' : a[1] \in 0..currentRound /\ a[3] \in Items
        /\ \A a \in LedgerAwards' :
             a \in LedgerAwards \/ (a[1] = currentRound /\ \E w \in won : a[2] = w[1])
        /\ LedgerAwards \subseteq LedgerAwards'
    BY <2>1, AwardServesOnce
  <2>3. Promise!Sealed(SealedClaims)'
    BY <2>1 DEF Promise!Sealed
  <2>4. ASSUME NEW c \in SealedClaims', NEW a \in LedgerAwards', a[1] = currentRound
        PROVE  a[2] # c[1]
    <3>1. c \in SealedClaims /\ c \notin opened
      BY <2>1
    <3>2. \A w \in won : w[1] # c[1]
      <4>1. \A w \in won : w \in SealedClaims /\ w # c
        BY <2>1, <3>1
      <4>2. QED BY <3>1, <4>1 DEF Promise!Sealed
    <3>3. a \in LedgerAwards => a[2] # c[1]
      BY <2>4, <3>1 DEF Promise!Claimants, Promise!Served
    <3>4. QED BY <2>2, <3>2, <3>3
  <2>5. Promise!Claimants' \cap Promise!Served' = {}
    BY <2>1, <2>4 DEF Promise!Claimants, Promise!Served
  <2>6. Promise!EveryRoundGives'
    BY <2>1, <2>2 DEF Promise!EveryRoundGives
  <2>7. QED BY <2>1, <2>2, <2>3, <2>5, <2>6
<1>3. CASE Promise!OpenLast
  <2>1. PICK won \in SUBSET SealedClaims :
          /\ SealedClaims # {} /\ Promise!Honoured(SealedClaims, won) /\ Promise!Award(won)
          /\ currentRound' = currentRound + 1
          /\ Promise!Sealed(SealedClaims')
    BY <1>3 DEF Promise!OpenLast
  <2>2. /\ Promise!ServedOnce' /\ Promise!LastGivenHolds'
        /\ \A a \in LedgerAwards' : a[1] \in 0..currentRound /\ a[3] \in Items
        /\ \A w \in won : \E a \in LedgerAwards' : a[1] = currentRound
        /\ LedgerAwards \subseteq LedgerAwards'
    BY <2>1, AwardServesOnce
  <2>3. \A a \in LedgerAwards' : a[1] # currentRound'
    BY <2>1, <2>2
  <2>4. Promise!Served' = {}
    BY <2>3 DEF Promise!Served
  <2>5. \E a \in LedgerAwards' : a[1] = currentRound
    BY <2>1, <2>2 DEF Promise!Honoured
  <2>6. Promise!EveryRoundGives'
    <3>1. SUFFICES ASSUME NEW r \in 1..currentRound', r < currentRound'
                   PROVE  \E a \in LedgerAwards' : a[1] = r
      BY DEF Promise!EveryRoundGives
    <3>2. CASE r = currentRound
      BY <2>5, <3>2
    <3>3. CASE r # currentRound
      <4>1. r \in 1..currentRound /\ r < currentRound
        BY <2>1, <3>1, <3>3
      <4>2. QED BY <2>2, <4>1 DEF Promise!EveryRoundGives
    <3>4. QED BY <3>2, <3>3
  <2>7. Promise!Sealed(SealedClaims)'
    BY <2>1 DEF Promise!Sealed
  <2>8. currentRound' \in Nat /\ \A a \in LedgerAwards' : a[1] \in 0..currentRound' /\ a[3] \in Items
    BY <2>1, <2>2
  <2>9. QED BY <2>2, <2>4, <2>6, <2>7, <2>8
<1>4. CASE Promise!Begin
  <2>1. /\ currentRound = 0 /\ currentRound' = 1 /\ UNCHANGED <<LedgerAwards, awardedTo>>
        /\ Promise!Sealed(SealedClaims')
    BY <1>4 DEF Promise!Begin
  <2>2. \A a \in LedgerAwards' : a[1] # currentRound' /\ a[1] \in 0..currentRound'
    BY <2>1
  <2>3. Promise!Served' = {}
    BY <2>2 DEF Promise!Served
  <2>4. /\ Promise!ServedOnce' /\ Promise!EveryRoundGives' /\ Promise!Sealed(SealedClaims)'
        /\ Promise!LastGivenHolds'
    BY <2>1 DEF Promise!ServedOnce, Promise!EveryRoundGives, Promise!Sealed, Promise!LastGivenHolds
  <2>5. QED BY <2>1, <2>2, <2>3, <2>4
<1>5. CASE UNCHANGED Promise!vars
  BY <1>5 DEF Promise!vars, Promise!Sealed, Promise!Claimants, Promise!Served,
              Promise!ServedOnce, Promise!EveryRoundGives, Promise!LastGivenHolds
<1>6. QED BY <1>1, <1>2, <1>3, <1>4, <1>5 DEF Promise!Next

\* Whoever keeps the promise gives nobody two items in a round, lets no round
\* pass for nothing, and shows an item as held by one who was given it last.
THEOREM PromiseIsWorth ==
  KeepsPromise => [](Promise!ServedOnce /\ Promise!EveryRoundGives /\ Promise!LastGivenHolds)
<1>1. Promise!Init => Promise!PromiseInv
  BY DEF Promise!Init, Promise!PromiseInv, Promise!Sealed, Promise!Claimants, Promise!Served,
         Promise!ServedOnce, Promise!EveryRoundGives, Promise!LastGivenHolds
<1>2. Promise!PromiseInv => Promise!ServedOnce /\ Promise!EveryRoundGives /\ Promise!LastGivenHolds
  BY DEF Promise!PromiseInv
<1>3. QED BY <1>1, <1>2, PromiseHolds, PTL DEF KeepsPromise, Promise!Spec

\* So does the draft: over the whole ledger no heir is ever given two items in a
\* round, every round that closed gave somebody something, and whom Results shows
\* as an item's owner is one the ledger gave it to, with no later round that gave
\* it to another.
THEOREM RoundsServe ==
  Spec => [](Promise!ServedOnce /\ Promise!EveryRoundGives /\ Promise!LastGivenHolds)
<1>1. QED BY DraftKeepsPromise, PromiseIsWorth, PTL
=============================================================================
