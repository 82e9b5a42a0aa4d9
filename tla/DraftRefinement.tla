-------------------------- MODULE DraftRefinement --------------------------
(* The draft of DraftRound implements the promise of SealedDraft: the claims *)
(* are the sealed picks of the current round, the awards the picks that the  *)
(* ledger calls awarded, the holders what Results shows.                     *)
EXTENDS DraftRound

SealedClaims ==
  {c \in Heirs \X Items :
     /\ IsPending(picks[currentRound][c[1]])
     /\ Last(picks[currentRound][c[1]]).item = c[2]}

LedgerAwards ==
  {a \in Rounds \X Heirs \X Items :
     \E k \in DOMAIN picks[a[1]][a[2]] :
       /\ picks[a[1]][a[2]][k].item = a[3]
       /\ picks[a[1]][a[2]][k].outcome = "awarded"}

Promise == INSTANCE SealedDraft
             WITH round <- currentRound, claims <- SealedClaims, awards <- LedgerAwards,
                  holder <- awardedTo

\* Whatever is asked of the server and in whatever order, a claim once sealed
\* is neither altered nor lost before it is opened, every contested item goes
\* to one claimant, nobody is served twice in a round, no round closes over a
\* claim that is still sealed, and the item a reveal gives is shown as its
\* winner's from then on, until another reveal gives it again: a pick of an item
\* that has an owner is accepted, and moves it.
KeepsPromise == Promise!Spec
=============================================================================
