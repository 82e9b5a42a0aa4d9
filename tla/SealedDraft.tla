---------------------------- MODULE SealedDraft ----------------------------
(***************************************************************************)
(* What the draft of FairPlay promises the heirs, told without pick        *)
(* levels, loss counters, turns, phases or rankings.                       *)
(*                                                                         *)
(* In a round an heir who has been given nothing may seal a claim to an    *)
(* item.  Nobody can alter or withdraw a sealed claim: it ends by being    *)
(* opened, some claims at a time, and then every item claimed goes to      *)
(* exactly one of its claimants.  A round ends only when no claim is left  *)
(* sealed.                                                                 *)
(*                                                                         *)
(* The record of what was given is kept for ever, but an item may be       *)
(* claimed and given again: nothing is said of whether it still was there  *)
(* to give.  Whoever was given it last then holds it.                      *)
(***************************************************************************)
EXTENDS Naturals

CONSTANTS Heirs, Items, Nobody

VARIABLES
  round,
  claims,    \* sealed claims: pairs of an heir and an item
  awards,    \* the record: triples of a round, an heir and an item
  holder     \* who holds each item now

vars == <<round, claims, awards, holder>>

Init == round = 0 /\ claims = {} /\ awards = {} /\ holder = [i \in Items |-> Nobody]

Claimants == {c[1] : c \in claims}
Served    == {a[2] : a \in {a \in awards : a[1] = round}}

\* Nobody claims two items.
Sealed(new) == new \subseteq Heirs \X Items /\ \A c, d \in new : c[1] = d[1] => c = d

Seal ==
  /\ claims \subseteq claims' /\ Sealed(claims')
  /\ \A c \in claims' \ claims : c[1] \notin Claimants \cup Served
  /\ UNCHANGED <<round, awards, holder>>

\* The claims `won` are the ones honoured among those opened: one for each item.
Honoured(opened, won) ==
  /\ \A c \in opened : \E w \in won : w[2] = c[2]
  /\ \A v, w \in won : v[2] = w[2] => v = w

Award(won) ==
  /\ awards' = awards \cup {<<round, w[1], w[2]>> : w \in won}
  /\ \A i \in Items : IF \E w \in won : w[2] = i
                     THEN <<holder'[i], i>> \in won
                     ELSE holder'[i] = holder[i]

Open ==
  \E opened \in SUBSET claims : \E won \in SUBSET opened :
    /\ opened # {} /\ Honoured(opened, won) /\ Award(won)
    /\ claims' = claims \ opened
    /\ UNCHANGED round

\* The last claims are opened, and claims may be sealed for the next round.
OpenLast ==
  \E won \in SUBSET claims :
    /\ claims # {} /\ Honoured(claims, won) /\ Award(won)
    /\ round' = round + 1
    /\ Sealed(claims')

\* Claims sealed before the first round are void.
Begin ==
  /\ round = 0 /\ round' = 1
  /\ Sealed(claims')
  /\ UNCHANGED <<awards, holder>>

Next == Seal \/ Open \/ OpenLast \/ Begin

Spec == Init /\ [][Next]_vars

-----------------------------------------------------------------------------
(* What follows from the promise *)

\* Nobody is given two items in one round, over the whole history.
ServedOnce == \A a, b \in awards : a[1] = b[1] /\ a[2] = b[2] => a = b

\* No round passes for nothing: each that is over gave somebody something,
\* were it an item given before.
EveryRoundGives == \A r \in 1..round : r < round => \E a \in awards : a[1] = r

\* An item that was ever given is held by somebody who was given it, and nobody
\* else was given it in a later round.
LastGivenHolds ==
  \A a \in awards :
    \E b \in awards : b[3] = a[3] /\ b[2] = holder[a[3]] /\ a[1] <= b[1]

\* Whoever was served in the round has no claim left in it.
PromiseInv ==
  /\ round \in Nat
  /\ Sealed(claims) /\ Claimants \cap Served = {}
  /\ \A a \in awards : a[1] \in 0..round /\ a[3] \in Items
  /\ ServedOnce /\ EveryRoundGives /\ LastGivenHolds
=============================================================================
