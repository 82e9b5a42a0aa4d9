---------------------------- MODULE FamilyProofs ----------------------------
(* Proofs about Catalogue, Evaluation, ImportStaging and RankingHistory, for *)
(* any family, items and rules.                                              *)
EXTENDS ImportStaging, RankingHistory, FiniteSetTheorems, SequenceTheorems, TLAPS

-----------------------------------------------------------------------------
(* The lists: what stripping an item and putting it back makes of them       *)

\* A list is a sequence of items without repetition.
LEMMA ListIsSeq ==
  ASSUME NEW l \in Lists(Items)
  PROVE  /\ l \in Seq(Items) /\ Len(l) \in 0..Cardinality(Items) /\ DOMAIN l = 1..Len(l)
         /\ \A j, k \in 1..Len(l) : l[j] = l[k] => j = k
<1>1. Cardinality(Items) \in Nat
  BY CatalogueAssumption, FS_CardinalityType
<1>2. PICK n \in 0..Cardinality(Items) :
        l \in [1..n -> Items] /\ \A j, k \in 1..n : l[j] = l[k] => j = k
  BY DEF Lists
<1>3. l \in Seq(Items)
  BY <1>1, <1>2, SeqDef
<1>4. Len(l) = n
  BY <1>1, <1>2, <1>3, LenProperties
<1>5. QED BY <1>2, <1>3, <1>4

\* It is never longer than the catalogue.
LEMMA SeqIsList ==
  ASSUME NEW l \in Seq(Items), \A j, k \in 1..Len(l) : l[j] = l[k] => j = k
  PROVE  l \in Lists(Items)
<1>1. Len(l) \in Nat /\ l \in [1..Len(l) -> Items]
  BY LenProperties
<1>2. l \in Injection(1..Len(l), Items)
  BY <1>1 DEF Injection, IsInjective
<1>3. Cardinality(1..Len(l)) <= Cardinality(Items)
  BY <1>2, CatalogueAssumption, FS_Injection
<1>4. Cardinality(1..Len(l)) = Len(l)
  BY <1>1, FS_Interval
<1>5. Len(l) \in 0..Cardinality(Items)
  BY <1>1, <1>3, <1>4, CatalogueAssumption, FS_CardinalityType
<1>6. QED BY <1>1, <1>5 DEF Lists

\* An item of a list has one place in it.
LEMMA PlaceOnList ==
  ASSUME NEW l \in Lists(Items), NEW i
  PROVE  /\ Place(l, i) \in 0..Cardinality(Items)
         /\ On(l, i) => Place(l, i) \in 1..Len(l) /\ l[Place(l, i)] = i
         /\ ~On(l, i) => Place(l, i) = 0
<1>1. Len(l) \in 0..Cardinality(Items) /\ DOMAIN l = 1..Len(l)
  BY ListIsSeq
<1>2. Cardinality(Items) \in Nat
  BY CatalogueAssumption, FS_CardinalityType
<1>3. CASE On(l, i)
  <2>1. Place(l, i) \in DOMAIN l /\ l[Place(l, i)] = i
    BY <1>3 DEF On, Place
  <2>2. QED BY <1>1, <1>2, <1>3, <2>1
<1>4. CASE ~On(l, i)
  BY <1>1, <1>2, <1>4 DEF Place
<1>5. QED BY <1>3, <1>4

\* Stripping closes the gap.
LEMMA StripCloses ==
  ASSUME NEW l \in Lists(Items), NEW i, On(l, i)
  PROVE  /\ Strip(l, i) \in Seq(Items) /\ Len(Strip(l, i)) = Len(l) - 1
         /\ \A k \in 1..(Len(l) - 1) :
              Strip(l, i)[k] = IF k < Place(l, i) THEN l[k] ELSE l[k + 1]
<1> DEFINE p == Place(l, i)
           left == SubSeq(l, 1, p - 1)
           right == SubSeq(l, p + 1, Len(l))
<1>1. l \in Seq(Items) /\ Len(l) \in Nat /\ p \in 1..Len(l) /\ \A k \in 1..Len(l) : l[k] \in Items
  BY ListIsSeq, PlaceOnList, ElementOfSeq
<1> HIDE DEF p
<1>2. /\ left \in Seq(Items) /\ Len(left) = p - 1
      /\ \A k \in 1..(p - 1) : left[k] = l[k]
  <2>1. \A k \in 1..(p - 1) : l[k] \in Items
    BY <1>1
  <2>2. /\ left \in Seq(Items)
        /\ Len(left) = IF 1 <= p - 1 THEN (p - 1) - 1 + 1 ELSE 0
        /\ \A k \in 1..((p - 1) - 1 + 1) : left[k] = l[1 + k - 1]
    BY <1>1, <2>1, SubSeqProperties
  <2> HIDE DEF left
  <2>3. QED BY <1>1, <2>2
<1>3. /\ right \in Seq(Items) /\ Len(right) = Len(l) - p
      /\ \A k \in 1..(Len(l) - p) : right[k] = l[p + k]
  <2>1. \A k \in (p + 1)..Len(l) : l[k] \in Items
    BY <1>1
  <2>2. /\ right \in Seq(Items)
        /\ Len(right) = IF p + 1 <= Len(l) THEN Len(l) - (p + 1) + 1 ELSE 0
        /\ \A k \in 1..(Len(l) - (p + 1) + 1) : right[k] = l[(p + 1) + k - 1]
    BY <1>1, <2>1, SubSeqProperties
  <2> HIDE DEF right
  <2>3. QED BY <1>1, <2>2
<1>4. Strip(l, i) = left \o right
  BY DEF Strip, p
<1> HIDE DEF left, right
<1>5. /\ left \o right \in Seq(Items) /\ Len(left \o right) = Len(left) + Len(right)
      /\ \A k \in 1..(Len(left) + Len(right)) :
           (left \o right)[k] = IF k <= Len(left) THEN left[k] ELSE right[k - Len(left)]
  BY <1>2, <1>3, ConcatProperties
<1>6. \A k \in 1..(Len(l) - 1) : (left \o right)[k] = IF k < p THEN l[k] ELSE l[k + 1]
  <2> SUFFICES ASSUME NEW k \in 1..(Len(l) - 1)
               PROVE  (left \o right)[k] = IF k < p THEN l[k] ELSE l[k + 1]
    OBVIOUS
  <2>1. CASE k < p
    BY <1>1, <1>2, <1>3, <1>5, <2>1
  <2>2. CASE ~(k < p)
    <3>1. k - (p - 1) \in 1..(Len(l) - p) /\ p + (k - (p - 1)) = k + 1
      BY <1>1, <2>2
    <3>2. (left \o right)[k] = right[k - (p - 1)]
      BY <1>1, <1>2, <1>3, <1>5, <2>2
    <3>3. QED BY <1>3, <2>2, <3>1, <3>2
  <2>3. QED BY <2>1, <2>2
<1>7. QED BY <1>1, <1>2, <1>3, <1>4, <1>5, <1>6 DEF p

\* What is left is a list without the item.
LEMMA StripIsList ==
  ASSUME NEW l \in Lists(Items), NEW i
  PROVE  Strip(l, i) \in Lists(Items) /\ ~On(Strip(l, i), i)
<1>1. CASE On(l, i)
  <2> DEFINE p == Place(l, i)
             rest == Strip(l, i)
  <2>1. /\ Len(l) \in Nat /\ p \in 1..Len(l) /\ l[p] = i
        /\ \A j, k \in 1..Len(l) : l[j] = l[k] => j = k
    BY <1>1, ListIsSeq, PlaceOnList
  <2>2. /\ rest \in Seq(Items) /\ Len(rest) = Len(l) - 1 /\ DOMAIN rest = 1..(Len(l) - 1)
        /\ \A k \in 1..(Len(l) - 1) : rest[k] = IF k < p THEN l[k] ELSE l[k + 1]
    BY <1>1, StripCloses, LenProperties
  <2> HIDE DEF p, rest
  <2>3. \A j, k \in 1..Len(rest) : rest[j] = rest[k] => j = k
    BY <2>1, <2>2
  <2>4. rest \in Lists(Items)
    BY <2>2, <2>3, SeqIsList
  <2>5. \A k \in 1..(Len(l) - 1) : rest[k] # i
    BY <2>1, <2>2
  <2>6. QED BY <2>2, <2>4, <2>5 DEF rest, On
<1>2. CASE ~On(l, i)
  BY <1>2 DEF Strip
<1>3. QED BY <1>1, <1>2

\* The place an item comes back to, and what is then where.
InsertedAt(l, place) == IF place - 1 < Len(l) THEN place - 1 ELSE Len(l)
LEMMA RestoreInserts ==
  ASSUME NEW l \in Lists(Items), NEW i \in Items, NEW place \in Nat \ {0}, ~On(l, i)
  PROVE  LET at == InsertedAt(l, place) IN
         /\ at \in 0..Len(l)
         /\ Restore(l, i, place) \in Seq(Items) /\ Len(Restore(l, i, place)) = Len(l) + 1
         /\ \A k \in 1..(Len(l) + 1) :
              Restore(l, i, place)[k] = IF k <= at THEN l[k] ELSE IF k = at + 1 THEN i ELSE l[k - 1]
<1> DEFINE at == InsertedAt(l, place)
           left == SubSeq(l, 1, at)
           right == SubSeq(l, at + 1, Len(l))
<1>1. l \in Seq(Items) /\ Len(l) \in Nat /\ \A k \in 1..Len(l) : l[k] \in Items
  BY ListIsSeq, ElementOfSeq
<1>2. at \in 0..Len(l)
  BY <1>1 DEF InsertedAt
<1>3. Restore(l, i, place) = (left \o <<i>>) \o right
  BY DEF Restore, InsertedAt
<1> HIDE DEF at
<1>4. left \in Seq(Items) /\ Len(left) = at /\ \A k \in 1..at : left[k] = l[k]
  <2>1. /\ left \in Seq(Items)
        /\ Len(left) = IF 1 <= at THEN at - 1 + 1 ELSE 0
        /\ \A k \in 1..(at - 1 + 1) : left[k] = l[1 + k - 1]
    BY <1>1, <1>2, SubSeqProperties
  <2> HIDE DEF left
  <2>2. QED BY <1>2, <2>1
<1>5. /\ right \in Seq(Items) /\ Len(right) = Len(l) - at
      /\ \A k \in 1..(Len(l) - at) : right[k] = l[at + k]
  <2>1. /\ right \in Seq(Items)
        /\ Len(right) = IF at + 1 <= Len(l) THEN Len(l) - (at + 1) + 1 ELSE 0
        /\ \A k \in 1..(Len(l) - (at + 1) + 1) : right[k] = l[(at + 1) + k - 1]
    BY <1>1, <1>2, SubSeqProperties
  <2> HIDE DEF right
  <2>2. QED BY <1>1, <1>2, <2>1
<1> HIDE DEF left, right
<1> DEFINE head == left \o <<i>>
<1>6. head \in Seq(Items) /\ Len(head) = at + 1 /\ \A k \in 1..(at + 1) : head[k] = IF k <= at THEN l[k] ELSE i
  <2>1. head = Append(left, i)
    BY <1>4, AppendIsConcat
  <2>2. /\ Append(left, i) \in Seq(Items) /\ Len(Append(left, i)) = Len(left) + 1
        /\ \A k \in 1..Len(left) : Append(left, i)[k] = left[k]
        /\ Append(left, i)[Len(left) + 1] = i
    BY <1>4, AppendProperties
  <2> HIDE DEF head
  <2>3. QED BY <1>2, <1>4, <2>1, <2>2
<1> HIDE DEF head
<1>7. /\ head \o right \in Seq(Items) /\ Len(head \o right) = Len(head) + Len(right)
      /\ \A k \in 1..(Len(head) + Len(right)) :
           (head \o right)[k] = IF k <= Len(head) THEN head[k] ELSE right[k - Len(head)]
  BY <1>5, <1>6, ConcatProperties
<1>8. \A k \in 1..(Len(l) + 1) :
        (head \o right)[k] = IF k <= at THEN l[k] ELSE IF k = at + 1 THEN i ELSE l[k - 1]
  <2> SUFFICES ASSUME NEW k \in 1..(Len(l) + 1)
               PROVE  (head \o right)[k] = IF k <= at THEN l[k]
                                           ELSE IF k = at + 1 THEN i ELSE l[k - 1]
    OBVIOUS
  <2>1. CASE k <= at + 1
    BY <1>1, <1>2, <1>5, <1>6, <1>7, <2>1
  <2>2. CASE ~(k <= at + 1)
    <3>1. k - (at + 1) \in 1..(Len(l) - at) /\ at + (k - (at + 1)) = k - 1
      BY <1>1, <1>2, <2>2
    <3>2. (head \o right)[k] = right[k - (at + 1)]
      BY <1>1, <1>2, <1>5, <1>6, <1>7, <2>2
    <3>3. QED BY <1>2, <1>5, <2>2, <3>1, <3>2
  <2>3. QED BY <2>1, <2>2
<1>9. Restore(l, i, place) = head \o right
  BY <1>3 DEF head
<1>10. QED BY <1>1, <1>2, <1>5, <1>6, <1>7, <1>8, <1>9 DEF at

\* A list the item came back to is a list.
LEMMA RestoreIsList ==
  ASSUME NEW l \in Lists(Items), NEW i \in Items, NEW place \in Nat
  PROVE  Restore(l, i, place) \in Lists(Items)
<1>1. CASE place = 0 \/ On(l, i)
  BY <1>1 DEF Restore
<1>2. CASE place # 0 /\ ~On(l, i)
  <2> DEFINE at == InsertedAt(l, place)
             full == Restore(l, i, place)
  <2>1. /\ at \in 0..Len(l) /\ full \in Seq(Items) /\ Len(full) = Len(l) + 1
        /\ \A k \in 1..(Len(l) + 1) :
             full[k] = IF k <= at THEN l[k] ELSE IF k = at + 1 THEN i ELSE l[k - 1]
    BY <1>2, RestoreInserts
  <2>2. Len(l) \in Nat /\ \A j, k \in 1..Len(l) : l[j] = l[k] => j = k
    BY ListIsSeq
  <2>3. \A k \in 1..Len(l) : l[k] # i
    BY <1>2, ListIsSeq DEF On
  <2> HIDE DEF at, full
  <2>4. \A j, k \in 1..Len(full) : full[j] = full[k] => j = k
    <3> DEFINE back(k) == IF k <= at THEN k ELSE k - 1
    <3>1. \A k \in 1..Len(full) :
            IF k = at + 1 THEN full[k] = i ELSE back(k) \in 1..Len(l) /\ full[k] = l[back(k)]
      <4> SUFFICES ASSUME NEW k \in 1..Len(full)
                   PROVE  IF k = at + 1 THEN full[k] = i
                          ELSE back(k) \in 1..Len(l) /\ full[k] = l[back(k)]
        OBVIOUS
      <4>1. full[k] = IF k <= at THEN l[k] ELSE IF k = at + 1 THEN i ELSE l[k - 1]
        BY <2>1
      <4>2. k \in 1..(Len(l) + 1) /\ at \in 0..Len(l) /\ Len(l) \in Nat
        BY <2>1, <2>2
      <4>3. QED BY <4>1, <4>2
    <3>2. \A j, k \in 1..Len(full) : j # at + 1 /\ k # at + 1 /\ back(j) = back(k) => j = k
      BY <2>1, <2>2
    <3> HIDE DEF back
    <3>3. QED BY <2>2, <2>3, <3>1, <3>2
  <2>5. QED BY <2>1, <2>4, SeqIsList DEF full
<1>3. QED BY <1>1, <1>2

\* An item put back where it was taken from gives the list it was taken from.
LEMMA RestoreUndoesStrip ==
  ASSUME NEW l \in Lists(Items), NEW i \in Items
  PROVE  Restore(Strip(l, i), i, Place(l, i)) = l
<1>1. CASE On(l, i)
  <2> DEFINE p == Place(l, i)
             rest == Strip(l, i)
             full == Restore(rest, i, p)
             at == InsertedAt(rest, p)
  <2>1. l \in Seq(Items) /\ Len(l) \in Nat /\ p \in 1..Len(l) /\ l[p] = i
    BY <1>1, ListIsSeq, PlaceOnList
  <2>2. /\ Len(rest) = Len(l) - 1
        /\ \A k \in 1..(Len(l) - 1) : rest[k] = IF k < p THEN l[k] ELSE l[k + 1]
    BY <1>1, StripCloses
  <2>3. rest \in Lists(Items) /\ ~On(rest, i)
    BY StripIsList
  <2> HIDE DEF rest, p
  <2>4. at = p - 1
    BY <2>1, <2>2 DEF InsertedAt
  <2>5. /\ full \in Seq(Items) /\ Len(full) = Len(rest) + 1
        /\ \A k \in 1..(Len(rest) + 1) :
             full[k] = IF k <= at THEN rest[k] ELSE IF k = at + 1 THEN i ELSE rest[k - 1]
    BY <2>1, <2>3, RestoreInserts
  <2> HIDE DEF at, full
  <2>6. Len(full) = Len(l) /\ \A k \in 1..Len(l) : full[k] = l[k]
    <3>1. Len(full) = Len(l)
      BY <2>1, <2>2, <2>5
    <3>2. SUFFICES ASSUME NEW k \in 1..Len(l) PROVE full[k] = l[k]
      BY <3>1
    <3>3. full[k] = IF k < p THEN rest[k] ELSE IF k = p THEN i ELSE rest[k - 1]
      BY <2>1, <2>2, <2>4, <2>5
    <3>4. CASE k < p
      BY <2>1, <2>2, <3>3, <3>4
    <3>5. CASE k = p
      BY <2>1, <3>3, <3>5
    <3>6. CASE k > p
      <4>1. k - 1 \in 1..(Len(l) - 1) /\ ~(k - 1 < p) /\ (k - 1) + 1 = k
        BY <2>1, <3>6
      <4>2. rest[k - 1] = l[k]
        BY <2>2, <4>1
      <4>3. QED BY <2>1, <3>3, <3>6, <4>2
    <3>7. QED BY <2>1, <3>4, <3>5, <3>6
  <2>7. full = l
    BY <2>1, <2>5, <2>6, SeqEqual
  <2>8. QED BY <2>7 DEF full, rest, p
<1>2. CASE ~On(l, i)
  BY <1>2 DEF Strip, Place, Restore
<1>3. QED BY <1>1, <1>2

-----------------------------------------------------------------------------
(* The types the arguments below need *)

Row == [status : Statuses, needsAppraisal : BOOLEAN, isHeirloom : BOOLEAN, confirmed : BOOLEAN,
        grouping : Groupings \cup {NoGrouping}, awardedTo : Heirs \cup {Nobody}]

RowsOK ==
  /\ items \in [Items -> Row]
  /\ escalations \in [Items -> [active : Sources \cup {"none"}, reverted : SUBSET Sources]]
  /\ wants \in [Groupings -> SUBSET Heirs]

ListsOK ==
  /\ open \in BOOLEAN
  /\ rankings \in [Heirs -> Lists(Items)]
  /\ changes \in Seq(Change) /\ Len(changes) <= MaxChanges

GroupsOK ==
  /\ dupGroup \in [Items -> 0..MaxGroups]
  /\ dupGroups \in [Groups -> {"none", "open", "resolved"}]

\* A read of the classification log finds an entry of the log.
LEMMA ChangeRead ==
  ASSUME ListsOK, NEW k \in DOMAIN changes
  PROVE  changes[k] \in Change
  BY ElementOfSeq, LenProperties DEF ListsOK

\* What a setting or a revert logs is a change.
LEMMA LoggedIsChange ==
  ASSUME NEW i \in Items, NEW flag \in Flags, NEW new \in BOOLEAN,
         NEW places \in [Heirs -> 0..Cardinality(Items)]
  PROVE  Logged(i, flag, new, places) \in Change
  BY DEF Logged, Change

\* The log grows by one change, after marking one of its rows at most; the other
\* rows, and what the marked one says was done, stay.
LEMMA LogGrows ==
  ASSUME ListsOK, NEW row \in Change,
         \/ changes' = Append(changes, row)
         \/ \E k \in DOMAIN changes : changes' = Append([changes EXCEPT ![k].reverted = TRUE], row)
  PROVE  /\ changes' \in Seq(Change) /\ Len(changes') = Len(changes) + 1
         /\ changes'[Len(changes) + 1] = row
         /\ \A k \in 1..Len(changes) : changes'[k].item = changes[k].item
                                      /\ changes'[k].places = changes[k].places
<1>1. changes \in Seq(Change) /\ Len(changes) \in Nat /\ DOMAIN changes = 1..Len(changes)
  BY LenProperties DEF ListsOK
<1>2. CASE changes' = Append(changes, row)
  <2>1. /\ Append(changes, row) \in Seq(Change) /\ Len(Append(changes, row)) = Len(changes) + 1
        /\ \A k \in 1..Len(changes) : Append(changes, row)[k] = changes[k]
        /\ Append(changes, row)[Len(changes) + 1] = row
    BY <1>1, AppendProperties
  <2>2. QED BY <1>2, <2>1
<1>3. ASSUME NEW k \in DOMAIN changes, changes' = Append([changes EXCEPT ![k].reverted = TRUE], row)
      PROVE  /\ changes' \in Seq(Change) /\ Len(changes') = Len(changes) + 1
             /\ changes'[Len(changes) + 1] = row
             /\ \A j \in 1..Len(changes) : changes'[j].item = changes[j].item
                                          /\ changes'[j].places = changes[j].places
  <2> DEFINE mark   == [changes[k] EXCEPT !.reverted = TRUE]
             marked == [changes EXCEPT ![k] = mark]
  <2>1. k \in 1..Len(changes) /\ changes[k] \in Change
    BY <1>1, ElementOfSeq
  <2>2. mark \in Change /\ mark.item = changes[k].item /\ mark.places = changes[k].places
    BY <2>1 DEF Change
  <2> HIDE DEF mark
  <2>3. /\ marked \in Seq(Change) /\ Len(marked) = Len(changes)
        /\ \A j \in 1..Len(changes) : marked[j] = IF j = k THEN mark ELSE changes[j]
    BY <1>1, <2>1, <2>2, ExceptSeq
  <2>4. changes' = Append(marked, row)
    BY <1>3 DEF mark
  <2> HIDE DEF marked
  <2>5. /\ Append(marked, row) \in Seq(Change) /\ Len(Append(marked, row)) = Len(marked) + 1
        /\ \A j \in 1..Len(marked) : Append(marked, row)[j] = marked[j]
        /\ Append(marked, row)[Len(marked) + 1] = row
    BY <2>3, AppendProperties
  <2>6. QED BY <2>2, <2>3, <2>4, <2>5
<1>4. QED BY <1>2, <1>3

-----------------------------------------------------------------------------
(* Items and escalations *)

\* A step on the items: types stay, and no row is left waiting without its
\* escalation.
Sound == RowsOK /\ ListsOK /\ NoOrphanAppraisal

\* Flags set and reverted, and the phase, keep the catalogue sound.
LEMMA FlagSteps ==
  ASSUME Sound, FlagNext
  PROVE  Sound'
<1> USE DEF Sound
<1>1. CASE MovePhase
  <2>1. PICK b \in BOOLEAN : open' = b
    BY <1>1, Zenon DEF MovePhase
  <2>2. QED BY <1>1, <2>1 DEF MovePhase, RowsOK, ListsOK, NoOrphanAppraisal, Escalated
<1>2. ASSUME NEW i \in Items, NEW flag \in Flags, NEW new \in BOOLEAN, SetItemFlag(i, flag, new)
      PROVE  Sound'
  <2>1. \A r \in Row : WithFlag(r, flag, new) \in Row /\ WithFlag(r, flag, new).status = r.status
    BY DEF Row, WithFlag
  <2>2. items' = [items EXCEPT ![i] = WithFlag(items[i], flag, new)] /\ UNCHANGED <<escalations, wants>>
    BY <1>2 DEF SetItemFlag
  <2>3. RowsOK' /\ \A j \in Items : items'[j].status = items[j].status
    BY <2>1, <2>2 DEF RowsOK
  <2>4. ListsOK'
    <3>1. rankings' \in [Heirs -> Lists(Items)]
      BY <1>2, StripIsList DEF SetItemFlag, ListsOK
    <3>2. PICK places \in [Heirs -> 0..Cardinality(Items)] :
            changes' = Append(changes, Logged(i, flag, new, places))
      <4>1. /\ [h \in Heirs |-> Place(rankings[h], i)] \in [Heirs -> 0..Cardinality(Items)]
            /\ NoPlaces \in [Heirs -> 0..Cardinality(Items)]
        BY PlaceOnList, CatalogueAssumption, FS_CardinalityType DEF ListsOK, NoPlaces
      <4>2. QED BY <1>2, <4>1 DEF SetItemFlag
    <3>3. changes' \in Seq(Change) /\ Len(changes') = Len(changes) + 1
      BY <3>2, LoggedIsChange, LogGrows
    <3>4. open' = open /\ Len(changes) < MaxChanges /\ Len(changes) \in Nat
      BY <1>2, LenProperties DEF SetItemFlag, ListsOK
    <3>5. QED BY <3>1, <3>3, <3>4, CatalogueAssumption DEF ListsOK
  <2>5. QED BY <2>2, <2>3, <2>4 DEF NoOrphanAppraisal, Escalated
<1>3. ASSUME NEW k \in 1..MaxChanges, RevertClassificationChange(k)
      PROVE  Sound'
  <2>1. k \in DOMAIN changes
    BY <1>3 DEF RevertClassificationChange
  <2> DEFINE c == changes[k]
  <2>2. c.item \in Items /\ c.flag \in Flags /\ c.new \in BOOLEAN /\ \A h \in Heirs : c.places[h] \in Nat
    BY <2>1, ChangeRead, CatalogueAssumption, FS_CardinalityType DEF Change
  <2>3. /\ items' = [items EXCEPT ![c.item][c.flag] = ~c.new]
        /\ rankings' = [h \in Heirs |-> Restore(rankings[h], c.item, c.places[h])]
        /\ changes' = Append([changes EXCEPT ![k].reverted = TRUE], Logged(c.item, c.flag, ~c.new, NoPlaces))
        /\ UNCHANGED <<open, escalations, wants>>
        /\ Len(changes) < MaxChanges
    BY <1>3, Zenon DEF RevertClassificationChange
  <2> HIDE DEF c
  <2>4. PICK b \in BOOLEAN : b = ~c.new
    BY Zenon
  <2>5. items' = [items EXCEPT ![c.item][c.flag] = b]
    BY <2>3, <2>4, Zenon
  <2>6. RowsOK' /\ \A j \in Items : items'[j].status = items[j].status
    <3>1. [items[c.item] EXCEPT ![c.flag] = b] \in Row
          /\ [items[c.item] EXCEPT ![c.flag] = b].status = items[c.item].status
      BY <2>2 DEF RowsOK, Row, Flags
    <3>2. QED BY <2>2, <2>3, <2>5, <3>1 DEF RowsOK
  <2>7. ListsOK'
    <3>1. rankings' \in [Heirs -> Lists(Items)]
      BY <2>2, <2>3, RestoreIsList DEF ListsOK
    <3>2. Logged(c.item, c.flag, b, NoPlaces) \in Change
      BY <2>2, LoggedIsChange, CatalogueAssumption, FS_CardinalityType DEF NoPlaces
    <3>3. changes' = Append([changes EXCEPT ![k].reverted = TRUE], Logged(c.item, c.flag, b, NoPlaces))
      BY <2>3, <2>4, Zenon
    <3>4. changes' \in Seq(Change) /\ Len(changes') = Len(changes) + 1
      BY <2>1, <3>2, <3>3, LogGrows
    <3>5. Len(changes) \in Nat
      BY LenProperties DEF ListsOK
    <3>6. QED BY <2>3, <3>1, <3>4, <3>5, CatalogueAssumption DEF ListsOK
  <2>8. QED BY <2>3, <2>6, <2>7 DEF NoOrphanAppraisal, Escalated
<1>4. QED BY <1>1, <1>2, <1>3 DEF FlagNext

\* An escalation writes the flag and the row it stands for together.
LEMMA FlagForAppraisalSound ==
  ASSUME Sound, NEW i \in Items, NEW source \in Sources, FlagForAppraisal(i, source)
  PROVE  Sound'
<1>0. \A j \in Items : items[j] \in Row /\ escalations[j].reverted \in SUBSET Sources
  BY DEF Sound, RowsOK
<1>1. RowsOK'
  <2>1. [items[i] EXCEPT !.status = "needs_appraisal", !.needsAppraisal = TRUE] \in Row
    BY <1>0 DEF Row, Statuses
  <2>2. items' \in [Items -> Row]
    BY <1>0, <2>1 DEF Sound, RowsOK, FlagForAppraisal
  <2>3. escalations' \in [Items -> [active : Sources \cup {"none"}, reverted : SUBSET Sources]]
    BY DEF Sound, RowsOK, FlagForAppraisal
  <2>4. QED BY <2>2, <2>3 DEF Sound, RowsOK, FlagForAppraisal
<1>2. ListsOK'
  BY DEF Sound, FlagForAppraisal, ListsOK
<1>3. Escalated(i)' /\ \A j \in Items \ {i} : items'[j] = items[j] /\ Escalated(j)' = Escalated(j)
  BY DEF Sound, RowsOK, FlagForAppraisal, Escalated, Sources
<1>4. QED BY <1>1, <1>2, <1>3 DEF Sound, NoOrphanAppraisal

\* A withdrawal drops the flag only with the last escalation.
LEMMA UnflagSound ==
  ASSUME Sound, NEW i \in Items, UnflagAppraisal(i)
  PROVE  Sound'
<1>0. /\ \A j \in Items : items[j] \in Row
      /\ escalations[i].reverted \in SUBSET Sources /\ escalations[i].active \in Sources
  BY DEF Sound, RowsOK, UnflagAppraisal
<1>1. RowsOK'
  <2>1. [items[i] EXCEPT !.status = "available", !.needsAppraisal = FALSE] \in Row
    BY <1>0 DEF Row, Statuses
  <2>2. items' \in [Items -> Row]
    BY <1>0, <2>1 DEF Sound, RowsOK, UnflagAppraisal
  <2>3. escalations' \in [Items -> [active : Sources \cup {"none"}, reverted : SUBSET Sources]]
    BY <1>0 DEF Sound, RowsOK, UnflagAppraisal
  <2>4. QED BY <2>2, <2>3 DEF Sound, RowsOK, UnflagAppraisal
<1>2. ListsOK'
  BY DEF Sound, UnflagAppraisal, ListsOK
<1>3. items'[i].status # "needs_appraisal"
      /\ \A j \in Items \ {i} : items'[j] = items[j] /\ Escalated(j)' = Escalated(j)
  BY DEF Sound, RowsOK, UnflagAppraisal, Escalated, Row
<1>4. QED BY <1>1, <1>2, <1>3 DEF Sound, NoOrphanAppraisal

\* A step that moves items elsewhere, and touches no escalation, list or log.
Elsewhere ==
  /\ items' \in [Items -> Row]
  /\ \A j \in Items : items'[j].status = items[j].status \/ items'[j].status # "needs_appraisal"
  /\ UNCHANGED <<open, rankings, changes, escalations>>
  /\ wants' \in [Groupings -> SUBSET Heirs]

\* Steps that write neither flags nor escalations keep the catalogue sound.
LEMMA ElsewhereSound ==
  ASSUME Sound, Elsewhere
  PROVE  Sound'
<1>1. RowsOK'
  BY DEF Sound, RowsOK, Elsewhere
<1>2. ListsOK'
  BY DEF Sound, Elsewhere, ListsOK
<1>3. NoOrphanAppraisal'
  BY DEF Sound, Elsewhere, NoOrphanAppraisal, Escalated
<1>4. QED BY <1>1, <1>2, <1>3 DEF Sound

\* An heir's new list is a list.
LEMMA ListEditSound ==
  ASSUME Sound, ListNext
  PROVE  Sound'
<1>1. PICK h \in Heirs, list \in Lists(Items) : ReplaceRankings(h, list)
  BY DEF ListNext
<1>2. ListsOK'
  BY <1>1 DEF Sound, ListsOK, ReplaceRankings
<1>3. QED BY <1>1, <1>2 DEF Sound, RowsOK, ReplaceRankings, NoOrphanAppraisal, Escalated

\* The grouping steps leave lists, log and escalations alone.
LEMMA GroupingSteps ==
  ASSUME Sound, GroupingNext
  PROVE  Elsewhere
<1> USE DEF Sound, RowsOK, Elsewhere
<1>0. \A i \in Items : items[i] \in Row
  OBVIOUS
<1>2. ASSUME NEW i \in Items, NEW confirmed \in BOOLEAN, ConfirmHeirloom(i, confirmed)
      PROVE  Elsewhere
  <2> DEFINE kept   == [items[i] EXCEPT !.confirmed = TRUE, !.grouping = Heirloom, !.status = "in_grouping"]
             denied == [items[i] EXCEPT !.confirmed = FALSE, !.isHeirloom = FALSE,
                                        !.grouping = NoGrouping, !.status = "available"]
  <2>1. /\ kept \in Row /\ kept.status = "in_grouping"
        /\ denied \in Row /\ denied.status = "available"
    BY <1>0, CatalogueAssumption DEF Row, Statuses
  <2>2. /\ items' = [items EXCEPT ![i] = IF confirmed THEN kept ELSE denied]
        /\ UNCHANGED <<open, rankings, changes, escalations, wants>>
    BY <1>2 DEF ConfirmHeirloom
  <2> HIDE DEF kept, denied
  <2>3. PICK r \in {kept, denied} : items' = [items EXCEPT ![i] = r]
    BY <2>2
  <2>4. QED BY <1>0, <2>1, <2>2, <2>3
<1>3. ASSUME NEW i \in Items, NEW g \in Groupings, AddToGrouping(i, g)
      PROVE  Elsewhere
  BY <1>0, <1>3 DEF AddToGrouping, Row, Statuses
<1>4. ASSUME NEW g \in Groupings, NEW h \in Heirs, NEW choice, SetOptIn(g, h, choice)
      PROVE  Elsewhere
  BY <1>4 DEF SetOptIn
<1>5. ASSUME NEW g \in Groupings, NEW w \in Heirs \cup {Nobody}, ResolveGrouping(g, w)
      PROVE  Elsewhere
  <2>1. \A r \in Row :
          /\ [r EXCEPT !.grouping = NoGrouping, !.status = "available"] \in Row
          /\ [r EXCEPT !.grouping = NoGrouping, !.status = "available"].status = "available"
          /\ [r EXCEPT !.status = "awarded", !.awardedTo = w] \in Row
          /\ [r EXCEPT !.status = "awarded", !.awardedTo = w].status = "awarded"
    BY DEF Row, Statuses
  <2>2. QED BY <1>0, <1>5, <2>1 DEF ResolveGrouping
<1>6. QED BY <1>2, <1>3, <1>4, <1>5 DEF GroupingNext

\* Every step of the catalogue keeps it sound.
LEMMA CatalogueSound ==
  ASSUME Sound, CatalogueNext
  PROVE  Sound'
<1>1. CASE EscalationNext
  BY <1>1, FlagForAppraisalSound, UnflagSound DEF EscalationNext, Sources
<1>2. QED BY <1>1, ListEditSound, FlagSteps, GroupingSteps, ElsewhereSound DEF CatalogueNext

\* A step that leaves the catalogue alone keeps it sound.
LEMMA UnchangedSound ==
  ASSUME Sound, UNCHANGED catalogueVars
  PROVE  Sound'
  BY DEF Sound, catalogueVars, RowsOK, ListsOK, NoOrphanAppraisal, Escalated

\* So do the edits, the analysis and the duplicates, which share its items.
LEMMA FamilySound ==
  ASSUME Sound, [FamilyNext]_familyVars
  PROVE  Sound'
<1>1. CASE CatalogueNext
  BY <1>1, CatalogueSound
<1>2. CASE CategoryNext
  BY <1>2, UnchangedSound DEF CategoryNext, Categorizing, PatchCategory, ChooseCategory,
     ClearNeedsDiscussion, WindowPasses
<1>3. ASSUME NEW i \in Items, NEW a, NEW p, AnalyzeEnd(i, a, p) PROVE Sound'
  <2>1. CASE AutoFlag(i, a) = "none"
    BY <1>3, <2>1, UnchangedSound DEF AnalyzeEnd
  <2>2. CASE AutoFlag(i, a) # "none"
    <3>1. AutoFlag(i, a) \in Sources
      BY <2>2 DEF AutoFlag, Sources
    <3>2. QED BY <1>3, <2>2, <3>1, FlagForAppraisalSound DEF AnalyzeEnd
  <2>3. QED BY <2>1, <2>2
<1>4. CASE AnalysisNext
  BY <1>3, <1>4, UnchangedSound DEF AnalysisNext, Analyzing, AnalyzeBegin, AnalyzeLost
<1>5. CASE ScanDuplicates
  BY <1>5, UnchangedSound DEF ScanDuplicates
<1>6. ASSUME NEW i \in Items, NEW g \in Groups, ResolveDuplicate(g, i) PROVE Sound'
  <2>1. \A r \in Row : /\ [r EXCEPT !.status = "duplicate_dismissed"] \in Row
                       /\ [r EXCEPT !.status = "duplicate_dismissed"].status = "duplicate_dismissed"
    BY DEF Row, Statuses
  <2>2. Elsewhere
    BY <1>6, <2>1 DEF ResolveDuplicate, Elsewhere, Sound, RowsOK
  <2>3. QED BY <2>2, ElsewhereSound
<1>7. QED BY <1>1, <1>2, <1>4, <1>5, <1>6, UnchangedSound DEF FamilyNext, DuplicateNext, familyVars

\* At first it is sound.
LEMMA CatalogueInitSound ==
  ASSUME CatalogueInit
  PROVE  Sound
<1>1. RowsOK
  BY DEF CatalogueInit, RowsOK, Fresh, Row, Statuses
<1>2. ListsOK
  <2>1. changes \in Seq(Change) /\ Len(changes) = 0
    BY EmptySeq DEF CatalogueInit
  <2>2. <<>> \in Lists(Items)
    <3>1. <<>> \in Seq(Items) /\ Len(<<>>) = 0
      BY EmptySeq
    <3>2. \A j, k \in 1..Len(<<>>) : <<>>[j] = <<>>[k] => j = k
      BY <3>1
    <3>3. QED BY <3>1, <3>2, SeqIsList
  <2>3. QED BY <2>1, <2>2, CatalogueAssumption DEF CatalogueInit, ListsOK
<1>3. NoOrphanAppraisal
  BY DEF CatalogueInit, NoOrphanAppraisal, Fresh
<1>4. QED BY <1>1, <1>2, <1>3 DEF Sound

\* In every reachable state rows, lists and log are typed and no item asks for an
\* appraisal without a row that says who asked: the invariant the other theorems rest on.
THEOREM CatalogueIsSound == FamilySpec => []Sound
<1>1. EvaluationInit => Sound
  BY CatalogueInitSound DEF EvaluationInit
<1>2. Sound /\ [FamilyNext]_familyVars => Sound'
  BY FamilySound
<1>3. QED BY <1>1, <1>2, PTL DEF FamilySpec

\* No item waits for the trustee without a row on his list.
THEOREM NoneIsForgotten == FamilySpec => []NoOrphanAppraisal
  BY CatalogueIsSound, PTL DEF Sound

-----------------------------------------------------------------------------
(* Groups of duplicates *)

\* An item is put into a group that is open, or that is opened with it.
LEMMA ScanKeepsGroups ==
  ASSUME GroupsOK, GroupsCanBeResolved, NEW i \in Items, ScanDuplicatesForItem(i)
  PROVE  GroupsOK' /\ GroupsCanBeResolved'
<1>1. CASE Matches(i) = {}
  BY <1>1 DEF ScanDuplicatesForItem, GroupsOK, GroupsCanBeResolved
<1>2. CASE Matches(i) # {}
  <2>1. PICK g \in GroupsFor(i) :
          /\ dupGroup' = [j \in Items |-> IF j = i \/ j \in Matches(i) THEN g ELSE dupGroup[j]]
          /\ dupGroups' = [dupGroups EXCEPT ![g] = IF @ = "none" THEN "open" ELSE @]
    BY <1>2 DEF ScanDuplicatesForItem
  <2>2. Matches(i) \subseteq Items
    BY DEF Matches
  <2>3. g \in Groups /\ dupGroups[g] \in {"none", "open"}
    <3>1. CASE g \in NewGroups
      BY <3>1 DEF NewGroups
    <3>2. CASE \E j \in Items : dupGroup[j] # 0 /\ g = dupGroup[j]
      BY <3>2, EvaluationAssumption DEF GroupsOK, GroupsCanBeResolved, Groups
    <3>3. QED BY <2>1, <2>2, <3>1, <3>2 DEF GroupsFor
  <2>4. dupGroups'[g] = "open" /\ \A h \in Groups \ {g} : dupGroups'[h] = dupGroups[h]
    BY <2>1, <2>3 DEF GroupsOK
  <2>5. GroupsOK'
    BY <2>1, <2>3, EvaluationAssumption DEF GroupsOK, Groups
  <2>6. \A j \in Items : dupGroup'[j] # 0 => dupGroup'[j] = g \/ dupGroup'[j] = dupGroup[j]
    BY <2>1
  <2>7. \A j \in Items : dupGroup[j] # 0 => dupGroup[j] \in Groups /\ dupGroups[dupGroup[j]] = "open"
    BY EvaluationAssumption DEF GroupsOK, GroupsCanBeResolved, Groups
  <2>8. QED BY <2>4, <2>5, <2>6, <2>7 DEF GroupsCanBeResolved
<1>3. QED BY <1>1, <1>2

\* A sweep gives every group it forms a new open row.
LEMMA SweepKeepsGroups ==
  ASSUME GroupsOK, GroupsCanBeResolved, ScanDuplicates
  PROVE  GroupsOK' /\ GroupsCanBeResolved'
<1>1. PICK f \in [Ungrouped -> NewGroups] :
        /\ dupGroup' = [j \in Items |-> IF Together(j) \in Ungrouped THEN f[Together(j)]
                                        ELSE dupGroup[j]]
        /\ dupGroups' = [g \in Groups |-> IF \E C \in Ungrouped : f[C] = g THEN "open"
                                          ELSE dupGroups[g]]
  BY DEF ScanDuplicates
<1>2. NewGroups \subseteq Groups /\ Groups \subseteq 0..MaxGroups
  BY EvaluationAssumption DEF NewGroups, Groups
<1>3. GroupsOK'
  BY <1>1, <1>2 DEF GroupsOK
<1>4. \A j \in Items : dupGroup[j] # 0 => dupGroup[j] \in Groups /\ dupGroups[dupGroup[j]] = "open"
  BY EvaluationAssumption DEF GroupsOK, GroupsCanBeResolved, Groups
<1>5. \A j \in Items : Together(j) \in Ungrouped => dupGroup'[j] \in Groups /\ dupGroups'[dupGroup'[j]] = "open"
  BY <1>1, <1>2
<1>6. \A j \in Items : Together(j) \notin Ungrouped /\ dupGroup'[j] # 0 => dupGroups'[dupGroup'[j]] = "open"
  BY <1>1, <1>4
<1>7. QED BY <1>3, <1>5, <1>6 DEF GroupsCanBeResolved

\* A resolution leaves every other open group resolvable.
LEMMA ResolveKeepsGroups ==
  ASSUME GroupsOK, GroupsCanBeResolved, NEW i \in Items, NEW g \in Groups, ResolveDuplicate(g, i)
  PROVE  GroupsOK' /\ GroupsCanBeResolved'
<1>1. /\ dupGroup' = [j \in Items |-> IF dupGroup[j] = g THEN 0 ELSE dupGroup[j]]
      /\ dupGroups' = [dupGroups EXCEPT ![g] = "resolved"]
  BY DEF ResolveDuplicate
<1>2. GroupsOK'
  BY <1>1, EvaluationAssumption DEF GroupsOK
<1>3. \A j \in Items : dupGroup[j] # 0 => dupGroup[j] \in Groups /\ dupGroups[dupGroup[j]] = "open"
  BY EvaluationAssumption DEF GroupsOK, GroupsCanBeResolved, Groups
<1>4. QED BY <1>1, <1>2, <1>3 DEF GroupsCanBeResolved, GroupsOK

\* Every step leaves every open duplicate group resolvable.
LEMMA GroupsStay ==
  ASSUME GroupsOK, GroupsCanBeResolved, [FamilyNext]_familyVars
  PROVE  GroupsOK' /\ GroupsCanBeResolved'
<1>1. CASE UNCHANGED <<dupGroup, dupGroups>>
  BY <1>1 DEF GroupsOK, GroupsCanBeResolved
<1>2. CASE CategoryNext
  BY <1>1, <1>2 DEF CategoryNext, Categorizing, PatchCategory, ChooseCategory, ClearNeedsDiscussion,
     WindowPasses
<1>3. CASE AnalysisNext
  BY <1>1, <1>3, ScanKeepsGroups DEF AnalysisNext, Analyzing, AnalyzeBegin, AnalyzeEnd, AnalyzeLost
<1>4. QED BY <1>1, <1>2, <1>3, SweepKeepsGroups, ResolveKeepsGroups
          DEF FamilyNext, DuplicateNext, familyVars, evaluationVars

\* An item that reads as a possible duplicate is in a group that can still be
\* resolved, whatever was scanned, swept and resolved before.
THEOREM GroupsStayOpen == FamilySpec => []GroupsCanBeResolved
<1>1. EvaluationInit => GroupsOK /\ GroupsCanBeResolved
  BY EvaluationAssumption DEF EvaluationInit, GroupsOK, GroupsCanBeResolved
<1>2. QED BY <1>1, GroupsStay, PTL DEF FamilySpec

-----------------------------------------------------------------------------
(* Categories *)

CategoriesOK ==
  categories \in [Items -> [label : Categories, source : {"none", "auto", "person"}, discuss : BOOLEAN]]

\* Only an assignment by the model writes the source "auto".
LEMMA CategorySteps ==
  ASSUME CategoriesOK, [FamilyNext]_familyVars
  PROVE  /\ CategoriesOK'
         /\ \A i \in Items :
              HumanChose(i) /\ categories'[i].label # categories[i].label
                => categories'[i].source # "auto"
<1> DEFINE Goal ==
      /\ CategoriesOK'
      /\ \A i \in Items :
           HumanChose(i) /\ categories'[i].label # categories[i].label => categories'[i].source # "auto"
<1>0. \A i \in Items : categories[i] \in [label : Categories, source : {"none", "auto", "person"},
                                          discuss : BOOLEAN]
  BY DEF CategoriesOK
<1>1. CASE UNCHANGED categories
  BY <1>1 DEF CategoriesOK
<1>2. ASSUME NEW i \in Items, NEW label \in Categories, NEW actor, NEW source \in {"auto", "person"},
             SetItemCategory(i, label, actor, source),
             source = "auto" => ~HumanChose(i)
      PROVE  Goal
  <2>1. CASE label = categories[i].label
    BY <1>1, <1>2, <2>1 DEF SetItemCategory
  <2>2. CASE label # categories[i].label
    <3>1. PICK b \in BOOLEAN : b = (categories[i].discuss \/ recent[i] \ {actor} # {})
      BY Zenon
    <3>2. categories' = [categories EXCEPT ![i] = [label |-> label, source |-> source, discuss |-> b]]
      BY <1>2, <2>2, <3>1, Zenon DEF SetItemCategory
    <3>3. CategoriesOK'
      BY <1>2, <3>2 DEF CategoriesOK
    <3>4. categories'[i].source = source /\ \A j \in Items \ {i} : categories'[j] = categories[j]
      BY <3>2 DEF CategoriesOK
    <3>5. QED BY <1>2, <3>3, <3>4
  <2>3. QED BY <2>1, <2>2
<1>3. ASSUME NEW i \in Items, Categorizing(i) PROVE Goal
  <2>1. ASSUME NEW label \in Categories, NEW p \in People, ChooseCategory(i, label, p) PROVE Goal
    BY <1>2, <2>1 DEF ChooseCategory
  <2>2. ASSUME NEW label \in Categories, PatchCategory(i, label) PROVE Goal
    <3>1. categories' = [categories EXCEPT ![i].label = label]
      BY <2>2 DEF PatchCategory
    <3>2. CategoriesOK' /\ \A j \in Items : categories'[j].source = categories[j].source
      BY <1>0, <2>2, <3>1 DEF CategoriesOK
    <3>3. QED BY <3>2 DEF HumanChose
  <2>3. CASE ClearNeedsDiscussion(i)
    <3>1. categories' = [categories EXCEPT ![i].discuss = FALSE]
      BY <2>3 DEF ClearNeedsDiscussion
    <3>2. CategoriesOK' /\ \A j \in Items : categories'[j].source = categories[j].source
      BY <1>0, <3>1 DEF CategoriesOK
    <3>3. QED BY <3>2 DEF HumanChose
  <2>4. ASSUME NEW p \in People, WindowPasses(i, p) PROVE Goal
    BY <1>1, <2>4 DEF WindowPasses
  <2> HIDE DEF Goal
  <2>5. QED BY <1>3, <2>1, <2>2, <2>3, <2>4 DEF Categorizing
<1>4. ASSUME NEW i \in Items, NEW a \in Answer, NEW p \in People, AnalyzeEnd(i, a, p) PROVE Goal
  <2>1. CASE Assigns(i, a)
    <3>1. SetItemCategory(i, a.label, p, "auto") /\ a.label \in Categories /\ ~HumanChose(i)
      BY <1>4, <2>1 DEF AnalyzeEnd, Assigns, Answer
    <3>2. QED BY <1>2, <3>1
  <2>2. CASE ~Assigns(i, a)
    BY <1>1, <1>4, <2>2 DEF AnalyzeEnd
  <2>3. QED BY <2>1, <2>2
<1>5. ASSUME NEW i \in Items, Analyzing(i, Answer) PROVE Goal
  BY <1>1, <1>4, <1>5 DEF Analyzing, AnalyzeBegin
<1>6. CASE AnalyzeLost \/ DuplicateNext
  BY <1>1, <1>6 DEF AnalyzeLost, DuplicateNext, ScanDuplicates, ResolveDuplicate
<1>7. QED BY <1>1, <1>3, <1>5, <1>6
          DEF FamilyNext, CategoryNext, AnalysisNext, familyVars, evaluationVars

\* The model changes no category that the row does not record as its own.
THEOREM ModelAlwaysYields == FamilySpec => ModelYields
<1>1. EvaluationInit => CategoriesOK
  BY DEF EvaluationInit, CategoriesOK, Categories
<1>2. ASSUME CategoriesOK, [FamilyNext]_familyVars
      PROVE  /\ CategoriesOK'
             /\ [\A i \in Items :
                   HumanChose(i) /\ categories'[i].label # categories[i].label
                => categories'[i].source # "auto"]_familyVars
  BY <1>2, CategorySteps
<1>3. QED BY <1>1, <1>2, PTL DEF FamilySpec, ModelYields

-----------------------------------------------------------------------------
(* All of it typed *)

CallsOK == recent \in [Items -> SUBSET People] /\ calls \in [Items -> 0..MaxCalls]

\* The types and the invariants of the items hold together.
FamilyInv == Sound /\ GroupsOK /\ GroupsCanBeResolved /\ CategoriesOK /\ CallsOK

\* The invariant gives the types.
LEMMA FamilyInvTypes ==
  ASSUME FamilyInv
  PROVE  EvaluationTypeOK
  BY DEF FamilyInv, Sound, RowsOK, Row, ListsOK, GroupsOK, CategoriesOK, CallsOK, EvaluationTypeOK,
         CatalogueTypeOK

\* Whoever edits a category is a person of the family, and a call that ends began.
LEMMA CallSteps ==
  ASSUME CallsOK, [FamilyNext]_familyVars
  PROVE  CallsOK'
<1> USE DEF CallsOK
<1>1. CASE UNCHANGED <<recent, calls>>
  BY <1>1
<1>2. ASSUME NEW i \in Items, NEW label, NEW p \in People, NEW source, SetItemCategory(i, label, p, source)
      PROVE  recent' \in [Items -> SUBSET People]
  BY <1>2 DEF SetItemCategory
<1>3. ASSUME NEW i \in Items, Categorizing(i) PROVE CallsOK'
  BY <1>2, <1>3 DEF Categorizing, PatchCategory, ChooseCategory, ClearNeedsDiscussion, WindowPasses
<1>4. ASSUME NEW i \in Items, NEW a, NEW p \in People, AnalyzeEnd(i, a, p) PROVE CallsOK'
  <2>1. calls' \in [Items -> 0..MaxCalls]
    BY <1>4, EvaluationAssumption DEF AnalyzeEnd
  <2>2. recent' \in [Items -> SUBSET People]
    BY <1>2, <1>4 DEF AnalyzeEnd
  <2>3. QED BY <2>1, <2>2
<1>5. ASSUME NEW i \in Items, AnalyzeBegin(i) PROVE CallsOK'
  BY <1>5, EvaluationAssumption DEF AnalyzeBegin
<1>6. CASE AnalyzeLost
  BY <1>6, EvaluationAssumption DEF AnalyzeLost
<1>7. CASE DuplicateNext
  BY <1>1, <1>7 DEF DuplicateNext, ScanDuplicates, ResolveDuplicate
<1>8. QED BY <1>1, <1>3, <1>4, <1>5, <1>6, <1>7
          DEF FamilyNext, CategoryNext, AnalysisNext, Analyzing, familyVars, evaluationVars

\* At first nothing is categorized, asked or grouped.
LEMMA FamilyInvInit ==
  ASSUME EvaluationInit
  PROVE  FamilyInv
<1>1. GroupsOK /\ GroupsCanBeResolved /\ CallsOK
  BY EvaluationAssumption DEF EvaluationInit, GroupsOK, GroupsCanBeResolved, CallsOK
<1>2. CategoriesOK
  BY DEF EvaluationInit, CategoriesOK, Categories
<1>3. QED BY <1>1, <1>2, CatalogueInitSound DEF FamilyInv, EvaluationInit

\* Every request of the family, and every answer of the model, keeps the invariant.
LEMMA FamilyKeeps ==
  ASSUME FamilyInv, [FamilyNext]_familyVars
  PROVE  FamilyInv'
  BY FamilySound, GroupsStay, CategorySteps, CallSteps DEF FamilyInv

\* However items are flagged and reverted, listed, grouped, categorized and
\* analysed, lists stay free of repetition, every place the log remembers is one a
\* list can have, and no item is in a group that is not there.
THEOREM FamilyIsTyped == FamilySpec => []EvaluationTypeOK
<1>1. EvaluationInit => FamilyInv
  BY FamilyInvInit
<1>2. FamilyInv /\ [FamilyNext]_familyVars => FamilyInv'
  BY FamilyKeeps
<1>3. FamilyInv => EvaluationTypeOK
  BY FamilyInvTypes
<1>4. QED BY <1>1, <1>2, <1>3, PTL DEF FamilySpec

-----------------------------------------------------------------------------
(* One item for each item of the Registry                                    *)
(*                                                                           *)
(* A draft staged as new is approved much later, so what keeps it from making *)
(* a second item is that no other draft of its origin is left by then, and   *)
(* that no row of that origin appeared: only an approval makes rows.         *)

SomeRows    == UNION {[S -> StagedRow] : S \in SUBSET Origins}
BatchStates == {"staged", "applied", "discarded"}
Batch       == [state : BatchStates, rows : SomeRows]

ImportTyped ==
  /\ batches \in Seq(Batch)
  /\ table \in [Items -> {"unused", "row", "gone"}]
  /\ origin \in [Items -> Origins \cup {NoOrigin}]

OneDraft == \A b, c \in DOMAIN batches : \A o \in Drafts(b) : o \in Drafts(c) => b = c

NewIsNew ==
  \A b \in DOMAIN batches : \A o \in Drafts(b) :
    batches[b].rows[o].kind = "new" => \A i \in Rows : origin[i] # o

ImportInv == ImportTyped /\ OneDraft /\ NewIsNew /\ OneItemPerOrigin

\* A step leaves of the drafts some, as they were.
FewerDrafts ==
  /\ DOMAIN batches' = DOMAIN batches
  /\ \A c \in DOMAIN batches : \A o \in Drafts(c)' :
       o \in Drafts(c) /\ batches'[c].rows[o].kind = batches[c].rows[o].kind

\* The rows of a batch are typed.
LEMMA RowsOfBatch ==
  ASSUME ImportTyped, NEW b \in DOMAIN batches
  PROVE  /\ batches[b] \in Batch
         /\ DOMAIN batches[b].rows \subseteq Origins
         /\ batches[b].rows \in [DOMAIN batches[b].rows -> StagedRow]
<1>1. batches[b] \in Batch
  BY ElementOfSeq, LenProperties DEF ImportTyped
<1>2. PICK S \in SUBSET Origins : batches[b].rows \in [S -> StagedRow]
  BY <1>1 DEF Batch, SomeRows
<1>3. QED BY <1>1, <1>2

\* Writing the rows and the state of one batch.
LEMMA BatchWritten ==
  ASSUME ImportTyped, NEW b \in DOMAIN batches, NEW batch \in Batch,
         batches' = [batches EXCEPT ![b] = batch],
         DOMAIN batch.rows = DOMAIN batches[b].rows,
         \A o \in DOMAIN batch.rows :
           batch.rows[o].state = "draft" =>
             batches[b].rows[o].state = "draft" /\ batch.rows[o].kind = batches[b].rows[o].kind
  PROVE  batches' \in Seq(Batch) /\ FewerDrafts
<1>1. batches' \in Seq(Batch) /\ DOMAIN batches' = DOMAIN batches
  BY ExceptSeq, LenProperties DEF ImportTyped
<1>2. batches'[b] = batch /\ \A c \in DOMAIN batches \ {b} : batches'[c] = batches[c]
  BY DEF ImportTyped
<1>3. QED BY <1>1, <1>2 DEF FewerDrafts, Drafts

\* Deciding drafts of one batch.
LEMMA DraftsDecided ==
  ASSUME ImportTyped, NEW b \in DOMAIN batches, NEW S \in SUBSET Drafts(b),
         NEW state \in {"approved", "rejected"},
         \/ batches' = SetState(b, S, state)
         \/ \E w \in BatchStates : batches' = [SetState(b, S, state) EXCEPT ![b].state = w]
  PROVE  /\ batches' \in Seq(Batch) /\ FewerDrafts
         /\ \A o \in S : o \notin Drafts(b)'
<1> DEFINE rows == [o \in DOMAIN batches[b].rows |->
                      IF o \in S THEN [batches[b].rows[o] EXCEPT !.state = state]
                      ELSE batches[b].rows[o]]
<1>1. batches[b] \in Batch /\ batches[b].rows \in [DOMAIN batches[b].rows -> StagedRow]
  BY RowsOfBatch
<1>2. SetState(b, S, state) = [batches EXCEPT ![b] = [batches[b] EXCEPT !.rows = rows]]
  BY DEF SetState
<1>3. rows \in [DOMAIN batches[b].rows -> StagedRow]
  BY <1>1 DEF StagedRow
<1>4. /\ \A o \in DOMAIN rows : rows[o].state = "draft" => rows[o] = batches[b].rows[o]
      /\ \A o \in DOMAIN rows : rows[o].state = "draft" => o \notin S
  BY <1>1 DEF StagedRow
<1> HIDE DEF rows
<1>5. PICK w \in BatchStates : batches' = [batches EXCEPT ![b] = [state |-> w, rows |-> rows]]
  <2> DEFINE decided == [batches[b] EXCEPT !.rows = rows]
  <2>1. /\ decided = [state |-> batches[b].state, rows |-> rows]
        /\ batches[b].state \in BatchStates
    BY <1>1 DEF Batch
  <2>2. CASE batches' = SetState(b, S, state)
    BY <1>2, <2>1, <2>2
  <2>3. ASSUME NEW w \in BatchStates, batches' = [SetState(b, S, state) EXCEPT ![b].state = w]
        PROVE  batches' = [batches EXCEPT ![b] = [state |-> w, rows |-> rows]]
    <3>1. SetState(b, S, state)[b] = decided
      BY <1>2 DEF ImportTyped
    <3> HIDE DEF decided
    <3>2. [decided EXCEPT !.state = w] = [state |-> w, rows |-> rows]
      BY <2>1
    <3>3. batches' = [SetState(b, S, state) EXCEPT ![b] = [state |-> w, rows |-> rows]]
      BY <2>3, <3>1, <3>2
    <3>4. QED BY <1>2, <3>3
  <2>4. QED BY <2>2, <2>3
<1> DEFINE batch == [state |-> w, rows |-> rows]
<1>6. batch \in Batch /\ batch.rows = rows
  BY <1>3, RowsOfBatch DEF Batch, SomeRows
<1>7. batches' = [batches EXCEPT ![b] = batch]
  BY <1>5
<1> HIDE DEF batch
<1>8. batches' \in Seq(Batch) /\ FewerDrafts
  BY <1>3, <1>4, <1>6, <1>7, BatchWritten
<1>9. batches'[b].rows = rows
  BY <1>6, <1>7 DEF ImportTyped
<1>10. QED BY <1>4, <1>8, <1>9 DEF Drafts

\* The captain's answer leaves the drafts as they are.
LEMMA AnswerKeepsDrafts ==
  ASSUME ImportTyped, NEW b \in DOMAIN batches, NEW o, NEW answer \in {"confirmed", "dismissed"},
         ReviewDetection(b, o, answer)
  PROVE  batches' \in Seq(Batch) /\ FewerDrafts
<1> DEFINE rows == [batches[b].rows EXCEPT ![o].review = answer]
<1>1. batches[b] \in Batch /\ batches[b].rows \in [DOMAIN batches[b].rows -> StagedRow]
  BY RowsOfBatch
<1>2. o \in DOMAIN batches[b].rows
  BY DEF ReviewDetection, Drafts
<1>3. rows \in [DOMAIN batches[b].rows -> StagedRow]
  BY <1>1, <1>2 DEF StagedRow
<1>4. \A p \in DOMAIN rows : rows[p].kind = batches[b].rows[p].kind
                             /\ rows[p].state = batches[b].rows[p].state
  BY <1>1, <1>2 DEF StagedRow
<1> HIDE DEF rows
<1>5. batches' = [batches EXCEPT ![b] = [state |-> batches[b].state, rows |-> rows]]
  <2>1. batches' = [batches EXCEPT ![b] = [batches[b] EXCEPT !.rows = rows]]
    BY DEF ReviewDetection, rows
  <2>2. [batches[b] EXCEPT !.rows = rows] = [state |-> batches[b].state, rows |-> rows]
    BY <1>1 DEF Batch
  <2>3. QED BY <2>1, <2>2
<1> DEFINE batch == [state |-> batches[b].state, rows |-> rows]
<1>6. batch \in Batch /\ batch.rows = rows
  BY <1>1, <1>3, RowsOfBatch DEF Batch, SomeRows
<1>7. batches' = [batches EXCEPT ![b] = batch]
  BY <1>5
<1> HIDE DEF batch
<1>8. QED BY <1>3, <1>4, <1>6, <1>7, BatchWritten

\* Approving drafts leaves one row for each origin; what other rows there are
\* were there before.
LEMMA ApprovalMakesOne ==
  ASSUME ImportTyped, NewIsNew, OneItemPerOrigin,
         NEW b \in DOMAIN batches, NEW S \in SUBSET Drafts(b), Apply(b, S)
  PROVE  /\ table' \in [Items -> {"unused", "row", "gone"}]
         /\ origin' \in [Items -> Origins \cup {NoOrigin}]
         /\ OneItemPerOrigin'
         /\ \A i \in Rows' : origin'[i] \in S \/ (i \in Rows /\ origin'[i] = origin[i])
<1>1. S \subseteq Origins /\ \A o \in S : batches[b].rows[o] \in StagedRow
  BY RowsOfBatch DEF Drafts
<1>2. PICK f \in Targets(b, S) :
        /\ table' = [i \in Items |-> IF i \in {f[o] : o \in S} THEN "row" ELSE table[i]]
        /\ origin' = [i \in Items |-> IF i \in {f[o] : o \in S}
                                     THEN CHOOSE o \in S : f[o] = i ELSE origin[i]]
  BY DEF Apply
<1> DEFINE hit == {f[o] : o \in S}
<1>3. /\ f \in [S -> Items]
      /\ \A o \in S : IF Updates(batches[b].rows[o], o) THEN f[o] \in Rows /\ origin[f[o]] = o
                      ELSE table[f[o]] = "unused"
      /\ \A o, p \in S : f[o] = f[p] => o = p
  BY DEF Targets
<1>4. \A i \in hit : i \in Items /\ origin'[i] \in S /\ f[origin'[i]] = i
  BY <1>2, <1>3
<1>5. \A i \in Items \ hit : table'[i] = table[i] /\ origin'[i] = origin[i]
  BY <1>2
<1>6. \A o \in S : \A j \in Rows : origin[j] = o => f[o] = j
  <2> SUFFICES ASSUME NEW o \in S, NEW j \in Rows, origin[j] = o PROVE f[o] = j
    OBVIOUS
  <2>1. batches[b].rows[o].kind = "updates_existing"
    BY <1>1 DEF NewIsNew, StagedRow
  <2>2. f[o] \in Rows /\ origin[f[o]] = o
    BY <1>3, <2>1 DEF Updates, Rows
  <2>3. o # NoOrigin
    BY <1>1, ImportAssumption
  <2>4. QED BY <2>2, <2>3 DEF OneItemPerOrigin
<1>7. \A i \in Rows' : i \in hit \/ (i \in Rows /\ origin'[i] = origin[i])
  BY <1>5 DEF Rows
<1>8. OneItemPerOrigin'
  <2> SUFFICES ASSUME NEW i \in Rows', NEW j \in Rows', origin'[i] = origin'[j],
                      origin'[i] # NoOrigin
               PROVE  i = j
    BY DEF OneItemPerOrigin
  <2>1. CASE i \in hit /\ j \in hit
    BY <1>4, <2>1
  <2>2. CASE i \in hit /\ j \notin hit
    BY <1>4, <1>6, <1>7, <2>2
  <2>3. CASE i \notin hit /\ j \in hit
    BY <1>4, <1>6, <1>7, <2>3
  <2>4. CASE i \notin hit /\ j \notin hit
    BY <1>7, <2>4 DEF OneItemPerOrigin
  <2>5. QED BY <2>1, <2>2, <2>3, <2>4
<1>9. /\ table' \in [Items -> {"unused", "row", "gone"}]
      /\ origin' \in [Items -> Origins \cup {NoOrigin}]
  <2>1. \A i \in Items : table'[i] \in {"unused", "row", "gone"}
    BY <1>2 DEF ImportTyped
  <2>2. \A i \in Items : origin'[i] \in Origins \cup {NoOrigin}
    BY <1>1, <1>4, <1>5 DEF ImportTyped
  <2>3. QED BY <1>2, <2>1, <2>2
<1>10. QED BY <1>4, <1>7, <1>8, <1>9

\* A bundle takes the place of the drafts it stages again.
LEMMA BundleStaged ==
  ASSUME ImportInv, NEW bundle \in Bundles, StageBundle(bundle)
  PROVE  ImportInv'
<1> DEFINE older == [b \in DOMAIN batches |-> Superseded(batches[b], DOMAIN bundle)]
           new   == [state |-> "staged", rows |-> [o \in DOMAIN bundle |-> NewDraft(o, bundle[o])]]
<1>0. PICK n : n = Len(batches) + 1
  OBVIOUS
<1>1. DOMAIN bundle \subseteq Origins /\ \A o \in DOMAIN bundle : bundle[o] \in Contents
  BY DEF Bundles
<1>2. DOMAIN batches = 1..Len(batches) /\ Len(batches) \in Nat
  BY LenProperties DEF ImportInv, ImportTyped
<1>3. \A b \in DOMAIN batches :
        /\ older[b] \in Batch
        /\ \A o \in DOMAIN older[b].rows :
             older[b].rows[o].state = "draft" =>
               /\ o \notin DOMAIN bundle /\ o \in Drafts(b)
               /\ older[b].rows[o].kind = batches[b].rows[o].kind
  <2> SUFFICES ASSUME NEW b \in DOMAIN batches
               PROVE  /\ older[b] \in Batch
                      /\ \A o \in DOMAIN older[b].rows :
                           older[b].rows[o].state = "draft" =>
                             /\ o \notin DOMAIN bundle /\ o \in Drafts(b)
                             /\ older[b].rows[o].kind = batches[b].rows[o].kind
    OBVIOUS
  <2> DEFINE rows == [o \in DOMAIN batches[b].rows |->
                        IF o \in DOMAIN bundle /\ batches[b].rows[o].state = "draft"
                        THEN [batches[b].rows[o] EXCEPT !.state = "superseded"]
                        ELSE batches[b].rows[o]]
  <2>1. /\ batches[b] \in Batch /\ DOMAIN batches[b].rows \subseteq Origins
        /\ batches[b].rows \in [DOMAIN batches[b].rows -> StagedRow]
    BY RowsOfBatch DEF ImportInv
  <2>2. older[b] = [state |-> batches[b].state, rows |-> rows]
    BY <2>1 DEF Superseded, Batch
  <2>3. rows \in [DOMAIN batches[b].rows -> StagedRow]
    BY <2>1 DEF StagedRow
  <2>4. \A o \in DOMAIN rows : rows[o].state = "draft" =>
          o \notin DOMAIN bundle /\ rows[o] = batches[b].rows[o]
    BY <2>1 DEF StagedRow
  <2> HIDE DEF rows, older
  <2>5. older[b] \in Batch
    BY <2>1, <2>2, <2>3 DEF Batch, SomeRows
  <2>6. QED BY <2>2, <2>3, <2>4, <2>5 DEF Drafts
<1>4. new \in Batch
  <2>1. \A o \in DOMAIN bundle : NewDraft(o, bundle[o]) \in StagedRow
    BY <1>1 DEF NewDraft, ArrivalKind, StagedRow
  <2>2. new.rows \in [DOMAIN bundle -> StagedRow]
    BY <2>1
  <2>3. QED BY <1>1, <2>2 DEF Batch, BatchStates, SomeRows
<1> HIDE DEF new
<1>5. older \in Seq(Batch) /\ Len(older) = Len(batches)
  <2>1. older \in [1..Len(batches) -> Batch]
    BY <1>2, <1>3
  <2> HIDE DEF older
  <2>2. older \in Seq(Batch)
    BY <1>2, <2>1, IsASeq
  <2>3. QED BY <1>2, <2>1, <2>2, LenProperties
<1> HIDE DEF older
<1>6. batches' = Append(older, new)
  BY DEF StageBundle, older, new
<1>7. /\ batches' \in Seq(Batch) /\ DOMAIN batches' = 1..n
      /\ \A b \in DOMAIN batches : batches'[b] = older[b]
      /\ batches'[n] = new
  <2>1. batches' \in Seq(Batch) /\ Len(batches') = n
    BY <1>0, <1>4, <1>5, <1>6, AppendProperties
  <2>2. \A b \in 1..Len(older) : Append(older, new)[b] = older[b]
    BY <1>4, <1>5, AppendProperties
  <2>3. Append(older, new)[Len(older) + 1] = new
    BY <1>4, <1>5, AppendProperties
  <2>4. QED BY <1>0, <1>2, <1>5, <1>6, <2>1, <2>2, <2>3, LenProperties
<1>8. \A b \in DOMAIN batches : \A o \in Drafts(b)' :
        /\ o \notin DOMAIN bundle /\ o \in Drafts(b)
        /\ batches'[b].rows[o].kind = batches[b].rows[o].kind
  BY <1>3, <1>7 DEF Drafts
<1>9. \A o \in Drafts(n)' : o \in DOMAIN bundle /\ batches'[n].rows[o].kind = ArrivalKind(o)
  <2>1. batches'[n].rows = [o \in DOMAIN bundle |-> NewDraft(o, bundle[o])]
    BY <1>7 DEF new
  <2>2. \A o \in DOMAIN bundle : NewDraft(o, bundle[o]).kind = ArrivalKind(o)
    BY DEF NewDraft
  <2>3. QED BY <2>1, <2>2 DEF Drafts
<1>10. Rows' = Rows /\ origin' = origin /\ table' = table
  BY DEF StageBundle, Rows
<1>11. OneDraft'
  BY <1>0, <1>2, <1>7, <1>8, <1>9 DEF OneDraft, ImportInv
<1>12. NewIsNew'
  <2> SUFFICES ASSUME NEW b \in 1..n, NEW o \in Drafts(b)', batches'[b].rows[o].kind = "new",
                      NEW i \in Rows
               PROVE  origin[i] # o
    BY <1>7, <1>10 DEF NewIsNew
  <2>1. CASE b \in DOMAIN batches
    BY <1>8, <2>1 DEF ImportInv, NewIsNew
  <2>2. CASE b = n
    BY <1>9, <2>2 DEF ArrivalKind
  <2>3. QED BY <1>0, <1>2, <2>1, <2>2
<1>13. QED BY <1>7, <1>10, <1>11, <1>12 DEF ImportInv, ImportTyped, OneItemPerOrigin

\* Fewer drafts and no new rows keep the invariant.
LEMMA NothingMade ==
  ASSUME ImportInv, batches' \in Seq(Batch), FewerDrafts, UNCHANGED origin,
         table' \in [Items -> {"unused", "row", "gone"}], Rows' \subseteq Rows
  PROVE  ImportInv'
<1>1. ImportTyped' /\ OneItemPerOrigin'
  BY DEF ImportInv, ImportTyped, OneItemPerOrigin
<1>2. OneDraft'
  BY DEF ImportInv, OneDraft, FewerDrafts
<1>3. NewIsNew'
  BY DEF ImportInv, NewIsNew, FewerDrafts
<1>4. QED BY <1>1, <1>2, <1>3 DEF ImportInv

\* An approval keeps the invariant: no draft of the origins it made rows of is left.
LEMMA ApprovalKeeps ==
  ASSUME ImportInv, NEW b \in DOMAIN batches, NEW S \in SUBSET Drafts(b), Apply(b, S),
         \/ batches' = SetState(b, S, "approved")
         \/ batches' = [SetState(b, S, "approved") EXCEPT ![b].state = "applied"]
  PROVE  ImportInv'
<1>1. /\ batches' \in Seq(Batch) /\ FewerDrafts
      /\ \A o \in S : o \notin Drafts(b)'
  BY DraftsDecided DEF ImportInv, BatchStates
<1>2. /\ table' \in [Items -> {"unused", "row", "gone"}]
      /\ origin' \in [Items -> Origins \cup {NoOrigin}]
      /\ OneItemPerOrigin'
      /\ \A i \in Rows' : origin'[i] \in S \/ (i \in Rows /\ origin'[i] = origin[i])
  BY ApprovalMakesOne DEF ImportInv
<1>3. OneDraft'
  BY <1>1 DEF ImportInv, OneDraft, FewerDrafts
<1>4. \A c \in DOMAIN batches : \A o \in Drafts(c)' : o \notin S
  BY <1>1 DEF ImportInv, OneDraft, FewerDrafts
<1>5. NewIsNew'
  BY <1>1, <1>2, <1>4 DEF ImportInv, NewIsNew, FewerDrafts
<1>6. QED BY <1>1, <1>2, <1>3, <1>5 DEF ImportInv, ImportTyped

\* At first there are no drafts, and no item comes from the Registry.
LEMMA ImportInvInit ==
  ASSUME ImportInit
  PROVE  ImportInv
<1>1. ImportTyped
  BY EmptySeq DEF ImportInit, ImportTyped
<1>2. DOMAIN batches = {}
  BY DEF ImportInit
<1>3. OneItemPerOrigin
  BY DEF ImportInit, OneItemPerOrigin, Rows
<1>4. QED BY <1>1, <1>2, <1>3 DEF ImportInv, OneDraft, NewIsNew

\* Every step keeps the invariant of the import.
LEMMA ImportInvKept ==
  ASSUME ImportInv, [ImportNext]_<<familyVars, importVars>>
  PROVE  ImportInv'
<1>1. ASSUME NEW bundle \in Bundles, StageBundle(bundle) PROVE ImportInv'
  BY <1>1, BundleStaged
<1>2. ASSUME NEW b \in DOMAIN batches, ApproveBatch(b) PROVE ImportInv'
  BY <1>2, ApprovalKeeps DEF ApproveBatch
<1>3. ASSUME NEW b \in DOMAIN batches, NEW o, ApproveStaged(b, o) PROVE ImportInv'
  BY <1>3, ApprovalKeeps DEF ApproveStaged
<1>4. ASSUME NEW b \in DOMAIN batches, DiscardBatch(b) PROVE ImportInv'
  <2>1. batches' \in Seq(Batch) /\ FewerDrafts
    BY <1>4, DraftsDecided DEF DiscardBatch, ImportInv, BatchStates
  <2>2. QED BY <1>4, <2>1, NothingMade DEF DiscardBatch, Rows, ImportInv, ImportTyped
<1>5. ASSUME NEW b \in DOMAIN batches, NEW o, RejectStaged(b, o) PROVE ImportInv'
  <2>1. batches' \in Seq(Batch) /\ FewerDrafts
    BY <1>5, DraftsDecided DEF RejectStaged, ImportInv
  <2>2. QED BY <1>5, <2>1, NothingMade DEF RejectStaged, Rows, ImportInv, ImportTyped
<1>6. ASSUME NEW b \in DOMAIN batches, NEW o, NEW answer \in {"confirmed", "dismissed"},
             ReviewDetection(b, o, answer)
      PROVE  ImportInv'
  <2>1. batches' \in Seq(Batch) /\ FewerDrafts
    BY <1>6, AnswerKeepsDrafts DEF ImportInv
  <2>2. QED BY <1>6, <2>1, NothingMade DEF ReviewDetection, Rows, ImportInv, ImportTyped
<1>7. ASSUME UNCHANGED batches PROVE batches' \in Seq(Batch) /\ FewerDrafts
  BY <1>7 DEF FewerDrafts, Drafts, ImportInv, ImportTyped
<1>8. CASE MoveRound
  BY <1>7, <1>8, NothingMade DEF MoveRound, Rows, ImportInv, ImportTyped
<1>9. ASSUME NEW i \in Items, DeleteItem(i) PROVE ImportInv'
  <2>1. /\ table' \in [Items -> {"unused", "row", "gone"}] /\ Rows' \subseteq Rows
        /\ UNCHANGED <<batches, origin>>
    BY <1>9 DEF DeleteItem, Rows, ImportInv, ImportTyped
  <2>2. QED BY <1>7, <2>1, NothingMade
<1>10. CASE UNCHANGED importVars
  BY <1>7, <1>10, NothingMade DEF importVars, Rows, ImportInv, ImportTyped
<1>11. QED BY <1>1, <1>2, <1>3, <1>4, <1>5, <1>6, <1>8, <1>9, <1>10
           DEF ImportNext, StagingNext

\* However bundles are staged again, superseded, approved and rejected, and items
\* deleted, the catalogue holds one item at most for each item of the Registry.
THEOREM NoneIsImportedTwice == ImportSpec => []OneItemPerOrigin
<1>1. ImportInit => ImportInv
  BY ImportInvInit
<1>2. ImportInv /\ [ImportNext]_<<familyVars, importVars>> => ImportInv'
  BY ImportInvKept
<1>3. ImportInv => OneItemPerOrigin
  BY DEF ImportInv
<1>4. QED BY <1>1, <1>2, <1>3, PTL DEF ImportSpec

-----------------------------------------------------------------------------
(* The catalogue while bundles arrive *)

\* What approving drafts does to the items: each that a draft goes to is typed, and
\* one that is sent to appraisal by it is escalated with it.
LEMMA ApprovalSound ==
  ASSUME ImportTyped, Sound, CategoriesOK,
         NEW b \in DOMAIN batches, NEW S \in SUBSET Drafts(b), Apply(b, S)
  PROVE  /\ Sound' /\ CategoriesOK'
         /\ \A i \in Items : categories'[i].source = categories[i].source
<1>1. \A o \in S : batches[b].rows[o] \in StagedRow
  BY RowsOfBatch DEF Drafts
<1> DEFINE row(f, i) == batches[b].rows[CHOOSE o \in S : f[o] = i]
           hit(f)    == {f[o] : o \in S}
           made(f)   == {i \in hit(f) : table[i] = "unused" /\ row(f, i).content.important}
           Orders(M) == {q \in [1..Cardinality(M) -> M] : {q[k] : k \in DOMAIN q} = M}
<1>2. PICK f \in Targets(b, S) :
        /\ items' = [i \in Items |->
              IF i \notin hit(f) THEN items[i]
              ELSE IF Escalates(row(f, i), i)
                   THEN [WithRow(items[i], row(f, i)) EXCEPT !.status = "needs_appraisal"]
                   ELSE WithRow(items[i], row(f, i))]
        /\ escalations' = [i \in Items |->
              IF i \in hit(f) /\ Escalates(row(f, i), i) THEN [escalations[i] EXCEPT !.active = "owner"]
              ELSE escalations[i]]
        /\ \E order \in Orders(made(f)) :
              changes' = changes \o
                [k \in DOMAIN order |-> Logged(order[k], "needsAppraisal", TRUE, NoPlaces)]
        /\ Len(changes') <= MaxChanges
        /\ categories' = [i \in Items |->
              IF i \in hit(f) THEN [categories[i] EXCEPT !.label = row(f, i).content.label]
              ELSE categories[i]]
  BY DEF Apply
<1>3. \A i \in hit(f) : row(f, i) \in StagedRow /\ row(f, i).content.important \in BOOLEAN
                        /\ row(f, i).content.label \in Categories
  <2>1. \A r \in StagedRow : r.content.important \in BOOLEAN /\ r.content.label \in Categories
    BY ImportAssumption DEF StagedRow
  <2>2. QED BY <1>1, <2>1
<1>4. hit(f) \subseteq Items
  BY DEF Targets
<1> DEFINE r(i) == row(f, i)
           H    == hit(f)
           M    == made(f)
<1>5. M \subseteq H
  OBVIOUS
<1> HIDE DEF row, hit, made
<1>6. ASSUME NEW i \in H
      PROVE  /\ WithRow(items[i], r(i)) \in Row
             /\ WithRow(items[i], r(i)).status \in {items[i].status, "owner_assigned"}
             /\ [WithRow(items[i], r(i)) EXCEPT !.status = "needs_appraisal"] \in Row
  <2>1. items[i] \in Row /\ r(i).content.important \in BOOLEAN
    BY <1>3, <1>4 DEF Sound, RowsOK
  <2> HIDE DEF r
  <2>2. QED BY <2>1 DEF WithRow, Row, Statuses
<1>7. \A i \in Items : Escalates(r(i), i) => ~Escalated(i)
  BY DEF Escalates
<1>8. items' \in [Items -> Row]
  BY <1>2, <1>6 DEF Sound, RowsOK
<1>9. escalations' \in [Items -> [active : Sources \cup {"none"}, reverted : SUBSET Sources]]
  BY <1>2 DEF Sound, RowsOK, Sources
<1>10. NoOrphanAppraisal'
  <2> SUFFICES ASSUME NEW i \in Items, items'[i].status = "needs_appraisal"
               PROVE  Escalated(i)'
    BY DEF NoOrphanAppraisal
  <2>1. escalations[i] \in [active : Sources \cup {"none"}, reverted : SUBSET Sources]
    BY DEF Sound, RowsOK
  <2>2. CASE i \in H /\ Escalates(r(i), i)
    BY <1>2, <2>1, <2>2 DEF Escalated
  <2>3. CASE ~(i \in H /\ Escalates(r(i), i))
    <3>1. items[i].status = "needs_appraisal"
      BY <1>2, <1>6, <2>3
    <3>2. escalations'[i] = escalations[i]
      BY <1>2, <2>3
    <3>3. QED BY <3>1, <3>2 DEF Sound, NoOrphanAppraisal, Escalated
  <2>4. QED BY <2>2, <2>3
<1>11. ListsOK'
  <2>1. PICK order \in Orders(M) :
          changes' = changes \o [k \in DOMAIN order |-> Logged(order[k], "needsAppraisal", TRUE, NoPlaces)]
    BY <1>2
  <2> DEFINE log == [k \in DOMAIN order |-> Logged(order[k], "needsAppraisal", TRUE, NoPlaces)]
  <2>2. Cardinality(M) \in Nat
    BY <1>4, <1>5, CatalogueAssumption, FS_Subset, FS_CardinalityType
  <2>3. NoPlaces \in [Heirs -> 0..Cardinality(Items)]
    BY CatalogueAssumption, FS_CardinalityType DEF NoPlaces
  <2>4. order \in [1..Cardinality(M) -> Items]
    BY <1>4, <1>5
  <2>5. \A k \in 1..Cardinality(M) : Logged(order[k], "needsAppraisal", TRUE, NoPlaces) \in Change
    BY <2>3, <2>4, LoggedIsChange DEF Flags
  <2>6. log \in [1..Cardinality(M) -> Change]
    BY <2>4, <2>5
  <2> HIDE DEF log
  <2>7. log \in Seq(Change)
    BY <2>2, <2>6, SeqDef
  <2>8. changes' \in Seq(Change)
    BY <2>1, <2>7, ConcatProperties DEF Sound, ListsOK, log
  <2>9. UNCHANGED <<open, rankings>>
    BY DEF Apply
  <2>10. QED BY <1>2, <2>8, <2>9 DEF Sound, ListsOK
<1>12. CategoriesOK' /\ \A i \in Items : categories'[i].source = categories[i].source
  <2>1. \A i \in H : r(i).content.label \in Categories
    BY <1>3
  <2> HIDE DEF r
  <2>2. \A i \in H : /\ [categories[i] EXCEPT !.label = r(i).content.label]
                          \in [label : Categories, source : {"none", "auto", "person"}, discuss : BOOLEAN]
                     /\ [categories[i] EXCEPT !.label = r(i).content.label].source = categories[i].source
    BY <1>4, <2>1 DEF CategoriesOK
  <2>3. categories' = [i \in Items |-> IF i \in H THEN [categories[i] EXCEPT !.label = r(i).content.label]
                                       ELSE categories[i]]
    BY <1>2 DEF r
  <2>4. QED BY <2>2, <2>3 DEF CategoriesOK
<1>13. UNCHANGED wants
  BY DEF Apply
<1>14. QED BY <1>8, <1>9, <1>10, <1>11, <1>12, <1>13 DEF Sound, RowsOK

\* Staging, deciding and deleting keep the items sound; none of it lets the model
\* overrule a person.
LEMMA StagingKeeps ==
  ASSUME ImportTyped, FamilyInv, StagingNext
  PROVE  /\ FamilyInv'
         /\ \A i \in Items :
              HumanChose(i) /\ categories'[i].label # categories[i].label
                => categories'[i].source # "auto"
<1> DEFINE Goal == /\ FamilyInv'
                   /\ \A i \in Items :
                        HumanChose(i) /\ categories'[i].label # categories[i].label
                          => categories'[i].source # "auto"
<1>1. ASSUME NEW b \in DOMAIN batches, NEW S \in SUBSET Drafts(b), Apply(b, S)
      PROVE  Goal
  <2>1. Sound' /\ CategoriesOK' /\ \A i \in Items : categories'[i].source = categories[i].source
    BY <1>1, ApprovalSound DEF FamilyInv
  <2>2. UNCHANGED <<recent, calls, dupGroup, dupGroups>>
    BY <1>1 DEF Apply
  <2>3. (GroupsOK /\ GroupsCanBeResolved /\ CallsOK)'
    BY <2>2 DEF FamilyInv, GroupsOK, GroupsCanBeResolved, CallsOK
  <2>4. QED BY <2>1, <2>3 DEF FamilyInv, HumanChose
<1>2. CASE UNCHANGED familyVars
  <2>1. FamilyInv'
    BY <1>2, FamilyKeeps
  <2>2. UNCHANGED categories
    BY <1>2 DEF familyVars, evaluationVars
  <2>3. QED BY <2>1, <2>2
<1>3. ASSUME NEW i \in Items, DeleteItem(i) PROVE Goal
  <2> DEFINE blank == [label |-> NoLabel, source |-> "none", discuss |-> FALSE]
  <2>1. /\ items' = [items EXCEPT ![i] = Fresh]
        /\ categories' = [categories EXCEPT ![i] = blank]
        /\ dupGroup' = [dupGroup EXCEPT ![i] = 0]
        /\ UNCHANGED <<open, rankings, changes, escalations, wants, recent, calls, dupGroups>>
    BY <1>3 DEF DeleteItem
  <2>2. Fresh \in Row /\ Fresh.status = "available"
    BY DEF Fresh, Row, Statuses
  <2>3. Elsewhere
    BY <2>1, <2>2 DEF Elsewhere, FamilyInv, Sound, RowsOK
  <2>4. Sound'
    BY <2>3, ElsewhereSound DEF FamilyInv
  <2>5. (GroupsOK /\ GroupsCanBeResolved /\ CallsOK)'
    BY <2>1, EvaluationAssumption DEF FamilyInv, GroupsOK, GroupsCanBeResolved, CallsOK
  <2>6. CategoriesOK' /\ \A j \in Items : j # i => categories'[j] = categories[j]
    BY <2>1 DEF FamilyInv, CategoriesOK, Categories
  <2>7. categories'[i].source = "none"
    BY <2>1 DEF FamilyInv, CategoriesOK
  <2>8. QED BY <2>4, <2>5, <2>6, <2>7 DEF FamilyInv
<1> HIDE DEF Goal
<1>4. ASSUME NEW b \in DOMAIN batches, ApproveBatch(b) PROVE Goal
  BY <1>1, <1>4 DEF ApproveBatch
<1>5. ASSUME NEW b \in DOMAIN batches, NEW o, ApproveStaged(b, o) PROVE Goal
  BY <1>1, <1>5 DEF ApproveStaged
<1>6. QED
  BY <1>2, <1>3, <1>4, <1>5
  DEF StagingNext, StageBundle, DiscardBatch, RejectStaged, ReviewDetection, MoveRound, Goal

\* A step of the catalogue on the items that have a row is one of the family's.
LEMMA OnRowsIsFamily ==
  ASSUME CatalogueNext /\ OnRows /\ UNCHANGED <<evaluationVars, importVars>>
  PROVE  FamilyNext
  BY DEF FamilyNext

\* Imports and edits keep both invariants.
LEMMA ImportKeepsFamily ==
  ASSUME ImportInv, FamilyInv, [ImportNext]_<<familyVars, importVars>>
  PROVE  /\ FamilyInv'
         /\ [\A i \in Items :
               HumanChose(i) /\ categories'[i].label # categories[i].label
                => categories'[i].source # "auto"]_familyVars
<1>1. CASE StagingNext
  BY <1>1, StagingKeeps DEF ImportInv
<1>2. CASE [FamilyNext]_familyVars
  BY <1>2, FamilyKeeps, CategorySteps DEF FamilyInv
<1>3. QED BY <1>1, <1>2, OnRowsIsFamily DEF ImportNext

\* Whatever bundles bring, and however the family works on the items meanwhile, every
\* item that waits for the trustee has its row on his list, every group can be
\* resolved, and lists and log are typed.
THEOREM ImportsKeepTheCatalogue ==
  ImportSpec => [](EvaluationTypeOK /\ NoOrphanAppraisal /\ GroupsCanBeResolved)
<1>1. ImportInit => ImportInv /\ FamilyInv
  BY ImportInvInit, FamilyInvInit DEF ImportInit
<1>2. ImportInv /\ FamilyInv /\ [ImportNext]_<<familyVars, importVars>> => ImportInv' /\ FamilyInv'
  BY ImportInvKept, ImportKeepsFamily
<1>3. FamilyInv => EvaluationTypeOK /\ NoOrphanAppraisal /\ GroupsCanBeResolved
  BY FamilyInvTypes DEF FamilyInv, Sound
<1>4. QED BY <1>1, <1>2, <1>3, PTL DEF ImportSpec

\* Nor does it while bundles are staged and approved, which give a new item a row
\* without a category.
THEOREM ImportsYield == ImportSpec => ModelYields
<1>1. ImportInit => ImportInv /\ FamilyInv
  BY ImportInvInit, FamilyInvInit DEF ImportInit
<1>2. ASSUME ImportInv, FamilyInv, [ImportNext]_<<familyVars, importVars>>
      PROVE  /\ ImportInv' /\ FamilyInv'
             /\ [\A i \in Items :
                   HumanChose(i) /\ categories'[i].label # categories[i].label
                => categories'[i].source # "auto"]_familyVars
  BY <1>2, ImportInvKept, ImportKeepsFamily
<1>3. QED BY <1>1, <1>2, PTL DEF ImportSpec, ModelYields

-----------------------------------------------------------------------------
(* Undoing in order                                                          *)
(*                                                                           *)
(* The history holds the lists each strip was made from; the strip of one    *)
(* gives the lists of the next, and that of the last gives the lists of now, *)
(* so putting the last item back gives the lists it was taken from.          *)

Entry == [change : Nat, lists : [Heirs -> Lists(Items)]]

HistoryTyped == history \in Seq(Entry) /\ asBefore = TRUE

Undone(k)     == changes[history[k].change]
ListsAfter(k) == IF k = Len(history) THEN rankings ELSE history[k + 1].lists

\* Each entry names a change that took the item from the lists of the entry.
HistoryLinked ==
  \A k \in 1..Len(history) :
    /\ history[k].change \in 1..Len(changes)
    /\ \A h \in Heirs :
         /\ Undone(k).places[h] = Place(history[k].lists[h], Undone(k).item)
         /\ ListsAfter(k)[h] = Strip(history[k].lists[h], Undone(k).item)

HistoryInv == Sound /\ HistoryTyped /\ HistoryLinked

\* What is read of the history is typed.
LEMMA EntryRead ==
  ASSUME HistoryTyped, NEW k \in 1..Len(history)
  PROVE  history[k].change \in Nat /\ history[k].lists \in [Heirs -> Lists(Items)]
<1>1. history[k] \in Entry
  BY ElementOfSeq DEF HistoryTyped
<1>2. QED BY <1>1 DEF Entry

\* What the log says was done stays, when it is left alone or grows.
LogKept ==
  /\ changes' \in Seq(Change) /\ Len(changes') >= Len(changes)
  /\ \A k \in 1..Len(changes) : /\ changes'[k].item = changes[k].item
                                /\ changes'[k].places = changes[k].places

\* The log of a catalogue step keeps what it said.
LEMMA FlagLogKept ==
  ASSUME Sound, UNCHANGED changes \/ FlagNext
  PROVE  LogKept
<1>0. Len(changes) \in Nat /\ changes \in Seq(Change)
  BY LenProperties DEF Sound, ListsOK
<1>1. CASE UNCHANGED changes
  BY <1>0, <1>1 DEF LogKept
<1>2. ASSUME NEW row \in Change,
             \/ changes' = Append(changes, row)
             \/ \E k \in DOMAIN changes : changes' = Append([changes EXCEPT ![k].reverted = TRUE], row)
      PROVE  LogKept
  <2>1. /\ changes' \in Seq(Change) /\ Len(changes') = Len(changes) + 1
        /\ \A k \in 1..Len(changes) : changes'[k].item = changes[k].item
                                      /\ changes'[k].places = changes[k].places
    BY <1>2, LogGrows DEF Sound
  <2>2. QED BY <1>0, <2>1 DEF LogKept
<1>3. NoPlaces \in [Heirs -> 0..Cardinality(Items)]
  BY CatalogueAssumption, FS_CardinalityType DEF NoPlaces
<1>4. ASSUME NEW i \in Items, NEW flag \in Flags, NEW new \in BOOLEAN, SetItemFlag(i, flag, new)
      PROVE  LogKept
  <2>1. [h \in Heirs |-> Place(rankings[h], i)] \in [Heirs -> 0..Cardinality(Items)]
    BY PlaceOnList DEF Sound, ListsOK
  <2>2. PICK places \in [Heirs -> 0..Cardinality(Items)] :
          changes' = Append(changes, Logged(i, flag, new, places))
    BY <1>3, <1>4, <2>1 DEF SetItemFlag
  <2>3. QED BY <1>2, <2>2, LoggedIsChange
<1>5. ASSUME NEW k \in 1..MaxChanges, RevertClassificationChange(k)
      PROVE  LogKept
  <2> DEFINE c == changes[k]
  <2>1. k \in DOMAIN changes
    BY <1>5 DEF RevertClassificationChange
  <2>2. c.item \in Items /\ c.flag \in Flags
    BY <2>1, ChangeRead DEF Change, Sound
  <2>3. changes' = Append([changes EXCEPT ![k].reverted = TRUE], Logged(c.item, c.flag, ~c.new, NoPlaces))
    BY <1>5, Zenon DEF RevertClassificationChange
  <2> HIDE DEF c
  <2>4. PICK b \in BOOLEAN : b = ~c.new
    BY Zenon
  <2>5. changes' = Append([changes EXCEPT ![k].reverted = TRUE], Logged(c.item, c.flag, b, NoPlaces))
    BY <2>3, <2>4, Zenon
  <2>6. Logged(c.item, c.flag, b, NoPlaces) \in Change
    BY <1>3, <2>2, LoggedIsChange
  <2>7. QED BY <1>2, <2>1, <2>5, <2>6
<1>6. CASE MovePhase
  BY <1>1, <1>6 DEF MovePhase
<1>7. QED BY <1>1, <1>4, <1>5, <1>6 DEF FlagNext

\* As long as the history and the lists stay, so do the links.
LEMMA LinksStay ==
  ASSUME HistoryInv, LogKept, UNCHANGED <<rankings, history>>
  PROVE  HistoryLinked'
<1>1. Len(changes) \in Nat /\ Len(changes') \in Nat
  BY LenProperties DEF HistoryInv, Sound, ListsOK, LogKept
<1> SUFFICES ASSUME NEW k \in 1..Len(history)
             PROVE  /\ history[k].change \in 1..Len(changes')
                    /\ \A h \in Heirs :
                         /\ Undone(k)'.places[h] = Place(history[k].lists[h], Undone(k)'.item)
                         /\ ListsAfter(k)[h] = Strip(history[k].lists[h], Undone(k)'.item)
  BY DEF HistoryLinked, ListsAfter
<1>2. history[k].change \in 1..Len(changes)
  BY DEF HistoryInv, HistoryLinked
<1>3. Undone(k)'.places = Undone(k).places /\ Undone(k)'.item = Undone(k).item
  BY <1>2 DEF Undone, LogKept
<1>4. QED BY <1>1, <1>2, <1>3 DEF HistoryInv, HistoryLinked, LogKept

\* A strip is remembered with the lists it was made from.
LEMMA StripRemembered ==
  ASSUME HistoryInv, NEW i \in Items, SetItemFlag(i, "needsAppraisal", TRUE),
         history' = Append(history, [change |-> Len(changes'), lists |-> rankings]),
         UNCHANGED asBefore
  PROVE  HistoryTyped' /\ HistoryLinked'
<1> DEFINE new == [change |-> Len(changes'), lists |-> rankings]
           row == Logged(i, "needsAppraisal", TRUE, [h \in Heirs |-> Place(rankings[h], i)])
<1>0. PICK n : n = Len(history)
  OBVIOUS
<1>1. /\ history \in Seq(Entry) /\ n \in Nat /\ Len(changes) \in Nat
      /\ rankings \in [Heirs -> Lists(Items)]
  BY <1>0, LenProperties DEF HistoryInv, HistoryTyped, Sound, ListsOK
<1>2. changes' = Append(changes, row) /\ rankings' = [h \in Heirs |-> Strip(rankings[h], i)]
  BY DEF SetItemFlag
<1>3. row \in Change
  <2>1. [h \in Heirs |-> Place(rankings[h], i)] \in [Heirs -> 0..Cardinality(Items)]
    BY <1>1, PlaceOnList
  <2>2. QED BY <2>1, LoggedIsChange DEF Flags
<1>4. row.item = i /\ row.places = [h \in Heirs |-> Place(rankings[h], i)]
  BY DEF Logged
<1> HIDE DEF row
<1>5. /\ Len(changes') = Len(changes) + 1 /\ changes'[Len(changes) + 1] = row
      /\ LogKept
  BY <1>1, <1>2, <1>3, LogGrows DEF HistoryInv, Sound, LogKept
<1>6. new \in Entry /\ new.change = Len(changes) + 1 /\ new.lists = rankings
  BY <1>1, <1>5 DEF Entry
<1>7. history' = Append(history, new)
  OBVIOUS
<1> HIDE DEF new
<1>8. /\ history' \in Seq(Entry) /\ Len(history') = n + 1
      /\ \A k \in 1..n : history'[k] = history[k]
      /\ history'[n + 1] = new
  BY <1>1, <1>6, <1>7, <1>0, AppendProperties
<1>9. HistoryTyped'
  BY <1>8 DEF HistoryInv, HistoryTyped
<1>10. ASSUME NEW k \in 1..n
       PROVE  /\ history'[k].change \in 1..Len(changes')
              /\ \A h \in Heirs :
                   /\ Undone(k)'.places[h] = Place(history'[k].lists[h], Undone(k)'.item)
                   /\ ListsAfter(k)'[h] = Strip(history'[k].lists[h], Undone(k)'.item)
  <2>1. history'[k] = history[k] /\ history[k].change \in 1..Len(changes)
    BY <1>0, <1>8 DEF HistoryInv, HistoryLinked
  <2>2. Undone(k)'.places = Undone(k).places /\ Undone(k)'.item = Undone(k).item
    BY <1>5, <2>1 DEF Undone, LogKept
  <2>3. ListsAfter(k)' = ListsAfter(k)
    BY <1>0, <1>1, <1>6, <1>8 DEF ListsAfter
  <2>4. QED BY <1>0, <1>1, <1>5, <2>1, <2>2, <2>3 DEF HistoryInv, HistoryLinked, LogKept
<1>11. /\ history'[n + 1].change \in 1..Len(changes')
       /\ \A h \in Heirs :
            /\ Undone(n + 1)'.places[h] = Place(history'[n + 1].lists[h], Undone(n + 1)'.item)
            /\ ListsAfter(n + 1)'[h] = Strip(history'[n + 1].lists[h], Undone(n + 1)'.item)
  <2>1. Undone(n + 1)' = row
    BY <1>5, <1>6, <1>8 DEF Undone
  <2>2. ListsAfter(n + 1)' = rankings'
    BY <1>8 DEF ListsAfter
  <2>3. QED BY <1>1, <1>2, <1>4, <1>5, <1>6, <1>8, <2>1, <2>2
<1>12. HistoryLinked'
  <2>1. \A k \in 1..Len(history') : k \in 1..n \/ k = n + 1
    BY <1>1, <1>8
  <2>2. QED BY <1>10, <1>11, <2>1 DEF HistoryLinked
<1>13. QED BY <1>9, <1>12

\* Undoing the latest strip gives the lists it was made from.
LEMMA LastUndoneRestores ==
  ASSUME HistoryInv, NEW k \in 1..MaxChanges, LastUndone(k)
  PROVE  HistoryTyped' /\ HistoryLinked'
<1> DEFINE n == Len(history)
           old == history[n].lists
           c   == changes[k]
<1>1. /\ history \in Seq(Entry) /\ n \in Nat \ {0} /\ history[n].change = k
  BY EmptySeq, LenProperties DEF HistoryInv, HistoryTyped, LastUndone, IsLast
<1>2. old \in [Heirs -> Lists(Items)]
  BY <1>1, EntryRead DEF HistoryInv
<1>3. k \in DOMAIN changes
  BY DEF LastUndone, RevertClassificationChange
<1>4. c.item \in Items
  BY <1>3, ChangeRead DEF HistoryInv, Sound, Change
<1>5. \A h \in Heirs : c.places[h] = Place(old[h], c.item) /\ rankings[h] = Strip(old[h], c.item)
  BY <1>1 DEF HistoryInv, HistoryLinked, Undone, ListsAfter
<1>6. rankings' = [h \in Heirs |-> Restore(rankings[h], c.item, c.places[h])]
  BY DEF LastUndone, RevertClassificationChange
<1> HIDE DEF old, c
<1>7. rankings' = old
  <2>1. \A h \in Heirs : Restore(rankings[h], c.item, c.places[h]) = old[h]
    BY <1>2, <1>4, <1>5, RestoreUndoesStrip
  <2>2. QED BY <1>2, <1>6, <2>1
<1>8. asBefore' = TRUE
  BY <1>7 DEF LastUndone, old
<1>9. /\ history' \in Seq(Entry) /\ Len(history') = n - 1
      /\ \A j \in 1..(n - 1) : history'[j] = history[j]
  <2>1. history' = SubSeq(history, 1, n - 1)
    BY DEF LastUndone
  <2>2. \A j \in 1..(n - 1) : history[j] \in Entry
    BY <1>1, ElementOfSeq
  <2>3. /\ SubSeq(history, 1, n - 1) \in Seq(Entry)
        /\ Len(SubSeq(history, 1, n - 1)) = IF 1 <= n - 1 THEN (n - 1) - 1 + 1 ELSE 0
        /\ \A j \in 1..((n - 1) - 1 + 1) : SubSeq(history, 1, n - 1)[j] = history[1 + j - 1]
    BY <1>1, <2>2, SubSeqProperties
  <2> HIDE DEF n
  <2>4. QED BY <1>1, <2>1, <2>3
<1>10. LogKept
  <2>1. FlagNext
    BY DEF LastUndone, FlagNext
  <2>2. QED BY <2>1, FlagLogKept DEF HistoryInv
<1>11. Len(changes) \in Nat /\ Len(changes') \in Nat
  BY <1>10, LenProperties DEF HistoryInv, Sound, ListsOK, LogKept
<1>12. HistoryLinked'
  <2> SUFFICES ASSUME NEW j \in 1..(n - 1)
               PROVE  /\ history'[j].change \in 1..Len(changes')
                      /\ \A h \in Heirs :
                           /\ Undone(j)'.places[h] = Place(history'[j].lists[h], Undone(j)'.item)
                           /\ ListsAfter(j)'[h] = Strip(history'[j].lists[h], Undone(j)'.item)
    BY <1>9 DEF HistoryLinked
  <2>1. /\ history'[j] = history[j] /\ j \in 1..Len(history) /\ history[j].change \in 1..Len(changes)
    BY <1>1, <1>9 DEF HistoryInv, HistoryLinked
  <2>2. Undone(j)'.places = Undone(j).places /\ Undone(j)'.item = Undone(j).item
    BY <1>10, <2>1 DEF Undone, LogKept
  <2>3. ListsAfter(j)' = ListsAfter(j)
    <3>1. ListsAfter(j) = history[j + 1].lists
      BY <1>1 DEF ListsAfter
    <3>2. CASE j = n - 1
      <4>1. ListsAfter(j)' = old
        BY <1>7, <1>9, <3>2 DEF ListsAfter
      <4>2. QED BY <1>1, <3>1, <3>2, <4>1 DEF old
    <3>3. CASE j # n - 1
      <4>1. j + 1 \in 1..(n - 1)
        BY <1>1, <3>3
      <4>2. QED BY <1>9, <3>1, <3>3, <4>1 DEF ListsAfter
    <3>4. QED BY <3>2, <3>3
  <2>4. QED BY <1>10, <1>11, <2>1, <2>2, <2>3 DEF HistoryInv, HistoryLinked, LogKept
<1>13. QED BY <1>8, <1>9, <1>12 DEF HistoryTyped

\* A history that starts anew has nothing to link.
LEMMA HistoryAnew ==
  ASSUME HistoryInv, history' = <<>>, asBefore' = TRUE
  PROVE  HistoryTyped' /\ HistoryLinked'
  BY EmptySeq DEF HistoryTyped, HistoryLinked

\* Every step keeps the links of the history.
LEMMA LinksKept ==
  ASSUME HistoryInv, [HistoryNext]_historyVars
  PROVE  HistoryTyped' /\ HistoryLinked'
<1>1. ASSUME LogKept, UNCHANGED <<rankings, history, asBefore>> PROVE HistoryTyped' /\ HistoryLinked'
  BY <1>1, LinksStay DEF HistoryInv, HistoryTyped
<1>2. CASE ListEdited
  BY <1>2, HistoryAnew DEF ListEdited
<1>3. CASE MovePhase /\ UNCHANGED <<history, asBefore>>
  <2>1. LogKept
    BY <1>3, FlagLogKept DEF HistoryInv, FlagNext
  <2>2. QED BY <1>1, <1>3, <2>1 DEF MovePhase
<1>4. ASSUME NEW i \in Items, NEW flag \in Flags, NEW new \in BOOLEAN, FlagSet(i, flag, new)
      PROVE  HistoryTyped' /\ HistoryLinked'
  <2>1. CASE flag = "needsAppraisal" /\ new
    <3>1. new = TRUE
      BY <2>1
    <3>2. QED BY <1>4, <2>1, <3>1, StripRemembered DEF FlagSet
  <2>2. CASE ~(flag = "needsAppraisal" /\ new)
    <3>1. LogKept
      BY <1>4, FlagLogKept DEF HistoryInv, FlagSet, FlagNext
    <3>2. UNCHANGED <<rankings, history, asBefore>>
      BY <1>4, <2>2 DEF FlagSet, SetItemFlag
    <3>3. QED BY <1>1, <3>1, <3>2
  <2>3. QED BY <2>1, <2>2
<1>5. ASSUME NEW k \in 1..MaxChanges, LastUndone(k) PROVE HistoryTyped' /\ HistoryLinked'
  BY <1>5, LastUndoneRestores
<1>6. ASSUME NEW k \in 1..MaxChanges, AnotherUndone(k) PROVE HistoryTyped' /\ HistoryLinked'
  <2>1. LogKept
    BY <1>6, FlagLogKept DEF HistoryInv, AnotherUndone, FlagNext
  <2>2. CASE rankings' = rankings
    BY <1>1, <1>6, <2>1, <2>2 DEF AnotherUndone
  <2>3. CASE rankings' # rankings
    BY <1>6, <2>3, HistoryAnew DEF AnotherUndone, HistoryInv, HistoryTyped
  <2>4. QED BY <2>2, <2>3
<1>7. CASE (EscalationNext \/ GroupingNext) /\ UNCHANGED <<history, asBefore>>
  <2>1. UNCHANGED <<rankings, changes>>
    BY <1>7 DEF EscalationNext, FlagForAppraisal, UnflagAppraisal, GroupingNext, ConfirmHeirloom,
                AddToGrouping, SetOptIn, ResolveGrouping
  <2>2. LogKept
    BY <2>1, FlagLogKept DEF HistoryInv
  <2>3. QED BY <1>1, <1>7, <2>1, <2>2
<1>8. CASE UNCHANGED historyVars
  <2>1. LogKept
    BY <1>8, FlagLogKept DEF HistoryInv, historyVars, catalogueVars
  <2>2. QED BY <1>1, <1>8, <2>1 DEF historyVars, catalogueVars
<1>9. QED BY <1>2, <1>3, <1>4, <1>5, <1>6, <1>7, <1>8 DEF HistoryNext, RankingNext

\* In whatever order flags are raised, lists edited, changes undone, items escalated
\* and groupings resolved: undoing the latest high-value flag gives every heir back the list it was taken from.
THEOREM UndoingRestores == HistorySpec => []UndoneInOrder
<1>1. HistoryInit => HistoryInv
  <2> SUFFICES ASSUME HistoryInit PROVE HistoryInv
    OBVIOUS
  <2>1. Sound
    BY CatalogueInitSound DEF HistoryInit
  <2>2. HistoryTyped /\ HistoryLinked
    BY EmptySeq DEF HistoryInit, HistoryTyped, HistoryLinked
  <2>3. QED BY <2>1, <2>2 DEF HistoryInv
<1>2. ASSUME HistoryInv, [HistoryNext]_historyVars PROVE HistoryInv'
  <2>0. Sound'
    <3>1. CASE CatalogueNext
      BY <1>2, <3>1, CatalogueSound DEF HistoryInv
    <3>2. CASE UNCHANGED catalogueVars
      BY <1>2, <3>2, UnchangedSound DEF HistoryInv
    <3>3. QED BY <1>2, <3>1, <3>2
              DEF HistoryNext, RankingNext, ListEdited, FlagSet, LastUndone, AnotherUndone,
                  CatalogueNext, FlagNext, historyVars
  <2>1. HistoryTyped' /\ HistoryLinked'
    BY <1>2, LinksKept
  <2>2. QED BY <2>0, <2>1 DEF HistoryInv
<1>3. HistoryInv => UndoneInOrder
  BY DEF HistoryInv, HistoryTyped, UndoneInOrder
<1>4. QED BY <1>1, <1>2, <1>3, PTL DEF HistorySpec
=============================================================================
