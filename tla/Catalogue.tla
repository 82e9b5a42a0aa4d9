----------------------------- MODULE Catalogue -----------------------------
(***************************************************************************)
(* FairPlay's items before they are divided: which are flagged high-value, *)
(* which wait for the trustee's appraisal, which sit in a grouping, and    *)
(* what each heir has ranked.                                              *)
(*                                                                         *)
(* Two mechanisms send an item to appraisal.  A classification flag is     *)
(* toggled by anybody, logged with the places it cost, and reverted by a   *)
(* captain; an escalation is a row of appraisal_flags, withdrawn by the    *)
(* captain unless the owner made it.  Both write items.needsAppraisal.     *)
(*                                                                         *)
(* Every handler runs without another between its steps.  Left out: the    *)
(* sentimental flag, which nothing reads; notices; practice items; ranking *)
(* windows and contested stages; edits of the status column by hand.       *)
(***************************************************************************)
EXTENDS Naturals, Sequences, FiniteSets

CONSTANTS
  Heirs,
  Items,
  Nobody,         \* awarded_to_participant_id = null
  Groupings,      \* rows of groupings; Heirloom is the one the program creates
  Heirloom,
  NoGrouping,
  MaxChanges      \* bound on the classification log

ASSUME CatalogueAssumption ==
  /\ IsFiniteSet(Items)
  /\ Nobody \notin Heirs
  /\ Heirloom \in Groupings /\ NoGrouping \notin Groupings
  /\ MaxChanges \in Nat

VARIABLES
  open,         \* the phase is one in which classifications may change
  items,        \* items: status, flags, grouping and owner
  rankings,     \* each heir's list
  changes,      \* classification_changes
  escalations,  \* appraisal_flags of each item: the active row and the reverted ones
  wants         \* heirs who opted in to each grouping

catalogueVars == <<open, items, rankings, changes, escalations, wants>>

Statuses == {"available", "in_grouping", "needs_appraisal", "awarded", "owner_assigned",
             "duplicate_dismissed"}
Sources  == {"heir", "owner", "ai", "category"}
Flags    == {"needsAppraisal", "isHeirloom"}

Lists(S) == UNION {{l \in [1..n -> S] : \A j, k \in 1..n : l[j] = l[k] => j = k}
                     : n \in 0..Cardinality(S)}
Change == [item : Items, flag : Flags, new : BOOLEAN, places : [Heirs -> 0..Cardinality(Items)],
           reverted : BOOLEAN]

CatalogueTypeOK ==
  /\ open \in BOOLEAN
  /\ items \in [Items -> [status : Statuses, needsAppraisal : BOOLEAN, isHeirloom : BOOLEAN,
                          confirmed : BOOLEAN, grouping : Groupings \cup {NoGrouping},
                          awardedTo : Heirs \cup {Nobody}]]
  /\ rankings \in [Heirs -> Lists(Items)]
  /\ changes \in Seq(Change) /\ Len(changes) <= MaxChanges
  /\ escalations \in [Items -> [active : Sources \cup {"none"}, reverted : SUBSET Sources]]
  /\ wants \in [Groupings -> SUBSET Heirs]

Fresh == [status |-> "available", needsAppraisal |-> FALSE, isHeirloom |-> FALSE,
          confirmed |-> FALSE, grouping |-> NoGrouping, awardedTo |-> Nobody]

CatalogueInit ==
  /\ open = TRUE
  /\ items = [i \in Items |-> Fresh]
  /\ rankings = [h \in Heirs |-> <<>>]
  /\ changes = <<>>
  /\ escalations = [i \in Items |-> [active |-> "none", reverted |-> {}]]
  /\ wants = [g \in Groupings |-> {}]

-----------------------------------------------------------------------------
(* The lists *)

On(l, i) == \E k \in DOMAIN l : l[k] = i

Place(l, i) == IF On(l, i) THEN CHOOSE k \in DOMAIN l : l[k] = i ELSE 0

\* The item's row is deleted and the others are renumbered.
Strip(l, i) ==
  IF On(l, i) THEN SubSeq(l, 1, Place(l, i) - 1) \o SubSeq(l, Place(l, i) + 1, Len(l)) ELSE l

\* Mutant: the item comes back at the end.
RestoreLast(l, i, place) == IF place = 0 \/ On(l, i) THEN l ELSE Append(l, i)
\* Back to its old place, or to the end of a list that has become shorter.
Restore(l, i, place) ==
  IF place = 0 \/ On(l, i) THEN l
  ELSE LET at == IF place - 1 < Len(l) THEN place - 1 ELSE Len(l)
       IN SubSeq(l, 1, at) \o <<i>> \o SubSeq(l, at + 1, Len(l))

Pool == {i \in Items : items[i].status = "available" /\ ~items[i].needsAppraisal}

ReplaceRankings(h, list) ==
  /\ list \in Lists(Pool)
  /\ rankings' = [rankings EXCEPT ![h] = list]
  /\ UNCHANGED <<open, items, changes, escalations, wants>>

-----------------------------------------------------------------------------
(* Classification flags *)

MovePhase ==
  /\ open' = ~open
  /\ UNCHANGED <<items, rankings, changes, escalations, wants>>

NoPlaces == [h \in Heirs |-> 0]
Logged(i, flag, new, places) ==
  [item |-> i, flag |-> flag, new |-> new, places |-> places, reverted |-> FALSE]

\* An item taken off as an heirloom is no confirmed one either.
WithFlag(item, flag, new) ==
  IF flag = "needsAppraisal" THEN [item EXCEPT !.needsAppraisal = new]
  ELSE [item EXCEPT !.isHeirloom = new, !.confirmed = @ /\ new]

\* A high-value flag takes the item off every list and remembers the places.
SetItemFlag(i, flag, new) ==
  /\ open
  /\ items[i][flag] # new
  /\ Len(changes) < MaxChanges
  /\ items' = [items EXCEPT ![i] = WithFlag(@, flag, new)]
  /\ LET stripped == flag = "needsAppraisal" /\ new
     IN /\ rankings' = IF stripped THEN [h \in Heirs |-> Strip(rankings[h], i)] ELSE rankings
        /\ changes' = Append(changes, Logged(i, flag, new,
             IF stripped THEN [h \in Heirs |-> Place(rankings[h], i)] ELSE NoPlaces))
  /\ UNCHANGED <<open, escalations, wants>>

\* The captain undoes a change: the old value comes back, whatever the flag is
\* by now, and the item returns to the places the change took from it.
RevertClassificationChange(k) ==
  /\ open
  /\ k \in DOMAIN changes /\ ~changes[k].reverted
  /\ Len(changes) < MaxChanges
  /\ LET c == changes[k]
     IN /\ items' = [items EXCEPT ![c.item][c.flag] = ~c.new]
        /\ rankings' = [h \in Heirs |-> Restore(rankings[h], c.item, c.places[h])]
        /\ changes' = Append([changes EXCEPT ![k].reverted = TRUE],
                             Logged(c.item, c.flag, ~c.new, NoPlaces))
  /\ UNCHANGED <<open, escalations, wants>>

-----------------------------------------------------------------------------
(* Escalations *)

Escalated(i) == escalations[i].active # "none"

\* A second row is never added on top of an active one.
FlagForAppraisal(i, source) ==
  /\ ~Escalated(i)
  /\ escalations' = [escalations EXCEPT ![i].active = source]
  /\ items' = [items EXCEPT ![i].status = "needs_appraisal", ![i].needsAppraisal = TRUE]
  /\ UNCHANGED <<open, rankings, changes, wants>>

\* Mutant: the row is closed and the item is left where it was.
UnflagAppraisalRowOnly(i) ==
  /\ escalations[i].active \in Sources \ {"owner"}
  /\ escalations' = [escalations EXCEPT ![i] =
       [active |-> "none", reverted |-> @.reverted \cup {@.active}]]
  /\ UNCHANGED <<open, items, rankings, changes, wants>>
\* What the owner escalated stays escalated.
UnflagAppraisal(i) ==
  /\ escalations[i].active \in Sources \ {"owner"}
  /\ escalations' = [escalations EXCEPT ![i] =
       [active |-> "none", reverted |-> @.reverted \cup {@.active}]]
  /\ items' = [items EXCEPT ![i].status = "available", ![i].needsAppraisal = FALSE]
  /\ UNCHANGED <<open, rankings, changes, wants>>

-----------------------------------------------------------------------------
(* Groupings *)

ConfirmHeirloom(i, confirmed) ==
  /\ items' = [items EXCEPT ![i] =
       IF confirmed
       THEN [@ EXCEPT !.confirmed = TRUE, !.grouping = Heirloom, !.status = "in_grouping"]
       ELSE [@ EXCEPT !.confirmed = FALSE, !.isHeirloom = FALSE, !.grouping = NoGrouping,
                      !.status = "available"]]
  /\ UNCHANGED <<open, rankings, changes, escalations, wants>>

AddToGrouping(i, g) ==
  /\ items' = [items EXCEPT ![i].grouping = g, ![i].status = "in_grouping"]
  /\ UNCHANGED <<open, rankings, changes, escalations, wants>>

SetOptIn(g, h, choice) ==
  /\ wants' = [wants EXCEPT ![g] = IF choice = "want" THEN @ \cup {h} ELSE @ \ {h}]
  /\ UNCHANGED <<open, items, rankings, changes, escalations>>

Members(g) == {i \in Items : items[i].grouping = g}

\* Nobody wants it: its items go back to the pool.  Otherwise one heir gets all
\* of it; which of several is decided by the counters of DraftRound.  A grouping
\* that was resolved before can be resolved again.
ResolveGrouping(g, winner) ==
  /\ IF wants[g] = {} THEN winner = Nobody ELSE winner \in wants[g]
  /\ items' = [i \in Items |->
       IF i \notin Members(g) THEN items[i]
       ELSE IF winner = Nobody
            THEN [items[i] EXCEPT !.grouping = NoGrouping, !.status = "available"]
            ELSE [items[i] EXCEPT !.status = "awarded", !.awardedTo = winner]]
  /\ UNCHANGED <<open, rankings, changes, escalations, wants>>

ListNext == \E h \in Heirs, list \in Lists(Items) : ReplaceRankings(h, list)

FlagNext ==
  \/ MovePhase
  \/ \E i \in Items, flag \in Flags, new \in BOOLEAN : SetItemFlag(i, flag, new)
  \/ \E k \in 1..MaxChanges : RevertClassificationChange(k)

EscalationNext ==
  \E i \in Items :
    \/ \E source \in {"heir", "owner"} : FlagForAppraisal(i, source)
    \/ UnflagAppraisal(i)

GroupingNext ==
  \/ \E i \in Items : \/ \E confirmed \in BOOLEAN : ConfirmHeirloom(i, confirmed)
                      \/ \E g \in Groupings \ {Heirloom} : AddToGrouping(i, g)
  \/ \E g \in Groupings, h \in Heirs, choice \in {"want", "pass"} : SetOptIn(g, h, choice)
  \/ \E g \in Groupings, w \in Heirs \cup {Nobody} : ResolveGrouping(g, w)

CatalogueNext == ListNext \/ FlagNext \/ EscalationNext \/ GroupingNext

CatalogueSpec == CatalogueInit /\ [][CatalogueNext]_catalogueVars

-----------------------------------------------------------------------------
(* Properties *)

\* An item that waits for the trustee has an active row on his list: none is
\* taken out of the pool and then forgotten because its row was closed.
NoOrphanAppraisal == \A i \in Items : items[i].status = "needs_appraisal" => Escalated(i)
=============================================================================
