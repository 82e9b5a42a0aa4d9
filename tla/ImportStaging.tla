--------------------------- MODULE ImportStaging ---------------------------
(***************************************************************************)
(* How the items of the owner's Registry enter FairPlay's catalogue.       *)
(*                                                                         *)
(* A bundle is staged whole: a row for each of its items, each a draft     *)
(* that takes the place of an older draft of the same item.  A captain     *)
(* approves drafts one by one or by the batch, as long as no round of the  *)
(* draft is under way; the row then makes an item, or writes over the item *)
(* an earlier bundle made.  Every handler runs without another between its *)
(* steps.                                                                  *)
(*                                                                         *)
(* Left out: names, rooms, notes, media and who the owner meant, of which  *)
(* only the effect on the status is kept; complaints about the file; the   *)
(* duplicates an arrival resembles, which a captain only reads.            *)
(***************************************************************************)
EXTENDS Evaluation

CONSTANTS
  Origins,      \* item ids of the Registry
  NoOrigin,     \* origin_item_id = null: catalogued by hand
  Contents,     \* what a bundle may say of an item
  MaxBatches    \* bound on the bundles that arrive

\* A bundle says of an item whether the owner assigned it, by a recipient hint or
\* a frozen memorandum, or seems to in a comment; whether it is important; and
\* its category.
ASSUME ImportAssumption ==
  /\ NoOrigin \notin Origins
  /\ Contents \subseteq [assigned : BOOLEAN, guess : BOOLEAN, important : BOOLEAN,
                         label : Categories]
  /\ MaxBatches \in Nat

VARIABLES
  locked,       \* the phase is draft or secondary_draft
  batches,      \* import_batches, each with its staged_items by origin
  table,        \* which ids of items were never used, have a row, had one
  origin        \* items.origin_item_id

importVars == <<locked, batches, table, origin>>

StagedRow == [content : Contents,
              kind : {"new", "updates_existing"},
              review : {"", "pending", "confirmed", "dismissed"},
              state : {"draft", "approved", "rejected", "superseded"}]

Rows == {i \in Items : table[i] = "row"}

ImportInit ==
  /\ EvaluationInit
  /\ locked = FALSE
  /\ batches = <<>>
  /\ table \in [Items -> {"unused", "row"}]
  /\ origin = [i \in Items |-> NoOrigin]

-----------------------------------------------------------------------------
(* Staging *)

\* Whether an item of that origin is there is read when the bundle arrives.
ArrivalKind(o) ==
  IF \E i \in Rows : origin[i] = o THEN "updates_existing" ELSE "new"

NewDraft(o, content) ==
  [content |-> content, kind |-> ArrivalKind(o),
   review |-> IF content.guess THEN "pending" ELSE "", state |-> "draft"]

\* Older drafts of the same items; rows already decided are history.
Superseded(batch, S) ==
  [batch EXCEPT !.rows = [o \in DOMAIN @ |->
     IF o \in S /\ @[o].state = "draft" THEN [@[o] EXCEPT !.state = "superseded"] ELSE @[o]]]

\* Mutant: older drafts stay.
StageBundleBeside(bundle) ==
  /\ Len(batches) < MaxBatches
  /\ batches' = Append(batches,
       [state |-> "staged", rows |-> [o \in DOMAIN bundle |-> NewDraft(o, bundle[o])]])
  /\ UNCHANGED <<familyVars, locked, table, origin>>
\* A bundle is staged in any phase.
StageBundle(bundle) ==
  /\ Len(batches) < MaxBatches
  /\ batches' = Append([b \in DOMAIN batches |-> Superseded(batches[b], DOMAIN bundle)],
       [state |-> "staged", rows |-> [o \in DOMAIN bundle |-> NewDraft(o, bundle[o])]])
  /\ UNCHANGED <<familyVars, locked, table, origin>>

Bundles == UNION {[S -> Contents] : S \in SUBSET Origins \ {{}}}

Drafts(b) == {o \in DOMAIN batches[b].rows : batches[b].rows[o].state = "draft"}

SetState(b, S, state) ==
  [batches EXCEPT ![b].rows = [o \in DOMAIN @ |->
     IF o \in S THEN [@[o] EXCEPT !.state = state] ELSE @[o]]]

-----------------------------------------------------------------------------
(* Approval *)

\* The row writes over the item of its origin, if the row was staged as an update
\* and the item is still there.
Updates(row, o) == row.kind = "updates_existing" /\ \E i \in Rows : origin[i] = o

\* The ids the rows S of a batch go to: the items they update, or new ones.
Targets(b, S) ==
  {f \in [S -> Items] :
     /\ \A o \in S : IF Updates(batches[b].rows[o], o)
                     THEN f[o] \in Rows /\ origin[f[o]] = o
                     ELSE table[f[o]] = "unused"
     /\ \A o, p \in S : f[o] = f[p] => o = p}

OwnerAssigns(row) == row.content.assigned \/ row.review = "confirmed"

\* An item the owner assigned leaves the pool, unless it left it already.
WithRow(item, row) ==
  [item EXCEPT !.needsAppraisal = row.content.important,
               !.status = IF OwnerAssigns(row) /\ @ = "available" THEN "owner_assigned" ELSE @]

\* What the owner marked is escalated in the owner's name, unless an escalation
\* is open.
Escalates(row, i) == row.content.important /\ ~Escalated(i)

\* Approving S makes or updates its items together; those it makes are logged, in
\* some order, as marked by the owner.
Apply(b, S) ==
  \E f \in Targets(b, S) :
    LET row(i) == batches[b].rows[CHOOSE o \in S : f[o] = i]
        hit    == {f[o] : o \in S}
        made   == {i \in hit : table[i] = "unused" /\ row(i).content.important}
    IN /\ items' = [i \in Items |->
            IF i \notin hit THEN items[i]
            ELSE IF Escalates(row(i), i)
                 THEN [WithRow(items[i], row(i)) EXCEPT !.status = "needs_appraisal"]
                 ELSE WithRow(items[i], row(i))]
       /\ escalations' = [i \in Items |->
            IF i \in hit /\ Escalates(row(i), i) THEN [escalations[i] EXCEPT !.active = "owner"]
            ELSE escalations[i]]
       /\ \E order \in {q \in [1..Cardinality(made) -> made] : {q[k] : k \in DOMAIN q} = made} :
            changes' = changes \o
              [k \in DOMAIN order |-> Logged(order[k], "needsAppraisal", TRUE, NoPlaces)]
       /\ Len(changes') <= MaxChanges
       /\ categories' = [i \in Items |->
            IF i \in hit THEN [categories[i] EXCEPT !.label = row(i).content.label]
            ELSE categories[i]]
       /\ table'  = [i \in Items |-> IF i \in hit THEN "row" ELSE table[i]]
       /\ origin' = [i \in Items |-> IF i \in hit THEN CHOOSE o \in S : f[o] = i ELSE origin[i]]
  /\ UNCHANGED <<open, rankings, wants, recent, calls, dupGroup, dupGroups, locked>>

NotPending(b, S) == \A o \in S : batches[b].rows[o].review # "pending"

\* One draft; the state of its batch is not looked at.
ApproveStaged(b, o) ==
  /\ ~locked
  /\ o \in Drafts(b) /\ NotPending(b, {o})
  /\ Apply(b, {o})
  /\ batches' = SetState(b, {o}, "approved")

\* Every draft of a batch, or none while one of them waits for a review.  The
\* batch counts as applied when it has no draft left, whatever it was.
ApproveBatch(b) ==
  /\ ~locked
  /\ NotPending(b, Drafts(b))
  /\ Apply(b, Drafts(b))
  /\ batches' = [SetState(b, Drafts(b), "approved") EXCEPT ![b].state = "applied"]

RejectStaged(b, o) ==
  /\ o \in Drafts(b)
  /\ batches' = SetState(b, {o}, "rejected")
  /\ UNCHANGED <<familyVars, locked, table, origin>>

DiscardBatch(b) ==
  /\ batches' = [SetState(b, Drafts(b), "rejected") EXCEPT ![b].state = "discarded"]
  /\ UNCHANGED <<familyVars, locked, table, origin>>

\* The captain decides what the comment meant, and may change his mind.
ReviewDetection(b, o, answer) ==
  /\ o \in Drafts(b) /\ batches[b].rows[o].review # ""
  /\ batches' = [batches EXCEPT ![b].rows[o].review = answer]
  /\ UNCHANGED <<familyVars, locked, table, origin>>

-----------------------------------------------------------------------------
(* The items meanwhile *)

MoveRound ==
  /\ locked' = ~locked
  /\ UNCHANGED <<familyVars, batches, table, origin>>

\* An item is deleted alone: its escalations and its places in lists stay.
DeleteItem(i) ==
  /\ i \in Rows
  /\ table' = [table EXCEPT ![i] = "gone"]
  /\ items' = [items EXCEPT ![i] = Fresh]
  /\ categories' = [categories EXCEPT ![i] = [label |-> NoLabel, source |-> "none", discuss |-> FALSE]]
  /\ dupGroup' = [dupGroup EXCEPT ![i] = 0]
  /\ UNCHANGED <<open, rankings, changes, escalations, wants, recent, calls, dupGroups, locked,
                 batches, origin>>

\* The catalogue's requests name items that have a row.
OnRows == \A i \in Items \ Rows : items'[i] = items[i] /\ escalations'[i] = escalations[i]

StagingNext ==
  \/ \E bundle \in Bundles : StageBundle(bundle)
  \/ \E b \in DOMAIN batches :
       \/ ApproveBatch(b) \/ DiscardBatch(b)
       \/ \E o \in Origins :
            \/ ApproveStaged(b, o) \/ RejectStaged(b, o)
            \/ \E answer \in {"confirmed", "dismissed"} : ReviewDetection(b, o, answer)
  \/ MoveRound
  \/ \E i \in Items : DeleteItem(i)

ImportNext ==
  \/ StagingNext
  \/ CatalogueNext /\ OnRows /\ UNCHANGED <<evaluationVars, importVars>>

ImportSpec == ImportInit /\ [][ImportNext]_<<familyVars, importVars>>

-----------------------------------------------------------------------------
(* Properties *)

\* "Re-importing the same origin_item_id supersedes the older staged draft (or
\* updates the live item) instead of duplicating", though which of the two it is
\* was decided when the bundle arrived, and items are deleted and drafts approved,
\* rejected and replaced before it is approved.
OneItemPerOrigin ==
  \A i, j \in Rows : origin[i] = origin[j] /\ origin[i] # NoOrigin => i = j
=============================================================================
