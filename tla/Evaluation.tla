----------------------------- MODULE Evaluation -----------------------------
(***************************************************************************)
(* What a model and the family make of FairPlay's items: their categories, *)
(* the automatic escalations, and the items that look like the same thing. *)
(*                                                                         *)
(* Evaluating an item calls a model; while it answers, people go on        *)
(* editing.  What it says is then applied to the row as it is: a category, *)
(* an escalation, a group of possible duplicates.  A person resolves such  *)
(* a group by naming the record to keep.                                   *)
(*                                                                         *)
(* Left out: the confidence and the wording of an answer, merged notes and *)
(* photographs, the taxonomy, the limit on edits per minute (it only       *)
(* warns), and rescanAllItemsForAppraisal, which nothing calls.            *)
(***************************************************************************)
EXTENDS Catalogue

CONSTANTS
  Labels,         \* categories
  AppraisalRule,  \* those whose items are escalated by rule
  NoLabel,
  Captain,        \* a category change without participant
  Alike,          \* pairs of items that look like the same thing
  MaxGroups,      \* bound on the groups of duplicates
  MaxCalls        \* bound on the evaluations of one item that run at once

ASSUME EvaluationAssumption ==
  /\ AppraisalRule \subseteq Labels /\ NoLabel \notin Labels
  /\ Captain \notin Heirs
  /\ Alike \subseteq Items \X Items
  /\ \A i, j \in Items : <<i, j>> \in Alike => <<j, i>> \in Alike
  /\ MaxGroups \in Nat /\ MaxCalls \in Nat

VARIABLES
  categories,   \* items: category, its source, whether to be discussed
  recent,       \* people who changed an item's category in the conflict window
  calls,        \* evaluations of each item that wait for the model
  dupGroup,     \* items.duplicate_group_id, 0 for none
  dupGroups     \* status of each group of duplicates

evaluationVars == <<categories, recent, calls, dupGroup, dupGroups>>
familyVars     == <<catalogueVars, evaluationVars>>

Categories == Labels \cup {NoLabel}
People     == Heirs \cup {Captain}
Groups     == 1..MaxGroups

EvaluationTypeOK ==
  /\ CatalogueTypeOK
  /\ categories \in [Items -> [label : Categories, source : {"none", "auto", "person"},
                               discuss : BOOLEAN]]
  /\ recent \in [Items -> SUBSET People]
  /\ calls \in [Items -> 0..MaxCalls]
  /\ dupGroup \in [Items -> 0..MaxGroups]
  /\ dupGroups \in [Groups -> {"none", "open", "resolved"}]

EvaluationInit ==
  /\ CatalogueInit
  /\ categories = [i \in Items |-> [label |-> NoLabel, source |-> "none", discuss |-> FALSE]]
  /\ recent = [i \in Items |-> {}]
  /\ calls = [i \in Items |-> 0]
  /\ dupGroup = [i \in Items |-> 0]
  /\ dupGroups = [g \in Groups |-> "none"]

-----------------------------------------------------------------------------
(* Categories *)

\* Last write wins.  When another person changed it a moment ago the item is
\* marked for discussion.
SetItemCategory(i, label, actor, source) ==
  IF label = categories[i].label THEN UNCHANGED <<categories, recent>>
  ELSE /\ categories' = [categories EXCEPT ![i] =
            [label |-> label, source |-> source,
             discuss |-> @.discuss \/ recent[i] \ {actor} # {}]]
       /\ recent' = IF source = "auto" THEN recent
                    ELSE [recent EXCEPT ![i] = @ \cup {actor}]

ChooseCategory(i, label, p) ==
  /\ SetItemCategory(i, label, p, "person")
  /\ UNCHANGED <<catalogueVars, calls, dupGroup, dupGroups>>

\* The other routes write the column and nothing else: neither the source nor the
\* history of the category.
PatchCategory(i, label) ==
  /\ categories' = [categories EXCEPT ![i].label = label]
  /\ UNCHANGED <<catalogueVars, recent, calls, dupGroup, dupGroups>>

ClearNeedsDiscussion(i) ==
  /\ categories' = [categories EXCEPT ![i].discuss = FALSE]
  /\ UNCHANGED <<catalogueVars, recent, calls, dupGroup, dupGroups>>

\* Thirty seconds after somebody's last change of the item.
WindowPasses(i, p) ==
  /\ p \in recent[i]
  /\ recent' = [recent EXCEPT ![i] = @ \ {p}]
  /\ UNCHANGED <<catalogueVars, categories, calls, dupGroup, dupGroups>>

-----------------------------------------------------------------------------
(* Duplicates *)

NewGroups == {g \in Groups : dupGroups[g] = "none"}

Settled(i) == items[i].status \in {"duplicate_dismissed", "awarded"}

\* Everything that looks like i and is still to be settled, whatever i is.
Matches(i) == {j \in Items \ {i} : <<i, j>> \in Alike /\ ~Settled(j)}

\* The group of the item itself, of a match that has one (the code takes the
\* first row it finds), or a new one.
GroupsFor(i) ==
  LET grouped == {j \in Matches(i) : dupGroup[j] # 0}
  IN IF dupGroup[i] # 0 THEN {dupGroup[i]}
     ELSE IF grouped # {} THEN {dupGroup[j] : j \in grouped}
     ELSE NewGroups

ScanDuplicatesForItem(i) ==
  IF Matches(i) = {} THEN UNCHANGED <<dupGroup, dupGroups>>
  ELSE \E g \in GroupsFor(i) :
         /\ dupGroup' = [j \in Items |-> IF j = i \/ j \in Matches(i) THEN g ELSE dupGroup[j]]
         /\ dupGroups' = [dupGroups EXCEPT ![g] = IF @ = "none" THEN "open" ELSE @]

Candidates == {i \in Items : ~Settled(i) /\ items[i].status # "owner_assigned"}

\* All that is alike over any number of steps.
Together(i) ==
  {j \in Candidates :
     \A S \in SUBSET Candidates :
       i \in S /\ (\A k \in S, l \in Candidates : <<k, l>> \in Alike => l \in S) => j \in S}

\* The sweep gives a group to every class that is not wholly grouped yet.
Ungrouped ==
  {C \in {Together(i) : i \in Candidates} :
     Cardinality(C) > 1 /\ \E j \in C : dupGroup[j] = 0}
ScanDuplicates ==
  /\ \E f \in [Ungrouped -> NewGroups] :
       /\ \A C, D \in Ungrouped : f[C] = f[D] => C = D
       /\ dupGroup' = [j \in Items |-> IF Together(j) \in Ungrouped THEN f[Together(j)]
                                       ELSE dupGroup[j]]
       /\ dupGroups' = [g \in Groups |-> IF \E C \in Ungrouped : f[C] = g THEN "open"
                                         ELSE dupGroups[g]]
  /\ UNCHANGED <<catalogueVars, categories, recent, calls>>

\* Mutant: the record that is kept stays in the group.
ResolveDuplicateKeepGroup(g, keep) ==
  /\ keep \in Items /\ dupGroup[keep] = g
  /\ items' = [j \in Items |-> IF dupGroup[j] = g /\ j # keep
                               THEN [items[j] EXCEPT !.status = "duplicate_dismissed"]
                               ELSE items[j]]
  /\ dupGroup' = [j \in Items |-> IF dupGroup[j] = g /\ j # keep THEN 0 ELSE dupGroup[j]]
  /\ dupGroups' = [dupGroups EXCEPT ![g] = "resolved"]
  /\ UNCHANGED <<open, rankings, changes, escalations, wants, categories, recent, calls>>
\* Whatever they were, all but one are dismissed; that one keeps its status.
ResolveDuplicate(g, keep) ==
  /\ keep \in Items /\ dupGroup[keep] = g
  /\ items' = [j \in Items |-> IF dupGroup[j] = g /\ j # keep
                               THEN [items[j] EXCEPT !.status = "duplicate_dismissed"]
                               ELSE items[j]]
  /\ dupGroup' = [j \in Items |-> IF dupGroup[j] = g THEN 0 ELSE dupGroup[j]]
  /\ dupGroups' = [dupGroups EXCEPT ![g] = "resolved"]
  /\ UNCHANGED <<open, rankings, changes, escalations, wants, categories, recent, calls>>

-----------------------------------------------------------------------------
(* Evaluation *)

\* The row read here serves the question only.
AnalyzeBegin(i) ==
  /\ calls[i] < MaxCalls
  /\ calls' = [calls EXCEPT ![i] = @ + 1]
  /\ UNCHANGED <<catalogueVars, categories, recent, dupGroup, dupGroups>>

Answer == [label : Categories, confident : BOOLEAN, costly : BOOLEAN]

\* What the code takes for a person's choice: a category that is not recorded as
\* the model's.
HumanChose(i) == categories[i].label # NoLabel /\ categories[i].source # "auto"
Assigns(i, a) == a.label # NoLabel /\ a.confident /\ ~HumanChose(i)

\* Which rule escalates the item: the estimate first, the category otherwise,
\* each unless the captain has withdrawn its flag before.
AutoFlag(i, a) ==
  LET label == IF a.label # NoLabel THEN a.label ELSE categories[i].label
  IN IF Escalated(i) THEN "none"
     ELSE IF a.costly /\ "ai" \notin escalations[i].reverted THEN "ai"
     ELSE IF label \in AppraisalRule /\ "category" \notin escalations[i].reverted THEN "category"
     ELSE "none"

\* Mutant: an answer that nobody waits for is applied too.
AnalyzeEndTwice(i, a, actor) ==
  /\ calls' = [calls EXCEPT ![i] = @ - 1]
  /\ ScanDuplicatesForItem(i)
  /\ UNCHANGED <<catalogueVars, categories, recent>>
\* Mutant: a confident answer always wins.
AnalyzeEndOverrules(i, a, actor) ==
  /\ calls[i] > 0
  /\ calls' = [calls EXCEPT ![i] = @ - 1]
  /\ IF a.label # NoLabel /\ a.confident THEN SetItemCategory(i, a.label, actor, "auto")
     ELSE UNCHANGED <<categories, recent>>
  /\ IF AutoFlag(i, a) = "none" THEN UNCHANGED catalogueVars
     ELSE FlagForAppraisal(i, AutoFlag(i, a))
  /\ ScanDuplicatesForItem(i)
AnalyzeEnd(i, a, actor) ==
  /\ calls[i] > 0
  /\ calls' = [calls EXCEPT ![i] = @ - 1]
  /\ IF Assigns(i, a) THEN SetItemCategory(i, a.label, actor, "auto")
     ELSE UNCHANGED <<categories, recent>>
  /\ IF AutoFlag(i, a) = "none" THEN UNCHANGED catalogueVars
     ELSE FlagForAppraisal(i, AutoFlag(i, a))
  /\ ScanDuplicatesForItem(i)

\* The process stops while the model thinks.
AnalyzeLost ==
  /\ calls' = [i \in Items |-> 0]
  /\ UNCHANGED <<catalogueVars, categories, recent, dupGroup, dupGroups>>

Categorizing(i) ==
  \/ \E label \in Categories :
       PatchCategory(i, label) \/ \E p \in People : ChooseCategory(i, label, p)
  \/ ClearNeedsDiscussion(i)
  \/ \E p \in People : WindowPasses(i, p)
CategoryNext == \E i \in Items : Categorizing(i)

Analyzing(i, answers) ==
  \/ AnalyzeBegin(i)
  \/ \E r \in answers, p \in People : AnalyzeEnd(i, r, p)
AnalysisNext == (\E i \in Items : Analyzing(i, Answer)) \/ AnalyzeLost

DuplicateNext ==
  \/ ScanDuplicates
  \/ \E i \in Items, g \in Groups : ResolveDuplicate(g, i)

FamilyNext ==
  \/ CatalogueNext /\ UNCHANGED evaluationVars
  \/ CategoryNext \/ AnalysisNext \/ DuplicateNext

FamilySpec == EvaluationInit /\ [][FamilyNext]_familyVars

-----------------------------------------------------------------------------
(* Properties *)

\* The model changes no category that the row does not record as its own, however
\* late its answer comes and however often it is asked.  What a person writes over
\* the model's category by one of the routes of PatchCategory is still recorded as
\* the model's: a late answer may take that back.
ModelYields ==
  [][\A i \in Items :
       HumanChose(i) /\ categories'[i].label # categories[i].label
         => categories'[i].source # "auto"]_familyVars

\* An item that reads as a possible duplicate is in a group that can still be
\* resolved, whatever was regrouped or resolved before.
GroupsCanBeResolved == \A i \in Items : dupGroup[i] # 0 => dupGroups[dupGroup[i]] = "open"
=============================================================================
