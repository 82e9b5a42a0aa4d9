------------------------------ MODULE MCFamily ------------------------------
(* A small instance of Catalogue, Evaluation, ImportStaging and RankingHistory for TLC. *)
EXTENDS ImportStaging, RankingHistory, TLC

CONSTANTS a, b, x, y, z, heirlooms, tools, jewelry, books, clock, vase

TwoHeirs    == {a, b}
OneHeir     == {a}
TwoItems    == {x, y}
TwoGroups   == {heirlooms, tools}
TwoLabels   == {jewelry, books}
JewelryRule == {jewelry}
TwoOrigins  == {clock, vase}
\* An item nothing is said of, and an important one that a comment may assign.
TwoContents ==
  {[assigned |-> FALSE, guess |-> g, important |-> g, label |-> IF g THEN jewelry ELSE NoLabel]
     : g \in BOOLEAN}
AllAlike    == {p \in Items \X Items : p[1] # p[2]}

-----------------------------------------------------------------------------
(* The whole next-state relation is too wide for one run.  Each slice below  *)
(* keeps to one group of requests; between them they take every action.  The *)
(* last categorizes one of the items only.                                   *)

VARIABLE slice
mcVars == <<familyVars, importVars, slice, history, asBefore>>

Grouping   == EscalationNext \/ GroupingNext
Evaluating ==
  \/ Categorizing(x)
  \/ Analyzing(x, Answer) \/ Analyzing(y, {r \in Answer : ~r.confident}) \/ AnalyzeLost
  \/ DuplicateNext
  \/ \E i \in Items : UnflagAppraisal(i) /\ UNCHANGED evaluationVars

\* Bundles arrive and are approved while items are deleted and one is escalated.
Importing ==
  \/ StagingNext
  \/ /\ FlagForAppraisal(x, "heir") \/ UnflagAppraisal(x)
     /\ OnRows /\ UNCHANGED <<evaluationVars, importVars>>

OriginSymmetry == Permutations(Origins)

MCInit ==
  /\ ImportInit
  /\ slice \in {"ranking", "grouping", "evaluating", "importing"}
  /\ Rows = IF slice = "importing" THEN {} ELSE Items
  /\ history = <<>> /\ asBefore = TRUE
MCNext ==
  /\ UNCHANGED slice
  /\ \/ slice = "ranking" /\ RankingNext /\ UNCHANGED <<evaluationVars, importVars>>
     \/ slice = "grouping" /\ Grouping
        /\ UNCHANGED <<evaluationVars, importVars, history, asBefore>>
     \/ slice = "evaluating" /\ Evaluating /\ UNCHANGED <<importVars, history, asBefore>>
     \/ slice = "importing" /\ Importing /\ UNCHANGED <<history, asBefore>>
MCSpec == MCInit /\ [][MCNext]_mcVars
=============================================================================
