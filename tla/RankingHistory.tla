--------------------------- MODULE RankingHistory ---------------------------
(***************************************************************************)
(* What undoing a high-value flag promises, over the steps of Catalogue.   *)
(*                                                                         *)
(* Two auxiliary variables watch the log and the lists and restrict no     *)
(* step: the changes that stripped an item and were not undone yet, latest *)
(* last, each with the lists before it.  That history starts anew when an  *)
(* heir edits a list or changes are undone out of order.                   *)
(***************************************************************************)
EXTENDS Catalogue

VARIABLES
  history,
  asBefore      \* the last change undone in order gave the lists before it

historyVars == <<catalogueVars, history, asBefore>>

HistoryInit == CatalogueInit /\ history = <<>> /\ asBefore = TRUE

ListEdited ==
  /\ ListNext
  /\ history' = <<>> /\ asBefore' = TRUE

FlagSet(i, flag, new) ==
  /\ SetItemFlag(i, flag, new)
  /\ history' = IF flag = "needsAppraisal" /\ new
                THEN Append(history, [change |-> Len(changes'), lists |-> rankings])
                ELSE history
  /\ UNCHANGED asBefore

IsLast(k) == history # <<>> /\ history[Len(history)].change = k

LastUndone(k) ==
  /\ IsLast(k)
  /\ RevertClassificationChange(k)
  /\ asBefore' = (rankings' = history[Len(history)].lists)
  /\ history' = SubSeq(history, 1, Len(history) - 1)

AnotherUndone(k) ==
  /\ ~IsLast(k)
  /\ RevertClassificationChange(k)
  /\ history' = IF rankings' = rankings THEN history ELSE <<>>
  /\ UNCHANGED asBefore

RankingNext ==
  \/ ListEdited
  \/ MovePhase /\ UNCHANGED <<history, asBefore>>
  \/ \E i \in Items, flag \in Flags, new \in BOOLEAN : FlagSet(i, flag, new)
  \/ \E k \in 1..MaxChanges : LastUndone(k) \/ AnotherUndone(k)

HistoryNext ==
  \/ RankingNext
  \/ (EscalationNext \/ GroupingNext) /\ UNCHANGED <<history, asBefore>>

HistorySpec == HistoryInit /\ [][HistoryNext]_historyVars

-----------------------------------------------------------------------------
(* Properties *)

\* Undoing high-value flags in the reverse of the order they were raised in,
\* with no edit of a list in between, gives every heir the list they had: "Put a
\* stripped item back where each heir had it."
UndoneInOrder == asBefore
=============================================================================
