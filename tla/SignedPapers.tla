--------------------------- MODULE SignedPapers ---------------------------
(***************************************************************************)
(* What a Registry promises of everything its people sign, memorandum or   *)
(* addendum, told without rows, drafts, bundles or sessions.               *)
(*                                                                         *)
(* The papers of an author are numbered from one.  A paper is added as a   *)
(* whole, says something, and is neither altered nor withdrawn.  An author *)
(* who has signed may be closed, and signs nothing from then on.           *)
(***************************************************************************)
EXTENDS Naturals

CONSTANT Authors

VARIABLES
  papers,    \* triples of an author, a number and what the paper says
  closed     \* authors who have said their last word

vars == <<papers, closed>>

Numbers(a) == {p[2] : p \in {q \in papers : q[1] = a}}

Init == papers = {} /\ closed = {}

Sign ==
  /\ \E p \in papers' \ papers :
       /\ papers' = papers \cup {p}
       /\ p[1] \in Authors \ closed
       /\ p[2] \in Nat \ {0} /\ Numbers(p[1]) = 1..p[2] - 1
       /\ p[3] # {}
  /\ UNCHANGED closed

Close ==
  /\ \E a \in Authors \ closed : Numbers(a) # {} /\ closed' = closed \cup {a}
  /\ UNCHANGED papers

Next == Sign \/ Close

Spec == Init /\ [][Next]_vars

-----------------------------------------------------------------------------
(* What follows from the promise *)

\* No number is used twice and none is missing below another, so the papers of
\* an author can be read in the order they were signed.
ReadInOrder ==
  /\ \A p, q \in papers : p[1] = q[1] /\ p[2] = q[2] => p = q
  /\ \A p \in papers : 1..p[2] \subseteq Numbers(p[1])

\* The last word is on paper.
ClosedHaveSigned == \A a \in closed : Numbers(a) # {}

ArchiveInv == ReadInOrder /\ ClosedHaveSigned /\ \A p \in papers : p[2] \in Nat
=============================================================================
