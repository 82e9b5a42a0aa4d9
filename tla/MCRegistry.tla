------------------------------ MODULE MCRegistry ------------------------------
(* A small instance of Household and Memorandum for TLC. *)
EXTENDS Memorandum, TLC, Functions

CONSTANTS
  ann, bob, cat, ring, dora, eve,
  MaxMail     \* bound on the links issued in all

ThreeOfUs == {ann, bob, cat}
OneThing  == {ring}
TwoHeirs  == {dora, eve}

EmailSymmetry == Permutations(Emails)

-----------------------------------------------------------------------------
(* The household forms while nobody writes, and people write in a household *)
(* that stands.  The lists are read by no action of Household and the       *)
(* household only by the guards of Memorandum, so each slice fixes what the *)
(* other varies; linking and unlinking happen in both.                      *)

VARIABLE slice
mcVars == <<registryVars, slice>>

\* The owner, a partner and a helper; the helper joined second or third and is
\* not signed in now.
Settled ==
  /\ people \in [Emails -> [role : {"owner", "partner", "assistant"}, status : {"active"}]]
  /\ \A role \in {"owner", "partner"} : Cardinality({e \in Emails : people[e].role = role}) = 1
  /\ roster \in {s \in [1..Cardinality(Emails) -> Emails] :
                   \A e \in Emails : \E k \in DOMAIN s : s[k] = e}
  /\ people[roster[1]].role = "owner"
  /\ links = [e \in Emails |-> [k \in Purposes |-> 0]]
  /\ issued = [e \in Emails |-> 1] /\ ownerInvites = {}
  /\ sessions = [e \in Emails |-> IF people[e].role = "assistant" THEN 0 ELSE 1]
  /\ inviting = {}
  /\ mode = "solo" /\ linkedBy = Nobody

Forming ==
  /\ HouseholdNext
  /\ FoldFunction(+, 0, issued') <= MaxMail
  /\ UNCHANGED memoVars
Writing ==
  \/ MemorandumNext
  \/ ((\E e \in Emails : Confirm(e)) \/ (\E e \in Emails : Unlink(e))) /\ UNCHANGED memoVars

MCInit ==
  /\ slice \in {"forming", "writing"}
  /\ entries = {} /\ signings = {}
  /\ IF slice = "forming" THEN HouseholdInit ELSE Settled
MCNext ==
  /\ UNCHANGED slice
  /\ \/ slice = "forming" /\ Forming
     \/ slice = "writing" /\ Writing
MCSpec == MCInit /\ [][MCNext]_mcVars
=============================================================================
