------------------------------ MODULE MCEstate ------------------------------
(* A small instance of Estate for TLC. *)
EXTENDS Estate, TLC

CONSTANTS ann, bob, cat

ThreePeople == {ann, bob, cat}

IdSymmetry == Permutations(Ids)

-----------------------------------------------------------------------------
(* Three slices.  In one the people govern: they set the estate up, sign     *)
(* agreements and hand the role around, and whoever signed in by a link      *)
(* stays so.  In another they come and go, by link and by passphrase, while  *)
(* the role is handed around; nobody signs an agreement or names the estate. *)
(* In the third their rights are patched too, and nobody signs.              *)

VARIABLE slice
mcVars == <<estateVars, slice>>

Governing ==
  \/ RosterNext \/ PhaseNext \/ SeatNext
  \/ \E p \in Ids \ devices : IssueToken(p) \/ RedeemToken(p)

SigningIn ==
  \/ LinkNext \/ PassphraseNext \/ RosterNext
  \/ \E a \in Ids : StartSession(a) \/ \E drafts \in BOOLEAN : CreateWelcome(a, drafts)

Patching ==
  \/ RosterNext \/ RightsNext
  \/ \E p \in Ids : \/ StartSession(p) \/ TrusteeTakeOver(p) \/ TrusteeHandBack(p)
                    \/ \E drafts \in BOOLEAN : CreateWelcome(p, drafts)
  \/ \E p \in Ids \ devices : IssueToken(p) \/ RedeemToken(p)

MCInit == EstateInit /\ slice \in {"governing", "signing", "patching"}
MCNext ==
  /\ UNCHANGED slice
  /\ \/ slice = "governing" /\ Governing
     \/ slice = "signing" /\ SigningIn
     \/ slice = "patching" /\ Patching
MCSpec == MCInit /\ [][MCNext]_mcVars
=============================================================================
