----------------------------- MODULE MCDelivery -----------------------------
(* A small instance of Addendum and Delivery for TLC. *)
EXTENDS Delivery, TLC

CONSTANTS clock, dora, eve, ann, tom, box, crate

OneItem     == {clock}
TwoHeirs    == {dora, eve}
OneOwner    == {ann}
OneTrustee  == {tom}
TwoPackages == {box, crate}

DeliverySymmetry == Permutations(Persons) \cup Permutations(Packages)

-----------------------------------------------------------------------------
(* Two slices.  In one the owner signs and exports while the inventory and   *)
(* the lists change.  In the other packages are prepared, sent and fetched   *)
(* while the inventory changes, seen and unseen, and nobody signs or inherits. *)

VARIABLE slice
mcVars == <<packageVars, slice>>

Signing == ((PeopleNext \/ RowNext \/ SigningNext) /\ UNCHANGED deliveryVars) \/ ExportNext

Packing ==
  \/ (RowNext \/ UnseenNext \/ \E t \in Trustees : AddTrustee(t) \/ RemoveTrustee(t))
     /\ UNCHANGED deliveryVars
  \/ ExportNext \/ PackageNext

MCInit == DeliveryInit /\ slice \in {"signing", "packing"}
MCNext ==
  /\ UNCHANGED slice
  /\ \/ slice = "signing" /\ Signing
     \/ slice = "packing" /\ Packing
MCSpec == MCInit /\ [][MCNext]_mcVars
=============================================================================
