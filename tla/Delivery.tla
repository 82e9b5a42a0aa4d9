------------------------------ MODULE Delivery ------------------------------
(***************************************************************************)
(* Packages for the trustee: a package is prepared, its owner confirms and *)
(* it is mailed, attached or as a link.  While the mail server has it,     *)
(* other requests run: send reads the row before the mail and writes it    *)
(* after.  The same bundle writer serves the direct download for FairPlay. *)
(*                                                                         *)
(* Left out: sizes, checksums, the cover packet, the list of recipients.   *)
(***************************************************************************)
EXTENDS Addendum

CONSTANTS
  Packages,     \* rows of deliveries
  MaxSends      \* bound on the sends of one package that wait for the mail server

ASSUME DeliveryAssumption == MaxSends \in Nat

VARIABLES
  deliveries,   \* deliveries
  sending,      \* sends that wait for the mail server
  mailed,       \* packages the mail server took
  carried       \* memoranda in the bundles written so far

deliveryVars == <<deliveries, sending, mailed, carried>>
packageVars  == <<addendumVars, deliveryVars>>

States  == {"none", "prepared", "sent", "failed", "downloaded"}
Methods == {"email_attachment", "email_link", "expired_link"}

DeliveryTypeOK ==
  /\ AddendumTypeOK
  /\ deliveries \in [Packages -> [state : States, method : Methods]]
  /\ sending \in [Packages -> 0..MaxSends]
  /\ mailed \subseteq Packages
  /\ carried \subseteq Owners \X Nat

DeliveryInit ==
  /\ AddendumInit
  /\ deliveries = [d \in Packages |-> [state |-> "none", method |-> "email_attachment"]]
  /\ sending = [d \in Packages |-> 0]
  /\ mailed = {} /\ carried = {}

-----------------------------------------------------------------------------
(* The bundle writer marks what it packed, and carries the frozen memoranda  *)
(* when its caller hands them over.                                          *)

\* Mutant: memoranda that can still change travel too.
ListSigned == {<<o, LatestOf(o)>> : o \in {p \in Owners : versions[p] # <<>>}}
ListFrozen == {<<o, LatestOf(o)>> : o \in {p \in Owners : Frozen(p)}}

Written == {i \in Items : items[i].review # "absent"}

Pack(i) == [content |-> items[i].content, other |-> items[i].other]

WriteBundle(chosen, memoranda) ==
  /\ items' = [i \in Items |-> IF i \in chosen THEN [items[i] EXCEPT !.exported = "exported"]
                               ELSE items[i]]
  /\ shipped' = [i \in Items |-> IF i \in chosen THEN Pack(i) ELSE shipped[i]]
  /\ carried' = carried \cup memoranda
  /\ UNCHANGED <<heirs, trustees, versions, bundles>>

\* The download for FairPlay, and the table of the same items: the kept ones,
\* or those of the review state the request asks for.
ExportBundle(review) ==
  /\ WriteBundle(Reviewed(review), ListFrozen)
  /\ UNCHANGED <<deliveries, sending, mailed>>

\* The mailed package is written without the memoranda.  It holds the kept items,
\* or those the request asks for; an empty one is refused.
Prepare(d, method, chosen) ==
  /\ deliveries[d].state = "none"
  /\ trustees # {}
  /\ chosen # {}
  /\ WriteBundle(chosen, {})
  /\ deliveries' = [deliveries EXCEPT ![d] = [state |-> "prepared", method |-> method]]
  /\ UNCHANGED <<sending, mailed>>

-----------------------------------------------------------------------------
(* Sending *)

SendBegin(d) ==
  /\ deliveries[d].state \in {"prepared", "failed", "downloaded"}
  /\ sending[d] < MaxSends
  /\ sending' = [sending EXCEPT ![d] = @ + 1]
  /\ UNCHANGED <<addendumVars, deliveries, mailed, carried>>

\* Mutant: an answer that nobody waits for is handled like any other.
SendAcceptedTwice(d) ==
  /\ deliveries[d].state # "none"
  /\ sending' = [sending EXCEPT ![d] = @ - 1]
  /\ mailed' = mailed \cup {d}
  /\ deliveries' = [deliveries EXCEPT ![d].state = "sent"]
  /\ UNCHANGED <<addendumVars, carried>>
\* The mail server takes the mail; the answer arrives with it.
SendAccepted(d) ==
  /\ sending[d] > 0
  /\ sending' = [sending EXCEPT ![d] = @ - 1]
  /\ mailed' = mailed \cup {d}
  /\ deliveries' = [deliveries EXCEPT ![d].state = "sent"]
  /\ UNCHANGED <<addendumVars, carried>>

\* It refuses.  Another send of the same package may have got through.
SendRefused(d) ==
  /\ sending[d] > 0
  /\ sending' = [sending EXCEPT ![d] = @ - 1]
  /\ deliveries' = [deliveries EXCEPT ![d].state = "failed"]
  /\ UNCHANGED <<addendumVars, mailed, carried>>

\* Mutant: any package that can be fetched counts as downloaded.
ResolveLinkAny(d) ==
  /\ deliveries[d].method = "email_link" /\ deliveries[d].state # "none"
  /\ deliveries' = [deliveries EXCEPT ![d].state = "downloaded"]
  /\ UNCHANGED <<addendumVars, sending, mailed, carried>>
\* Whoever holds the link fetches the file; only a sent package is marked.
ResolveLink(d) ==
  /\ deliveries[d].method = "email_link" /\ deliveries[d].state = "sent"
  /\ deliveries' = [deliveries EXCEPT ![d].state = "downloaded"]
  /\ UNCHANGED <<addendumVars, sending, mailed, carried>>

PackageLinkExpires(d) ==
  /\ deliveries[d].method = "email_link" /\ deliveries[d].state # "none"
  /\ deliveries' = [deliveries EXCEPT ![d].method = "expired_link"]
  /\ UNCHANGED <<addendumVars, sending, mailed, carried>>

\* The process stops: nobody will write what became of the mails under way.
Stop ==
  /\ \E taken \in SUBSET {d \in Packages : sending[d] > 0} : mailed' = mailed \cup taken
  /\ sending' = [d \in Packages |-> 0]
  /\ UNCHANGED <<addendumVars, deliveries, carried>>

ExportNext == \E review \in Reviews \ {"absent"} : ExportBundle(review)

PackageNext ==
  \/ \E d \in Packages :
       \/ \E method \in {"email_attachment", "email_link"}, chosen \in SUBSET Written :
            Prepare(d, method, chosen)
       \/ SendBegin(d) \/ SendAccepted(d) \/ SendRefused(d)
       \/ ResolveLink(d) \/ PackageLinkExpires(d)
  \/ Stop

DeliveryNext == (AddendumNext /\ UNCHANGED deliveryVars) \/ ExportNext \/ PackageNext

DeliverySpec == DeliveryInit /\ [][DeliveryNext]_packageVars

-----------------------------------------------------------------------------
(* Properties *)

\* A package that reads as sent or fetched was taken by the mail server: what
\* the owner is told has been delivered has left the house.
SentMeansMailed ==
  \A d \in Packages : deliveries[d].state \in {"sent", "downloaded"} => d \in mailed

\* Every memorandum that ever travelled to FairPlay is the last its owner
\* signed, then and for good.
CarriedIsFinal ==
  \A m \in carried : versions[m[1]] # <<>> /\ m[2] = LatestOf(m[1]) /\ Frozen(m[1])

\* An item the bundle writer marked as exported still has the title, the story,
\* the value and the rest of the content it was packed with, through reviews,
\* assignments, overlapping packages and a new row in its place.  Of the hint,
\* the owner's mark and the photos nothing of the kind can be said.
ExportedIsCurrent ==
  \A i \in Items : items[i].exported = "exported" =>
    shipped[i] # Unshipped /\ shipped[i].content = items[i].content
=============================================================================
