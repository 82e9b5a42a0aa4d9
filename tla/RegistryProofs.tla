--------------------------- MODULE RegistryProofs ---------------------------
(* Proofs about Household and Memorandum, for any people, things and bounds. *)
EXTENDS Memorandum, TLAPS, FiniteSetTheorems, SequenceTheorems

-----------------------------------------------------------------------------
(* The roles *)

People == [role : Roles, status : {"none", "invited", "active"}]

\* The ladder: an owner stands above a partner, above an assistant, above an
\* invitation.
LEMMA Ladder ==
  /\ \A role \in Roles : Rank(role) \in Nat
  /\ Rank("owner") = 4 /\ Rank("partner") = 3 /\ Rank("assistant") = 2
  /\ Rank("invited") = 1 /\ Rank("invited-assistant") = 0 /\ Rank("trustee") = 0
  BY DEF Rank, Roles

\* What a write of a participant does to the others: nothing; and to the
\* person: a role no lower than before, and the status that was written.
LEMMA UpsertRises ==
  ASSUME HouseholdTypeOK, NEW e \in Emails, NEW role \in Roles \ {"none"},
         NEW status \in {"invited", "active"}, UpsertByEmail(e, role, status)
  PROVE  /\ people' \in [Emails -> People] /\ roster' \in Seq(Emails)
         /\ \A d \in Emails \ {e} : people'[d] = people[d]
         /\ people'[e].status = status
         /\ people'[e].role \in {role, people[e].role} \ {"none"}
         /\ people[e].role # "none" => Rank(people'[e].role) >= Rank(people[e].role)
<1> DEFINE next == IF people[e].role = "none" \/ Rank(role) > Rank(people[e].role)
                   THEN role ELSE people[e].role
<1>1. people \in [Emails -> People] /\ people[e].role \in Roles
  BY DEF HouseholdTypeOK, People
<1>2. people' = [people EXCEPT ![e] = [role |-> next, status |-> status]]
  BY DEF UpsertByEmail
<1>3. next \in {role, people[e].role} \ {"none"} /\ next \in Roles
  BY <1>1
<1>4. people[e].role # "none" => Rank(next) >= Rank(people[e].role)
  <2>1. CASE next = people[e].role
    BY <1>1, <2>1, Ladder
  <2>2. CASE next = role /\ people[e].role # "none" /\ next # people[e].role
    <3>1. Rank(role) > Rank(people[e].role)
      BY <2>2
    <3>2. Rank(role) \in Nat /\ Rank(people[e].role) \in Nat
      BY <1>1, Ladder
    <3>3. QED BY <2>2, <3>1, <3>2
  <2>3. QED BY <1>3, <2>1, <2>2
<1> HIDE DEF next
<1>5. [role |-> next, status |-> status] \in People
  BY <1>3 DEF People
<1>6. /\ people' \in [Emails -> People]
      /\ people'[e] = [role |-> next, status |-> status]
      /\ \A d \in Emails \ {e} : people'[d] = people[d]
  BY <1>1, <1>2, <1>5
<1>7. roster' \in Seq(Emails)
  BY AppendProperties DEF UpsertByEmail, HouseholdTypeOK
<1>8. people'[e].status = status /\ people'[e].role = next
  BY <1>6
<1>9. QED BY <1>3, <1>4, <1>6, <1>7, <1>8

-----------------------------------------------------------------------------
(* The kinds of steps of a household *)

\* A link is followed: it is used up, and somebody may come in.
Enters(e) == \E k \in Purposes : VerifyLink(e, k)

\* What becomes of the people on file and of their sessions, whatever the step.
PeopleStand == UNCHANGED peopleVars /\ \A e \in Emails : sessions'[e] > 0 => sessions[e] > 0
OwnerComes(e) ==
  /\ IsBootstrapMode /\ people[e].role = "none"
  /\ UpsertByEmail(e, "owner", "active") /\ StartSession(e)
GuestComes(e) ==
  \E role \in Offered :
    /\ UpsertByEmail(e, role, "active") /\ StartSession(e)
    /\ role = "owner" => e \in ownerInvites
KnownComes(e) == people[e].role # "none" /\ StartSession(e) /\ UNCHANGED peopleVars
NameStored(e) ==
  /\ people[e].role = "none"
  /\ \E role \in {"invited", "invited-assistant"} : UpsertByEmail(e, role, "invited")
  /\ UNCHANGED sessions

PeopleMove(e) ==
  /\ OwnerComes(e) \/ GuestComes(e) \/ KnownComes(e) \/ NameStored(e)
  /\ UNCHANGED ownerInvites

\* An open link that invites an owner is on record.
OwnerLinksKnown == \A e \in Emails : links[e]["owner"] > 0 => e \in ownerInvites

\* What is on record stays there.
LEMMA OwnerLinksStay ==
  ASSUME HouseholdTypeOK, OwnerLinksKnown, [HouseholdNext]_householdVars
  PROVE  OwnerLinksKnown' /\ ownerInvites \subseteq ownerInvites' /\ ownerInvites' \subseteq Emails
<1> USE DEF HouseholdTypeOK, OwnerLinksKnown
<1>1. "owner" \in Purposes /\ Invitees \subseteq Purposes
  BY DEF Purposes, Offered
<1>2. \A e \in Emails, k \in Purposes : links[e] \in [Purposes -> Nat] /\ links[e][k] \in Nat
  OBVIOUS
<1> DEFINE Goal ==
      OwnerLinksKnown' /\ ownerInvites \subseteq ownerInvites' /\ ownerInvites' \subseteq Emails
<1>3. ASSUME NEW e \in Emails, NEW k \in Purposes, Issue(e, k) PROVE Goal
  <2>1. \A d \in Emails : d # e \/ k # "owner" => links'[d]["owner"] = links[d]["owner"]
    BY <1>1, <1>2, <1>3 DEF Issue
  <2>2. k = "owner" => e \in ownerInvites'
    BY <1>3 DEF Issue
  <2>3. ownerInvites \subseteq ownerInvites' /\ ownerInvites' \subseteq Emails
    BY <1>3 DEF Issue
  <2>4. QED BY <2>1, <2>2, <2>3
<1>4. ASSUME NEW e \in Emails, NEW k \in Purposes, Consume(e, k), UNCHANGED ownerInvites
      PROVE  Goal
  <2>1. \A d \in Emails : links'[d]["owner"] \in {links[d]["owner"], links[d]["owner"] - 1}
    BY <1>1, <1>2, <1>4 DEF Consume
  <2>2. ASSUME NEW d \in Emails, links'[d]["owner"] > 0 PROVE d \in ownerInvites'
    <3>1. links[d]["owner"] \in Nat
      BY <1>1, <1>2
    <3>2. links'[d]["owner"] = links[d]["owner"] \/ links'[d]["owner"] = links[d]["owner"] - 1
      BY <2>1
    <3>3. links[d]["owner"] > 0
      BY ONLY <2>2, <3>1, <3>2
    <3>4. QED BY <1>4, <3>3
  <2>3. QED BY <1>4, <2>2
<1>5. CASE UNCHANGED mailVars
  BY <1>5 DEF mailVars
<1> HIDE DEF Goal
<1>6. QED BY <1>1, <1>3, <1>4, <1>5 DEF HouseholdNext, householdVars, RequestLink, VerifyLink,
          LinkExpires, SessionEnds, InviteBegin, InviteEnd, InviteLost, Confirm, Unlink, Goal

\* A step either leaves the people standing or is one of the moves above, of one person.
LEMMA PeopleSteps ==
  ASSUME HouseholdTypeOK, OwnerLinksKnown, [HouseholdNext]_householdVars
  PROVE  PeopleStand \/ \E e \in Emails : PeopleMove(e) /\ UNCHANGED modeVars
<1>1. ASSUME NEW e \in Emails, NEW k \in Purposes, RequestLink(e, k) PROVE PeopleStand
  BY <1>1 DEF RequestLink, PeopleStand
<1>2. ASSUME NEW e \in Emails, NEW k \in Purposes, VerifyLink(e, k)
      PROVE  (PeopleStand \/ PeopleMove(e)) /\ UNCHANGED modeVars
  <2>1. CASE k = "signin"
    BY <1>2, <2>1 DEF VerifyLink, VerifySignIn, PeopleStand, PeopleMove, OwnerComes, KnownComes
  <2>2. CASE k \in Offered /\ k # "signin"
    <3>1. k = "owner" => e \in ownerInvites
      BY <1>2 DEF VerifyLink, Consume, OwnerLinksKnown
    <3>2. QED BY <1>2, <2>2, <3>1 DEF VerifyLink, PeopleMove, GuestComes
  <2>3. QED BY <2>1, <2>2 DEF Purposes, Offered, Invitees
<1>3. ASSUME NEW e \in Emails, NEW k \in Purposes, LinkExpires(e, k) PROVE PeopleStand
  BY <1>3 DEF LinkExpires, PeopleStand
<1>4. ASSUME NEW e \in Emails, SessionEnds(e) PROVE PeopleStand
  BY <1>4 DEF SessionEnds, PeopleStand, HouseholdTypeOK
<1>5. ASSUME NEW e \in Emails, NEW p \in Actors, NEW role \in Invitees, NEW named \in BOOLEAN,
             InviteBegin(p, e, role, named)
      PROVE  PeopleStand
  BY <1>5 DEF InviteBegin, PeopleStand
<1>6. ASSUME NEW e \in Emails, Confirm(e) PROVE PeopleStand
  BY <1>6 DEF Confirm, PeopleStand
<1>7. ASSUME NEW inv \in inviting, InviteEnd(inv)
      PROVE  PeopleStand \/ \E e \in Emails : PeopleMove(e) /\ UNCHANGED modeVars
  <2>1. inv.email \in Emails
    BY DEF HouseholdTypeOK
  <2>2. CASE people[inv.email].role = "none"
    BY <1>7, <2>1, <2>2 DEF InviteEnd, PlaceholderRole, PeopleMove, NameStored, mailVars
  <2>3. CASE people[inv.email].role # "none"
    BY <1>7, <2>3 DEF InviteEnd, PeopleStand
  <2>4. QED BY <2>2, <2>3
<1>8. ASSUME NEW inv \in inviting, InviteLost(inv) PROVE PeopleStand
  BY <1>8 DEF InviteLost, PeopleStand
<1>9. ASSUME NEW p \in Actors, Unlink(p) PROVE PeopleStand
  BY <1>9 DEF Unlink, PeopleStand
<1>10. CASE UNCHANGED householdVars
  BY <1>10 DEF householdVars, PeopleStand
<1>11. QED BY <1>1, <1>2, <1>3, <1>4, <1>5, <1>6, <1>7, <1>8, <1>9, <1>10 DEF HouseholdNext

-----------------------------------------------------------------------------
(* Types *)

LEMMA MailTypes ==
  ASSUME HouseholdTypeOK, [HouseholdNext]_householdVars
  PROVE  /\ links' \in [Emails -> [Purposes -> Nat]]
         /\ issued' \in [Emails -> 0..MaxLinks]
<1> USE DEF HouseholdTypeOK
<1>0. /\ MaxLinks \in Nat
      /\ \A e \in Emails : links[e] \in [Purposes -> Nat] /\ issued[e] \in 0..MaxLinks
  BY LinksAssumption
<1>1. ASSUME NEW e \in Emails, NEW k \in Purposes, Issue(e, k)
      PROVE  /\ links' \in [Emails -> [Purposes -> Nat]]
             /\ issued' \in [Emails -> 0..MaxLinks]
  BY <1>0, <1>1 DEF Issue
<1>2. ASSUME NEW e \in Emails, NEW k \in Purposes, Consume(e, k), issued' = issued
      PROVE  /\ links' \in [Emails -> [Purposes -> Nat]]
             /\ issued' \in [Emails -> 0..MaxLinks]
  BY <1>0, <1>2 DEF Consume
<1>3. ASSUME NEW e \in Emails, NEW k \in Purposes, VerifyLink(e, k) \/ LinkExpires(e, k)
      PROVE  Consume(e, k) /\ issued' = issued
  BY <1>3 DEF VerifyLink, LinkExpires
<1>4. ASSUME NEW e \in Emails, NEW p \in Actors, NEW role \in Invitees, NEW named \in BOOLEAN,
             InviteBegin(p, e, role, named)
      PROVE  Issue(e, role)
  BY <1>4 DEF InviteBegin
<1>5. Invitees \subseteq Purposes
  BY DEF Purposes, Offered
<1>6. ASSUME NEW e \in Emails, NEW k \in Purposes, RequestLink(e, k) PROVE Issue(e, k)
  BY <1>6 DEF RequestLink
<1>7. CASE UNCHANGED mailVars
  BY <1>7 DEF mailVars
<1>8. QED BY <1>1, <1>2, <1>3, <1>4, <1>5, <1>6, <1>7
          DEF HouseholdNext, householdVars, SessionEnds, Confirm, InviteEnd, InviteLost, Unlink

\* Invitations, sessions and mail keep the types of everything but the people.
LEMMA OtherTypes ==
  ASSUME HouseholdTypeOK, [HouseholdNext]_householdVars
  PROVE  /\ inviting' \subseteq [email : Emails, role : Invitees]
         /\ mode' \in {"solo", "couple"}
         /\ linkedBy' \in Emails \cup {Nobody}
         /\ sessions' \in [Emails -> Nat]
<1> USE DEF HouseholdTypeOK
<1>1. ASSUME NEW e \in Emails, NEW k \in Purposes, VerifyLink(e, k)
      PROVE  /\ UNCHANGED <<inviting, modeVars>>
             /\ sessions' \in [Emails -> Nat]
  <2>1. StartSession(e) => sessions' \in [Emails -> Nat]
    BY DEF StartSession
  <2>2. StartSession(e) \/ sessions' = sessions
    BY <1>1 DEF VerifyLink, VerifySignIn
  <2>3. UNCHANGED <<inviting, modeVars>>
    BY <1>1 DEF VerifyLink
  <2>4. QED BY <2>1, <2>2, <2>3
<1>2. ASSUME NEW e \in Emails, SessionEnds(e)
      PROVE  /\ UNCHANGED <<inviting, modeVars>>
             /\ sessions' \in [Emails -> Nat]
  BY <1>2 DEF SessionEnds
<1>3. ASSUME NEW e \in Emails, NEW p \in Actors, NEW role \in Invitees, NEW named \in BOOLEAN,
             InviteBegin(p, e, role, named)
      PROVE  /\ UNCHANGED <<sessions, modeVars>>
             /\ inviting' \subseteq [email : Emails, role : Invitees]
  BY <1>3 DEF InviteBegin
<1>4. ASSUME NEW inv \in inviting, InviteEnd(inv) \/ InviteLost(inv)
      PROVE  /\ UNCHANGED <<sessions, modeVars>>
             /\ inviting' \subseteq [email : Emails, role : Invitees]
  BY <1>4 DEF InviteEnd, InviteLost
<1>5. ASSUME NEW e \in Emails, NEW p \in Actors, Confirm(e) \/ Unlink(p)
      PROVE  /\ UNCHANGED <<sessions, inviting>>
             /\ mode' \in {"solo", "couple"}
             /\ linkedBy' \in Emails \cup {Nobody}
  BY <1>5 DEF Confirm, Unlink
<1>6. ASSUME NEW e \in Emails, NEW k \in Purposes, RequestLink(e, k) \/ LinkExpires(e, k)
      PROVE  UNCHANGED <<sessions, inviting, modeVars>>
  BY <1>6 DEF RequestLink, LinkExpires
<1>7. CASE \E e \in Emails :
             \/ SessionEnds(e) \/ Confirm(e)
             \/ \E k \in Purposes : RequestLink(e, k) \/ VerifyLink(e, k) \/ LinkExpires(e, k)
  BY <1>1, <1>2, <1>5, <1>6, <1>7 DEF modeVars, Purposes, Actors
<1>8. CASE \E e \in Emails, p \in Actors, role \in Invitees, named \in BOOLEAN :
             InviteBegin(p, e, role, named)
  BY <1>3, <1>8 DEF modeVars
<1>9. CASE \E inv \in inviting : InviteEnd(inv) \/ InviteLost(inv)
  BY <1>4, <1>9 DEF modeVars
<1>10. CASE \E p \in Actors : Unlink(p)
  BY <1>10 DEF Unlink
<1>11. CASE UNCHANGED householdVars
  BY <1>11 DEF householdVars, modeVars
<1>12. QED BY <1>7, <1>8, <1>9, <1>10, <1>11 DEF HouseholdNext

\* The people keep their type.
LEMMA PeopleTypes ==
  ASSUME HouseholdTypeOK, OwnerLinksKnown, [HouseholdNext]_householdVars
  PROVE  people' \in [Emails -> People] /\ roster' \in Seq(Emails)
<1>1. ASSUME NEW e \in Emails, PeopleMove(e)
      PROVE  people' \in [Emails -> People] /\ roster' \in Seq(Emails)
  BY <1>1, UpsertRises DEF PeopleMove, OwnerComes, GuestComes, KnownComes, NameStored, peopleVars,
     HouseholdTypeOK, People, Roles, Offered, Invitees
<1>2. QED BY <1>1, PeopleSteps DEF PeopleStand, peopleVars, HouseholdTypeOK, People

\* The household keeps its type.
LEMMA HouseholdTypes ==
  ASSUME HouseholdTypeOK, OwnerLinksKnown, [HouseholdNext]_householdVars
  PROVE  HouseholdTypeOK'
  BY PeopleTypes, MailTypes, OtherTypes, OwnerLinksStay DEF HouseholdTypeOK, People

-----------------------------------------------------------------------------
(* People and their standing *)

\* Nobody is active, or signed in, who is not on file; an owner is active.
OnFile ==
  \A e \in Emails :
    /\ people[e].role = "none" => people[e].status # "active" /\ sessions[e] = 0
    /\ people[e].role = "owner" => people[e].status = "active"

\* A person who moves keeps what they had.
LEMMA MoveRises ==
  ASSUME HouseholdTypeOK, OnFile, NEW e \in Emails, PeopleMove(e)
  PROVE  /\ \A d \in Emails \ {e} : people'[d] = people[d] /\ sessions'[d] = sessions[d]
         /\ people'[e].role # "none"
         /\ people[e].role # "none" => Rank(people'[e].role) >= Rank(people[e].role)
         /\ people[e].status = "active" => people'[e].status = "active"
         /\ people'[e].role = "owner" =>
              \/ people[e].role = "owner" \/ e \in ownerInvites
              \/ people[e].role = "none" /\ IsBootstrapMode
         /\ people'[e].role = "owner" => people'[e].status = "active"
<1>1. people[e].role \in Roles /\ Rank(people[e].role) \in Nat
  BY Ladder DEF HouseholdTypeOK
<1>2. CASE KnownComes(e)
  BY <1>1, <1>2 DEF KnownComes, StartSession, peopleVars, HouseholdTypeOK, OnFile
<1>3. CASE OwnerComes(e)
  BY <1>3, UpsertRises DEF OwnerComes, StartSession, HouseholdTypeOK, Roles
<1>4. CASE GuestComes(e)
  BY <1>4, UpsertRises DEF GuestComes, StartSession, HouseholdTypeOK, Roles, Offered, Invitees
<1>5. CASE NameStored(e)
  BY <1>5, UpsertRises DEF NameStored, OnFile, Roles
<1>6. QED BY <1>2, <1>3, <1>4, <1>5 DEF PeopleMove

\* Whoever a link, a session or an invitation names stays on file.
LEMMA OnFileStays ==
  ASSUME HouseholdTypeOK, OwnerLinksKnown, OnFile, [HouseholdNext]_householdVars
  PROVE  OnFile'
<1>1. CASE PeopleStand
  <2>1. \A e \in Emails : sessions[e] = 0 => sessions'[e] = 0
    <3>1. \A e \in Emails : sessions'[e] \in Nat /\ sessions[e] \in Nat
      BY OtherTypes DEF HouseholdTypeOK
    <3>2. QED BY <1>1, <3>1 DEF PeopleStand
  <2>2. QED BY <1>1, <2>1 DEF PeopleStand, peopleVars, OnFile
<1>2. ASSUME NEW e \in Emails, PeopleMove(e) PROVE OnFile'
  BY <1>2, MoveRises DEF OnFile
<1>3. QED BY <1>1, <1>2, PeopleSteps

\* No step makes a second owner whom no invitation named: signing in makes one in
\* bootstrap mode alone.
LEMMA OneOwnerStays ==
  ASSUME HouseholdTypeOK, OwnerLinksKnown, OnFile, OneOwnerBySignIn,
         [HouseholdNext]_householdVars
  PROVE  OneOwnerBySignIn'
<1>1. CASE PeopleStand
  BY <1>1, OwnerLinksStay DEF PeopleStand, peopleVars, OneOwnerBySignIn, Owners, Holding
<1>2. ASSUME NEW e \in Emails, PeopleMove(e) PROVE OneOwnerBySignIn'
  <2>0. /\ ownerInvites' = ownerInvites /\ Owners \subseteq Emails /\ Owners' \subseteq Emails
        /\ Owners' \ {e} \subseteq Owners
    BY <1>2, MoveRises DEF PeopleMove, Owners, Holding
  <2>1. CASE e \in ownerInvites
    BY <2>0, <2>1 DEF OneOwnerBySignIn
  <2>2. CASE e \in Owners
    BY <2>0, <2>2 DEF OneOwnerBySignIn
  <2>3. CASE e \notin Owners' \ {e} /\ IsBootstrapMode
    <3>1. Owners = {}
      BY <2>3 DEF IsBootstrapMode, Owners, Holding
    <3>2. QED BY <2>0, <3>1 DEF OneOwnerBySignIn
  <2>4. CASE e \notin Owners'
    BY <2>0, <2>4 DEF OneOwnerBySignIn
  <2>5. QED
    <3>1. people'[e].role = "owner" /\ people[e].role = "owner" => e \in Owners
      BY DEF Owners, Holding, OnFile
    <3>2. e \in Owners' => people'[e].role = "owner"
      BY DEF Owners, Holding
    <3>3. QED BY <1>2, <2>1, <2>2, <2>3, <2>4, <3>1, <3>2, MoveRises
<1>3. QED BY <1>1, <1>2, PeopleSteps

\* The partner of a couple, or whom an invitation raised above a partner.
PartnerIn == PartnerPresent \/ Owners \cap ownerInvites # {}

\* No move of a person takes the active partner away, but an invitation may make
\* an owner of the partner.
LEMMA PartnerStays ==
  ASSUME HouseholdTypeOK, OnFile, NEW e \in Emails, PeopleMove(e), PartnerIn
  PROVE  PartnerIn'
<1>0. /\ people' \in [Emails -> People]
      /\ \A d \in Emails : /\ people[d].role \in Roles /\ people'[d].role \in Roles
                           /\ people[d].status = "active" => people'[d].status = "active"
                           /\ people[d].role # "none" =>
                                Rank(people'[d].role) >= Rank(people[d].role)
  <2>1. people' \in [Emails -> People]
    BY UpsertRises DEF PeopleMove, OwnerComes, GuestComes, KnownComes, NameStored, peopleVars,
       HouseholdTypeOK, People, Roles, Offered, Invitees
  <2>2. \A d \in Emails : Rank(people[d].role) \in Nat
    BY Ladder DEF HouseholdTypeOK
  <2>3. \A d \in Emails : people[d].role \in Roles /\ people'[d].role \in Roles
    BY <2>1 DEF HouseholdTypeOK, People
  <2>4. ASSUME NEW d \in Emails
        PROVE  /\ people[d].status = "active" => people'[d].status = "active"
               /\ people[d].role # "none" => Rank(people'[d].role) >= Rank(people[d].role)
    <3>1. CASE d = e
      BY <3>1, MoveRises
    <3>2. CASE d # e
      BY <2>2, <3>2, MoveRises
    <3>3. QED BY <3>1, <3>2
  <2>5. QED BY <2>1, <2>3, <2>4
<1>1. CASE Owners \cap ownerInvites # {}
  <2>1. PICK q \in Owners : q \in ownerInvites
    BY <1>1
  <2>2. q \in Emails /\ people[q].role = "owner" /\ people[q].status = "active"
    BY DEF Owners, Holding
  <2>3. Rank(people'[q].role) >= 4
    BY <1>0, <2>2, Ladder
  <2>4. people'[q].role = "owner"
    BY <1>0, <2>2, <2>3 DEF Rank, Roles
  <2>5. q \in Owners' /\ q \in ownerInvites'
    BY <1>0, <2>1, <2>2, <2>4 DEF Owners, Holding, PeopleMove
  <2>6. QED BY <2>5 DEF PartnerIn
<1>2. CASE PartnerPresent
  <2>1. PICK q \in Emails : people[q].role = "partner" /\ people[q].status = "active"
    BY <1>2 DEF PartnerPresent, Holding
  <2>2. Rank(people'[q].role) >= 3
    BY <1>0, <2>1, Ladder
  <2>3. people'[q].role \in {"partner", "owner"}
    BY <1>0, <2>2 DEF Rank, Roles
  <2>4. CASE people'[q].role = "partner"
    BY <1>0, <2>1, <2>4 DEF PartnerIn, PartnerPresent, Holding
  <2>5. CASE people'[q].role = "owner"
    <3>1. q \in ownerInvites
      BY <2>1, <2>5, MoveRises
    <3>2. q \in Owners' /\ q \in ownerInvites'
      BY <1>0, <2>1, <2>5, <3>1 DEF Owners, Holding, PeopleMove
    <3>3. QED BY <3>2 DEF PartnerIn
  <2>6. QED BY <2>3, <2>4, <2>5
<1>3. QED BY <1>1, <1>2 DEF PartnerIn

\* A couple was confirmed by somebody.
SomebodyLinked == mode = "couple" => linkedBy \in Emails

\* A couple keeps somebody who linked it and a partner.
LEMMA CoupleStays ==
  ASSUME HouseholdTypeOK, OwnerLinksKnown, OnFile, SomebodyLinked, CoupleHasPartner,
         [HouseholdNext]_householdVars
  PROVE  SomebodyLinked' /\ CoupleHasPartner'
<1>1. CASE PeopleStand
  <2>0. PartnerPresent' = PartnerPresent
    BY <1>1 DEF PeopleStand, peopleVars, PartnerPresent, Holding
  <2>1. PartnerIn => PartnerIn'
    BY <1>1, <2>0, OwnerLinksStay DEF PartnerIn, PeopleStand, peopleVars, Owners, Holding
  <2>2. CASE \E e \in Emails : Confirm(e)
    BY <1>1, <2>0, <2>2 DEF Confirm, OnFile, CoupleHasPartner, SomebodyLinked, PeopleStand, peopleVars,
       HouseholdTypeOK
  <2>3. CASE \E p \in Actors : Unlink(p)
    BY <2>3 DEF Unlink, CoupleHasPartner, SomebodyLinked
  <2>4. CASE UNCHANGED modeVars
    BY <1>1, <2>1, <2>4 DEF CoupleHasPartner, PartnerIn, SomebodyLinked, PeopleStand, peopleVars,
       modeVars
  <2>5. QED BY <2>2, <2>3, <2>4 DEF HouseholdNext, householdVars, RequestLink, VerifyLink,
               LinkExpires, SessionEnds, InviteBegin, InviteEnd, InviteLost
<1>2. ASSUME NEW e \in Emails, PeopleMove(e), UNCHANGED modeVars
      PROVE  SomebodyLinked' /\ CoupleHasPartner'
  <2>1. \A d \in Emails : people[d].role # "none" => people'[d].role # "none"
    BY <1>2, MoveRises
  <2>2. PartnerIn => PartnerIn'
    BY <1>2, PartnerStays
  <2>3. mode = "couple" => linkedBy \in Emails
    BY DEF SomebodyLinked
  <2>4. QED BY <1>2, <2>1, <2>2, <2>3 DEF CoupleHasPartner, PartnerIn, SomebodyLinked, modeVars
<1>3. QED BY <1>1, <1>2, PeopleSteps

-----------------------------------------------------------------------------
(* Links *)

LEMMA SignInsAreCounted ==
  ASSUME HouseholdTypeOK, OwnerLinksKnown, LinksSignInOnce, [HouseholdNext]_householdVars
  PROVE  LinksSignInOnce'
<1> DEFINE Used(e) == sessions[e] + links[e]["signin"] + links[e]["partner"] + links[e]["assistant"]
                        + links[e]["owner"] + links[e]["trustee"]
<1>0. /\ \A e \in Emails : Used(e) <= issued[e]
      /\ Purposes = {"signin", "partner", "assistant", "owner", "trustee"}
      /\ links \in [Emails -> [Purposes -> Nat]] /\ issued \in [Emails -> Nat]
      /\ sessions \in [Emails -> Nat]
  BY LinksAssumption DEF LinksSignInOnce, LinksOpen, HouseholdTypeOK, Purposes, Offered, Invitees
<1>1. \A e \in Emails : /\ links[e]["signin"] \in Nat /\ links[e]["partner"] \in Nat
                        /\ links[e]["assistant"] \in Nat /\ links[e]["owner"] \in Nat
                        /\ links[e]["trustee"] \in Nat
                        /\ sessions[e] \in Nat /\ issued[e] \in Nat
  BY <1>0
<1>2. ASSUME NEW e \in Emails, NEW k \in Purposes, Issue(e, k), sessions' = sessions
      PROVE  \A d \in Emails : Used(d)' <= issued'[d]
  <2>1. /\ \A d \in Emails \ {e} : links'[d] = links[d] /\ issued'[d] = issued[d]
        /\ \A j \in Purposes \ {k} : links'[e][j] = links[e][j]
        /\ links'[e][k] = links[e][k] + 1 /\ issued'[e] = issued[e] + 1
    BY <1>0, <1>2 DEF Issue
  <2>2. Used(e)' <= issued'[e]
    BY <1>0, <1>1, <1>2, <2>1
  <2>3. \A d \in Emails \ {e} : Used(d)' <= issued'[d]
    BY <1>0, <1>1, <1>2, <2>1
  <2>4. QED BY <2>2, <2>3
<1>3. ASSUME NEW e \in Emails, NEW k \in Purposes, Consume(e, k), issued' = issued,
             \/ sessions' = sessions
             \/ StartSession(e)
      PROVE  \A d \in Emails : Used(d)' <= issued'[d]
  <2>1. /\ \A d \in Emails \ {e} : links'[d] = links[d] /\ sessions'[d] = sessions[d]
        /\ \A j \in Purposes \ {k} : links'[e][j] = links[e][j]
        /\ links'[e][k] = links[e][k] - 1
        /\ sessions'[e] \in {sessions[e], sessions[e] + 1}
    BY <1>0, <1>3 DEF Consume, StartSession
  <2>2. Used(e)' <= issued'[e]
    BY <1>0, <1>1, <1>3, <2>1
  <2>3. \A d \in Emails \ {e} : Used(d)' <= issued'[d]
    BY <1>0, <1>1, <1>3, <2>1
  <2>4. QED BY <2>2, <2>3
<1>4. ASSUME NEW e \in Emails, SessionEnds(e)
      PROVE  \A d \in Emails : Used(d)' <= issued'[d]
  <2>1. /\ links' = links /\ issued' = issued
        /\ \A d \in Emails \ {e} : sessions'[d] = sessions[d]
        /\ sessions'[e] = sessions[e] - 1
    BY <1>0, <1>4 DEF SessionEnds, mailVars
  <2>2. QED BY <1>0, <1>1, <2>1
<1>5. ASSUME UNCHANGED <<mailVars, sessions>>
      PROVE  \A d \in Emails : Used(d)' <= issued'[d]
  BY <1>0, <1>5 DEF mailVars
<1>6. ASSUME NEW e \in Emails, NEW k \in Purposes, RequestLink(e, k)
      PROVE  Issue(e, k) /\ sessions' = sessions
  BY <1>6 DEF RequestLink
<1>7. ASSUME NEW e \in Emails, NEW p \in Actors, NEW role \in Invitees, NEW named \in BOOLEAN,
             InviteBegin(p, e, role, named)
      PROVE  role \in Purposes /\ Issue(e, role) /\ sessions' = sessions
  BY <1>7 DEF InviteBegin, Purposes, Offered
<1>8. ASSUME NEW e \in Emails, NEW k \in Purposes, VerifyLink(e, k) \/ LinkExpires(e, k)
      PROVE  Consume(e, k) /\ issued' = issued /\ (sessions' = sessions \/ StartSession(e))
  BY <1>8 DEF VerifyLink, VerifySignIn, LinkExpires
<1>9. UNCHANGED <<mailVars, sessions>> \/ \A d \in Emails : Used(d)' <= issued'[d]
  <2>1. CASE \E e \in Emails, k \in Purposes : RequestLink(e, k)
    BY <1>0, <1>2, <1>6, <2>1
  <2>2. CASE \E e \in Emails, p \in Actors, role \in Invitees, named \in BOOLEAN :
               InviteBegin(p, e, role, named)
    BY <1>2, <1>7, <2>2
  <2>3. CASE \E e \in Emails, k \in Purposes : VerifyLink(e, k) \/ LinkExpires(e, k)
    BY <1>3, <1>8, <2>3
  <2>4. CASE \E e \in Emails : SessionEnds(e)
    BY <1>4, <2>4
  <2>5. CASE \E e \in Emails : Confirm(e)
    BY <2>5 DEF Confirm
  <2>6. CASE \E inv \in inviting : InviteEnd(inv) \/ InviteLost(inv)
    BY <2>6 DEF InviteEnd, InviteLost
  <2>7. CASE \E p \in Actors : Unlink(p)
    BY <2>7 DEF Unlink
  <2>8. CASE UNCHANGED householdVars
    BY <2>8 DEF householdVars
  <2> HIDE DEF Used
  <2>9. QED BY <2>1, <2>2, <2>3, <2>4, <2>5, <2>6, <2>7, <2>8 DEF HouseholdNext
<1>10. \A d \in Emails : Used(d)' <= issued'[d]
  BY <1>5, <1>9
<1>11. HouseholdTypeOK'
  BY HouseholdTypes
<1>12. \A e \in Emails : /\ links'[e]["signin"] \in Nat /\ links'[e]["partner"] \in Nat
                         /\ links'[e]["assistant"] \in Nat /\ links'[e]["owner"] \in Nat
                         /\ links'[e]["trustee"] \in Nat /\ sessions'[e] \in Nat
  BY <1>0, <1>11 DEF HouseholdTypeOK
<1>13. QED BY <1>10, <1>12 DEF LinksSignInOnce, LinksOpen

-----------------------------------------------------------------------------
(* The household in a registry *)

LEMMA HouseholdStarts ==
  ASSUME HouseholdInit
  PROVE  /\ HouseholdTypeOK /\ OwnerLinksKnown /\ OnFile /\ OneOwnerBySignIn
         /\ SomebodyLinked /\ CoupleHasPartner /\ LinksSignInOnce
<1>1. HouseholdTypeOK
  BY LinksAssumption, EmptySeq DEF HouseholdInit, HouseholdTypeOK, Roles
<1>2. OwnerLinksKnown /\ OnFile /\ OneOwnerBySignIn /\ SomebodyLinked /\ CoupleHasPartner
  BY DEF HouseholdInit, OwnerLinksKnown, OnFile, OneOwnerBySignIn, Owners, Holding, SomebodyLinked,
     CoupleHasPartner, Purposes, Offered
<1>3. LinksSignInOnce
  BY DEF HouseholdInit, LinksSignInOnce, LinksOpen, Purposes, Offered, Invitees
<1>4. QED BY <1>1, <1>2, <1>3

\* The lists are written without touching the household.
LEMMA RegistryStep ==
  ASSUME [RegistryNext]_registryVars
  PROVE  [HouseholdNext]_householdVars
  BY DEF RegistryNext, MemorandumNext, registryVars, OpenDraft, UpsertEntry, DeleteEntry, Sign

HouseholdInv ==
  /\ HouseholdTypeOK /\ OwnerLinksKnown /\ OnFile /\ OneOwnerBySignIn
  /\ SomebodyLinked /\ CoupleHasPartner /\ LinksSignInOnce

\* The household half of the registry: typed rows, everybody named on file, one owner at most
\* besides those an invitation named, a couple with its partner, and links used once.
\* Inductive as it stands.
THEOREM HouseholdHolds == RegistrySpec => []HouseholdInv
<1>1. MemorandumInit => HouseholdInv
  BY HouseholdStarts DEF MemorandumInit, HouseholdInv
<1>2. ASSUME HouseholdInv, [RegistryNext]_registryVars PROVE HouseholdInv'
  BY <1>2, RegistryStep, HouseholdTypes, OwnerLinksStay, OnFileStays, OneOwnerStays, CoupleStays,
     SignInsAreCounted DEF HouseholdInv
<1>3. QED BY <1>1, <1>2, PTL DEF RegistrySpec

\* Signing in makes one owner at most, whatever links were open at first: any other was sent an
\* invitation that said so.
THEOREM OneOwnerSignsIn == RegistrySpec => []OneOwnerBySignIn
  BY HouseholdHolds, PTL DEF HouseholdInv

\* A household is a couple only with a partner who has signed in.
THEOREM CouplesAreTwo == RegistrySpec => []CoupleHasPartner
  BY HouseholdHolds, PTL DEF HouseholdInv

\* A link signs in at most once.
THEOREM LinksAreSingleUse == RegistrySpec => []LinksSignInOnce
  BY HouseholdHolds, PTL DEF HouseholdInv

\* Nobody loses standing, whatever invitation is stored late.
THEOREM StandingRises == RegistrySpec => StandingOnlyRises
<1> DEFINE Rises == \A e \in Emails :
             /\ Standing(e) <= Standing(e)'
             /\ people[e].status = "active" => people'[e].status = "active"
<1>1. ASSUME HouseholdInv, HouseholdInv', [RegistryNext]_registryVars PROVE Rises
  <2>0. HouseholdTypeOK /\ OwnerLinksKnown /\ OnFile /\ [HouseholdNext]_householdVars
    BY <1>1, RegistryStep DEF HouseholdInv
  <2>1. \A e \in Emails : people[e].role \in Roles /\ people'[e].role \in Roles
    BY <1>1 DEF HouseholdInv, HouseholdTypeOK
  <2>2. \A e \in Emails : Rank(people[e].role) \in Nat /\ Rank(people'[e].role) \in Nat
    BY <2>1, Ladder
  <2>3. CASE PeopleStand
    BY <2>2, <2>3 DEF PeopleStand, peopleVars, Standing
  <2>4. ASSUME NEW e \in Emails, PeopleMove(e) PROVE Rises
    <3>1. \A d \in Emails \ {e} : people'[d] = people[d]
      BY <2>0, <2>4, MoveRises
    <3>2. \A d \in Emails \ {e} : Standing(d) <= Standing(d)'
      BY <2>2, <3>1 DEF Standing
    <3>3. /\ people'[e].role # "none"
          /\ people[e].role # "none" => Rank(people'[e].role) >= Rank(people[e].role)
          /\ people[e].status = "active" => people'[e].status = "active"
      BY <2>0, <2>4, MoveRises
    <3>4. Standing(e) <= Standing(e)'
      BY <2>2, <3>3 DEF Standing
    <3>5. QED BY <3>1, <3>2, <3>3, <3>4
  <2>5. QED BY <2>0, <2>3, <2>4, PeopleSteps
<1>2. ASSUME HouseholdInv, HouseholdInv', [RegistryNext]_registryVars PROVE [Rises]_householdVars
  BY <1>1, <1>2
<1> HIDE DEF Rises
<1>3. RegistrySpec => [][Rises]_householdVars
  BY <1>2, HouseholdHolds, PTL DEF RegistrySpec
<1>4. QED BY <1>3 DEF StandingOnlyRises, Rises

-----------------------------------------------------------------------------
(* The lists.  The versions a person signed are numbered without a gap, and  *)
(* a draft is the next one: then no write can reach a signed version.        *)

Papers(e) == {s.version : s \in {t \in signings : t.who = e}}

LastPaper(e, k) ==
  /\ Papers(e) = 1..k
  /\ \A r \in entries : r.who = e /\ ~r.signed => r.version = k + 1

Numbered == \A e \in Emails : \E k \in Nat : LastPaper(e, k)

PapersAreFull == \A s \in signings : s.snapshot # {}

MemoInv == MemorandumTypeOK /\ PaperMatchesRecord /\ PapersAreFull /\ Numbered

\* The highest version of no list, of one, and of a run of lists from the first.
LEMMA HighestIs ==
  ASSUME NEW k \in Nat
  PROVE  /\ HighestOf({}) = 0
         /\ HighestOf({k + 1}) = k + 1
         /\ HighestOf(1..k) = k
<1>1. HighestOf({}) = 0
  BY DEF HighestOf
<1>2. HighestOf({k + 1}) = k + 1
  BY DEF HighestOf
<1>3. HighestOf(1..k) = k
  <2>1. CASE k = 0
    BY <1>1, <2>1
  <2>2. CASE k # 0
    <3>1. k \in 1..k /\ \A w \in 1..k : w <= k
      BY <2>2
    <3>2. \A v \in 1..k : (\A w \in 1..k : w <= v) => v = k
      BY <3>1
    <3>3. QED BY <3>1, <3>2 DEF HighestOf
  <2>3. QED BY <2>1, <2>2
<1>4. QED BY <1>1, <1>2, <1>3

\* What the handlers read of a person's list.
LEMMA ListReads ==
  ASSUME MemoInv, NEW e \in Emails, NEW k \in Nat, LastPaper(e, k)
  PROVE  /\ \A r \in entries : r.who = e /\ r.signed => r.version \in 1..k
         /\ \A r \in Rows(e, k + 1) : ~r.signed
         /\ DraftVersion(e) \in {0, k + 1}
         /\ DraftVersion(e) = 0 => \A r \in entries : r.who = e => r.signed
         /\ DraftVersion(e) # 0 => Rows(e, k + 1) # {}
         /\ DraftVersion(e) = 0 => LatestVersion(e) = k
         /\ TargetVersion(e) = k + 1
<1>1. \A r \in entries : r.who = e /\ r.signed => r.version \in 1..k
  BY DEF MemoInv, PaperMatchesRecord, LastPaper, Papers
<1>2. \A r \in Rows(e, k + 1) : ~r.signed
  BY <1>1 DEF Rows
<1> DEFINE drafts == {r.version : r \in {s \in entries : s.who = e /\ ~s.signed}}
<1>3. drafts = {} \/ drafts = {k + 1}
  BY DEF LastPaper
<1>4. DraftVersion(e) = HighestOf(drafts)
  BY DEF DraftVersion
<1>5. CASE drafts = {}
  <2>1. DraftVersion(e) = 0
    BY <1>4, <1>5, HighestIs
  <2>2. \A r \in entries : r.who = e => r.signed
    BY <1>5
  <2>3. {r.version : r \in {s \in entries : s.who = e}} = 1..k
    <3>1. \A r \in entries : r.who = e => r.version \in 1..k
      BY <1>1, <2>2
    <3>2. ASSUME NEW v \in 1..k PROVE \E r \in entries : r.who = e /\ r.version = v
      <4>1. PICK s \in signings : s.who = e /\ s.version = v
        BY <3>2 DEF LastPaper, Papers
      <4>2. Snapshot(Rows(e, v)) # {}
        BY <4>1 DEF MemoInv, PaperMatchesRecord, PapersAreFull
      <4>3. QED BY <4>2 DEF Snapshot, Rows
    <3>3. QED BY <3>1, <3>2
  <2>4. LatestVersion(e) = k
    BY <2>3, HighestIs DEF LatestVersion
  <2>5. QED BY <1>1, <1>2, <2>1, <2>2, <2>4 DEF TargetVersion
<1>6. CASE drafts = {k + 1}
  <2>1. DraftVersion(e) = k + 1
    BY <1>4, <1>6, HighestIs
  <2>2. PICK r \in entries : r.who = e /\ r.version = k + 1
    BY <1>6
  <2>3. QED BY <1>1, <1>2, <2>1, <2>2 DEF Rows, TargetVersion
<1>7. QED BY <1>3, <1>5, <1>6

\* A write that reaches the next version of one list only, and unsigned rows.
DraftOnly(e, k) ==
  /\ signings' = signings
  /\ entries' \subseteq Entry
  /\ \A r \in entries \cup entries' :
       (r \in entries /\ r \in entries') \/ (r.who = e /\ r.version = k + 1 /\ ~r.signed)

\* Opening a draft, writing and deleting entries touch only the unsigned rows above the last
\* paper of the one who does it.
LEMMA DraftSteps ==
  ASSUME MemoInv, NEW e \in Emails, NEW k \in Nat, LastPaper(e, k),
         \/ OpenDraft(e)
         \/ \E i \in Things, h \in Family \cup {Undecided}, star \in BOOLEAN : UpsertEntry(e, i, h, star)
         \/ \E r \in entries : DeleteEntry(e, r)
  PROVE  DraftOnly(e, k)
<1> entries \subseteq Entry /\ MaxVersion \in Nat
  BY MemorandumAssumption DEF MemoInv, MemorandumTypeOK
<1>1. CASE OpenDraft(e)
  <2> DEFINE new == Seeded(Rows(e, LatestVersion(e)))
  <2>1. entries' = entries \cup new /\ signings' = signings
    BY <1>1 DEF OpenDraft
  <2>2. LatestVersion(e) = k /\ k \in 1..MaxVersion - 1
    BY <1>1, ListReads DEF OpenDraft
  <2>3. k \in Nat /\ k + 1 \in Versions
    BY <2>2 DEF Versions
  <2>4. \A r \in Rows(e, k) : r \in Entry /\ r.who = e /\ r.version = k
    BY DEF Rows
  <2>5. \A r \in Rows(e, k) :
          LET n == [r EXCEPT !.version = r.version + 1, !.signed = FALSE, !.star = FALSE]
          IN n \in Entry /\ n.who = e /\ n.version = k + 1 /\ n.signed = FALSE
    BY <2>3, <2>4 DEF Entry
  <2>6. \A n \in new : n \in Entry /\ n.who = e /\ n.version = k + 1 /\ n.signed = FALSE
    BY <2>2, <2>5 DEF Seeded
  <2> HIDE DEF new
  <2>7. QED BY <2>1, <2>6 DEF DraftOnly
<1>2. ASSUME NEW i \in Things, NEW h \in Family \cup {Undecided}, NEW star \in BOOLEAN,
             UpsertEntry(e, i, h, star)
      PROVE  DraftOnly(e, k)
  <2>1. TargetVersion(e) = k + 1 /\ k + 1 <= MaxVersion
    BY <1>2, ListReads DEF UpsertEntry
  <2> DEFINE new == Written(e, k + 1, i, h, star)
  <2>2. /\ signings' = signings
        /\ entries' = {r \in entries : ~(r.who = e /\ r.version = k + 1 /\ r.item = i)} \cup {new}
    BY <1>2, <2>1 DEF UpsertEntry
  <2>3. new \in Entry /\ new.who = e /\ new.version = k + 1 /\ new.signed = FALSE
    BY <2>1 DEF Written, Entry, Versions
  <2>4. \A r \in entries : r.who = e /\ r.version = k + 1 => ~r.signed
    BY ListReads DEF Rows
  <2> HIDE DEF new
  <2>5. QED BY <2>2, <2>3, <2>4 DEF DraftOnly
<1>3. ASSUME NEW r \in entries, DeleteEntry(e, r) PROVE DraftOnly(e, k)
  BY <1>3 DEF DeleteEntry, DraftOnly, LastPaper
<1>4. QED BY <1>1, <1>2, <1>3

\* A paper is filed for every signing, under its number.
LEMMA FiledUnder ==
  /\ \A s \in signings : \E p \in PapersOnFile : p[1] = s.who /\ p[2] = s.version
  /\ \A p \in PapersOnFile : \E s \in signings : p[1] = s.who /\ p[2] = s.version
  /\ \A e : Archive!Numbers(e) = Papers(e)
<1> DEFINE Filed(s) ==
      <<s.who, s.version, {<<r.item, r.heir, r.star, s.conflicts>> : r \in Rows(s.who, s.version)}>>
<1>1. PapersOnFile = {Filed(s) : s \in signings}
  BY DEF PapersOnFile
<1>2. \A s : Filed(s)[1] = s.who /\ Filed(s)[2] = s.version
  OBVIOUS
<1> HIDE DEF Filed
<1>3. /\ \A s \in signings : \E p \in PapersOnFile : p[1] = s.who /\ p[2] = s.version
      /\ \A p \in PapersOnFile : \E s \in signings : p[1] = s.who /\ p[2] = s.version
  BY <1>1, <1>2
<1>4. \A e : Archive!Numbers(e) = Papers(e)
  BY <1>3 DEF Archive!Numbers, Papers
<1>5. QED BY <1>3, <1>4

\* Such a step keeps the invariant and every paper.
LEMMA DraftOnlyKeeps ==
  ASSUME MemoInv, HouseholdTypeOK', NEW e \in Emails, NEW k \in Nat, LastPaper(e, k), DraftOnly(e, k)
  PROVE  MemoInv' /\ PapersOnFile' = PapersOnFile
<1> DEFINE Read(r) == r \in entries /\ r \in entries'
<1>1. \A r \in entries \cup entries' : Read(r) \/ (r.who = e /\ r.version = k + 1 /\ ~r.signed)
  BY DEF DraftOnly
<1>2. signings' = signings /\ entries' \subseteq Entry
  BY DEF DraftOnly
<1>3. \A s \in signings : s.who = e => s.version \in 1..k
  BY DEF LastPaper, Papers
<1>4. \A s \in signings : ~(s.who = e /\ s.version = k + 1)
  BY <1>3
<1>5. \A s \in signings : {r \in entries' : r.who = s.who /\ r.version = s.version} = Rows(s.who, s.version)
  BY <1>1, <1>4 DEF Rows
<1>6. MemorandumTypeOK'
  BY <1>2 DEF MemoInv, MemorandumTypeOK
<1>7. PaperMatchesRecord'
  <2>1. \A s \in signings : Rows(s.who, s.version)' = Rows(s.who, s.version)
    BY <1>5 DEF Rows
  <2>2. \A s \in signings : Snapshot(Rows(s.who, s.version))' = Snapshot(Rows(s.who, s.version))
    BY <2>1 DEF Snapshot
  <2>3. \A r \in entries' : r.signed => r \in entries
    BY <1>1
  <2>4. QED BY <1>2, <2>1, <2>2, <2>3 DEF MemoInv, PaperMatchesRecord
<1>8. PapersAreFull'
  BY <1>2 DEF MemoInv, PapersAreFull
<1>9. ASSUME NEW d \in Emails, NEW n \in Nat, LastPaper(d, n) PROVE \E m \in Nat : LastPaper(d, m)'
  <2>1. Papers(d)' = Papers(d)
    BY <1>2 DEF Papers
  <2>2. CASE d = e
    <3>1. LastPaper(e, k)'
      BY <1>1, <2>1, <2>2 DEF LastPaper
    <3>2. QED BY <2>2, <3>1
  <2>3. CASE d # e
    <3>1. LastPaper(d, n)'
      BY <1>1, <1>9, <2>1, <2>3 DEF LastPaper
    <3>2. QED BY <3>1
  <2>4. QED BY <2>2, <2>3
<1>10. Numbered'
  BY <1>9 DEF MemoInv, Numbered
<1>11. PapersOnFile' = PapersOnFile
  <2>1. \A s \in signings : Rows(s.who, s.version)' = Rows(s.who, s.version)
    BY <1>5 DEF Rows
  <2>2. QED BY <1>2, <2>1 DEF PapersOnFile
<1>12. QED BY <1>6, <1>7, <1>8, <1>10, <1>11 DEF MemoInv

\* A signing turns the draft into the next paper.
LEMMA SignKeeps ==
  ASSUME MemoInv, HouseholdTypeOK', NEW e \in Emails, NEW k \in Nat, LastPaper(e, k), Sign(e)
  PROVE  MemoInv' /\ Archive!Sign
<1> DEFINE draft == Rows(e, k + 1)
           paper == [who |-> e, version |-> k + 1, snapshot |-> Snapshot(draft),
                     conflicts |-> Cardinality(UNION {Conflicts(e, d) : d \in Counterparts(e)})]
           fixed == {[r EXCEPT !.signed = TRUE] : r \in draft}
<1> entries \subseteq Entry
  BY DEF MemoInv, MemorandumTypeOK
<1>1. DraftVersion(e) = k + 1 /\ draft # {} /\ \A r \in draft : ~r.signed
  BY ListReads DEF Sign
<1>2. entries' = (entries \ draft) \cup fixed /\ signings' = signings \cup {paper}
  BY <1>1 DEF Sign
<1>3. \A r \in draft : r \in Entry /\ r.who = e /\ r.version = k + 1
  BY DEF Rows
<1>4. k + 1 \in Versions
  BY <1>1, <1>3 DEF Entry
<1>5. /\ \A n \in fixed : /\ n \in Entry /\ n.who = e /\ n.version = k + 1 /\ n.signed = TRUE
      /\ Snapshot(fixed) = Snapshot(draft)
  <2>1. \A r \in draft : LET n == [r EXCEPT !.signed = TRUE]
                         IN n \in Entry /\ n.who = e /\ n.version = k + 1 /\ n.signed = TRUE
                            /\ n.item = r.item /\ n.heir = r.heir
    BY <1>3 DEF Entry
  <2>2. \A n \in fixed : /\ n \in Entry /\ n.who = e /\ n.version = k + 1 /\ n.signed = TRUE
    BY <2>1
  <2>3. Snapshot(fixed) = Snapshot(draft)
    <3>1. \A r \in draft : \E n \in fixed : n.item = r.item /\ n.heir = r.heir
      BY <2>1
    <3>2. \A n \in fixed : \E r \in draft : n.item = r.item /\ n.heir = r.heir
      BY <2>1
    <3> HIDE DEF fixed, draft
    <3>3. QED BY <3>1, <3>2 DEF Snapshot
  <2>4. QED BY <2>2, <2>3
<1>6. /\ paper.who = e /\ paper.version = k + 1 /\ paper.snapshot = Snapshot(draft)
      /\ paper \in [who : Emails, version : Versions, snapshot : SUBSET (Things \X (Family \cup {Undecided})),
                    conflicts : 0..Cardinality(Things)]
  <2>1. Snapshot(draft) \subseteq Things \X (Family \cup {Undecided})
    BY <1>3 DEF Snapshot, Entry
  <2>2. UNION {Conflicts(e, d) : d \in Counterparts(e)} \subseteq Things
    BY DEF Conflicts
  <2>3. Cardinality(UNION {Conflicts(e, d) : d \in Counterparts(e)}) \in 0..Cardinality(Things)
    BY <2>2, MemorandumAssumption, FS_Subset, FS_CardinalityType
  <2>4. QED BY <1>4, <2>1, <2>3
<1> HIDE DEF paper, fixed
<1> PICK p : p = paper
  OBVIOUS
<1>7. \A s \in signings : ~(s.who = e /\ s.version = k + 1)
  BY DEF LastPaper, Papers
<1>8. MemorandumTypeOK'
  BY <1>2, <1>5, <1>6 DEF MemoInv, MemorandumTypeOK
<1>9. Rows(e, k + 1)' = fixed
  BY <1>2, <1>5 DEF Rows
<1>10. \A s \in signings : Rows(s.who, s.version)' = Rows(s.who, s.version)
  BY <1>2, <1>3, <1>5, <1>7 DEF Rows
<1>11. PaperMatchesRecord'
  <2>1. \A s \in signings : Snapshot(Rows(s.who, s.version))' = s.snapshot
    BY <1>10 DEF Snapshot, MemoInv, PaperMatchesRecord
  <2>2. Snapshot(Rows(p.who, p.version))' = p.snapshot
    BY <1>5, <1>6, <1>9 DEF Snapshot
  <2>3. \A s \in signings : \A r \in Rows(s.who, s.version)' : r.signed
    BY <1>10 DEF MemoInv, PaperMatchesRecord
  <2>4. \A r \in Rows(p.who, p.version)' : r.signed
    BY <1>5, <1>6, <1>9
  <2>5. \A s, t \in signings \cup {p} : s.who = t.who /\ s.version = t.version => s = t
    BY <1>6, <1>7 DEF MemoInv, PaperMatchesRecord
  <2>6. \A r \in entries' : r.signed => \E s \in signings' : s.who = r.who /\ s.version = r.version
    <3>1. \A r \in entries : r.signed => \E s \in signings : s.who = r.who /\ s.version = r.version
      BY DEF MemoInv, PaperMatchesRecord
    <3>2. QED BY <1>2, <1>5, <1>6, <3>1
  <2>7. QED BY <1>2, <2>1, <2>2, <2>3, <2>4, <2>5, <2>6 DEF PaperMatchesRecord
<1>12. PapersAreFull'
  <2>1. Snapshot(draft) # {}
    BY <1>1 DEF Snapshot
  <2>2. QED BY <1>2, <1>6, <2>1 DEF MemoInv, PapersAreFull
<1>13. Numbered'
  <2>1. LastPaper(e, k + 1)'
    <3>1. Papers(e)' = Papers(e) \cup {k + 1}
      BY <1>2, <1>6 DEF Papers
    <3>2. Papers(e)' = 1..k + 1
      BY <3>1 DEF LastPaper
    <3>3. \A r \in entries' : r.who = e => r.signed
      <4>1. \A r \in entries \ draft : r.who = e => r.signed
        BY DEF LastPaper, Rows
      <4>2. QED BY <1>2, <1>5, <4>1
    <3>4. QED BY <3>2, <3>3 DEF LastPaper
  <2>2. ASSUME NEW d \in Emails \ {e}, NEW n \in Nat, LastPaper(d, n) PROVE LastPaper(d, n)'
    <3>1. Papers(d)' = Papers(d)
      BY <1>2, <1>6 DEF Papers
    <3>2. \A r \in entries' : r.who = d => r \in entries
      BY <1>2, <1>5
    <3>3. QED BY <2>2, <3>1, <3>2 DEF LastPaper
  <2>3. QED BY <2>1, <2>2 DEF MemoInv, Numbered
<1>14. Archive!Sign
  <2> DEFINE lines == {<<r.item, r.heir, r.star, p.conflicts>> : r \in fixed}
             new == <<e, k + 1, lines>>
  <2>1. lines # {}
    BY <1>1, <1>9 DEF fixed
  <2>2. PapersOnFile' = PapersOnFile \cup {new}
    <3>1. {<<r.item, r.heir, r.star, p.conflicts>> : r \in Rows(p.who, p.version)'} = lines
      BY <1>6, <1>9
    <3>2. QED BY <1>2, <1>6, <1>10, <3>1 DEF PapersOnFile
  <2> HIDE DEF lines
  <2>3. new[1] = e /\ new[2] = k + 1 /\ new[3] = lines
    OBVIOUS
  <2> HIDE DEF new
  <2>4. new \notin PapersOnFile
    BY <1>7, <2>3, FiledUnder
  <2>5. Archive!Numbers(e) = 1..k + 1 - 1
    BY FiledUnder DEF LastPaper
  <2>6. new \in PapersOnFile' \ PapersOnFile /\ new[1] \in Emails \ {} /\ new[2] \in Nat \ {0}
    BY <2>2, <2>3, <2>4
  <2>7. Archive!Numbers(new[1]) = 1..new[2] - 1 /\ new[3] # {}
    BY <2>1, <2>3, <2>5
  <2>8. QED BY <2>2, <2>6, <2>7 DEF Archive!Sign
<1>15. QED BY <1>8, <1>11, <1>12, <1>13, <1>14 DEF MemoInv

\* Every step of the registry keeps the invariant of the lists, and files the next paper or leaves
\* the archive alone.
LEMMA MemoStays ==
  ASSUME MemoInv, HouseholdTypeOK', [RegistryNext]_registryVars
  PROVE  MemoInv' /\ (Archive!Sign \/ PapersOnFile' = PapersOnFile)
<1>1. CASE MemorandumNext
  <2>1. PICK e \in Emails :
          \/ OpenDraft(e)
          \/ \E i \in Things, h \in Family \cup {Undecided}, star \in BOOLEAN : UpsertEntry(e, i, h, star)
          \/ \E r \in entries : DeleteEntry(e, r)
          \/ Sign(e)
    BY <1>1 DEF MemorandumNext
  <2>2. PICK k \in Nat : LastPaper(e, k)
    BY DEF MemoInv, Numbered
  <2>3. CASE Sign(e)
    BY <2>2, <2>3, SignKeeps
  <2>4. CASE ~Sign(e)
    BY <2>1, <2>2, <2>4, DraftSteps, DraftOnlyKeeps
  <2>5. QED BY <2>3, <2>4
<1>2. CASE UNCHANGED memoVars
  <2>1. Numbered'
    BY <1>2 DEF memoVars, MemoInv, Numbered, LastPaper, Papers
  <2>2. PaperMatchesRecord' /\ PapersAreFull'
    BY <1>2 DEF memoVars, MemoInv, PaperMatchesRecord, PapersAreFull, Rows, Snapshot
  <2>3. MemorandumTypeOK'
    BY <1>2 DEF memoVars, MemoInv, MemorandumTypeOK
  <2>4. PapersOnFile' = PapersOnFile
    BY <1>2 DEF memoVars, PapersOnFile, Rows
  <2>5. QED BY <2>1, <2>2, <2>3, <2>4 DEF MemoInv
<1>3. QED BY <1>1, <1>2 DEF RegistryNext, registryVars

\* The memorandum half of the registry: typed rows, papers that match the record and are full,
\* and versions numbered without a gap, which is what places the draft above every signed list.
THEOREM ListsHold == RegistrySpec => []MemoInv
<1>1. MemorandumInit => MemoInv
  <2> SUFFICES ASSUME MemorandumInit PROVE MemoInv
    OBVIOUS
  <2>1. \A e \in Emails : LastPaper(e, 0)
    BY DEF MemorandumInit, LastPaper, Papers
  <2>2. MemorandumTypeOK
    BY HouseholdStarts DEF MemorandumInit, MemorandumTypeOK
  <2>3. PaperMatchesRecord /\ PapersAreFull
    BY DEF MemorandumInit, PaperMatchesRecord, PapersAreFull
  <2>4. QED BY <2>1, <2>2, <2>3 DEF MemoInv, Numbered
<1>2. HouseholdInv => HouseholdTypeOK
  BY DEF HouseholdInv
<1>3. QED BY <1>1, <1>2, HouseholdHolds, MemoStays, PTL DEF RegistrySpec

\* Every variable keeps its type.
THEOREM ListsAreTyped == RegistrySpec => []MemorandumTypeOK
  BY ListsHold, PTL DEF MemoInv

\* The rows of a signed version are those its paper shows.
THEOREM PapersMatch == RegistrySpec => []PaperMatchesRecord
  BY ListsHold, PTL DEF MemoInv

\* A draft is newer than everything its writer signed, and skips no version.
THEOREM DraftIsOnTop == RegistrySpec => []DraftOnTop
<1>1. ASSUME MemoInv PROVE DraftOnTop
  <2>1. ASSUME NEW r \in entries, ~r.signed
        PROVE  /\ \A s \in entries : s.who = r.who /\ ~s.signed => s.version = r.version
               /\ Papers(r.who) = 1..r.version - 1
    <3>1. r.who \in Emails
      BY <1>1 DEF MemoInv, MemorandumTypeOK, Entry
    <3>2. PICK k \in Nat : LastPaper(r.who, k)
      BY <1>1, <3>1 DEF MemoInv, Numbered
    <3>3. r.version = k + 1 /\ k + 1 - 1 = k
      BY <2>1, <3>2 DEF LastPaper
    <3>4. QED BY <3>2, <3>3 DEF LastPaper
  <2>2. QED BY <2>1 DEF DraftOnTop, Papers
<1>2. QED BY <1>1, ListsHold, PTL

\* What was signed stays on record as it was: the lists of a Registry implement the archive.
THEOREM PapersAreKept == RegistrySpec => KeepsPapers
<1>1. MemorandumInit => Archive!Init
  BY DEF MemorandumInit, Archive!Init, PapersOnFile
<1>2. ASSUME MemoInv, HouseholdTypeOK', [RegistryNext]_registryVars
      PROVE  [Archive!Next]_(Archive!vars)
  BY <1>2, MemoStays DEF Archive!Next, Archive!vars
<1>3. HouseholdInv => HouseholdTypeOK
  BY DEF HouseholdInv
<1>4. QED BY <1>1, <1>2, <1>3, HouseholdHolds, ListsHold, PTL DEF RegistrySpec, KeepsPapers, Archive!Spec

-----------------------------------------------------------------------------
(* What the archive is worth, to whoever keeps it *)

\* Signing uses the next number, and that only.
LEMMA NextNumber ==
  ASSUME Archive!ArchiveInv, Archive!Sign PROVE Archive!ArchiveInv'
<1> USE DEF Archive!ArchiveInv
<1>1. PICK p \in PapersOnFile' \ PapersOnFile :
        /\ PapersOnFile' = PapersOnFile \cup {p}
        /\ p[2] \in Nat \ {0} /\ Archive!Numbers(p[1]) = 1..p[2] - 1
  BY DEF Archive!Sign
<1>2. \A a : Archive!Numbers(a) \subseteq Archive!Numbers(a)'
  BY <1>1 DEF Archive!Numbers
<1>3. p[2] \in Archive!Numbers(p[1])'
  BY <1>1 DEF Archive!Numbers
<1>4. \A q \in PapersOnFile : q[1] = p[1] => q[2] \in 1..p[2] - 1
  BY <1>1 DEF Archive!Numbers
<1>5. Archive!ReadInOrder'
  <2>1. 1..p[2] \subseteq Archive!Numbers(p[1])'
    BY <1>1, <1>2, <1>3
  <2>2. \A q \in PapersOnFile : 1..q[2] \subseteq Archive!Numbers(q[1])'
    BY <1>2 DEF Archive!ReadInOrder
  <2>3. \A q \in PapersOnFile : ~(q[1] = p[1] /\ q[2] = p[2])
    BY <1>1, <1>4
  <2>4. QED BY <1>1, <2>1, <2>2, <2>3 DEF Archive!ReadInOrder
<1>6. QED BY <1>1, <1>2, <1>5 DEF Archive!ClosedHaveSigned

\* Whatever keeps the promise of the archive has papers that can be read in the order they were
\* signed.
THEOREM ArchiveIsWorth == KeepsPapers => []Archive!ReadInOrder
<1>1. Archive!Init => Archive!ArchiveInv
  BY DEF Archive!Init, Archive!ArchiveInv, Archive!ReadInOrder, Archive!ClosedHaveSigned
<1>2. Archive!ArchiveInv /\ [Archive!Next]_(Archive!vars) => Archive!ArchiveInv'
  <2>1. ASSUME Archive!ArchiveInv, UNCHANGED Archive!vars PROVE Archive!ArchiveInv'
    BY <2>1 DEF Archive!vars, Archive!ArchiveInv, Archive!ReadInOrder, Archive!ClosedHaveSigned, Archive!Numbers
  <2>2. ~Archive!Close
    BY DEF Archive!Close
  <2>3. QED BY <2>1, <2>2, NextNumber DEF Archive!Next
<1>3. Archive!ArchiveInv => Archive!ReadInOrder
  BY DEF Archive!ArchiveInv
<1>4. QED BY <1>1, <1>2, <1>3, PTL DEF KeepsPapers, Archive!Spec

\* So it is of the lists of a Registry.
THEOREM ListsReadInOrder == RegistrySpec => []Archive!ReadInOrder
  BY PapersAreKept, ArchiveIsWorth
=============================================================================
