------------------------------ MODULE Household ------------------------------
(***************************************************************************)
(* Who may use a Registry, and whether it is a couple's.                   *)
(*                                                                         *)
(* A Registry starts without participants: until somebody signs in, every  *)
(* visitor acts as the bootstrap owner.  People come in through single-use *)
(* links sent by mail.  Inviting somebody issues a link, waits for the     *)
(* mail server, and only then stores the name the inviter typed: other     *)
(* requests, the invited person's own sign-in among them, run meanwhile.   *)
(* Once the invited partner has signed in, the two link the household.     *)
(*                                                                         *)
(* Participants are identified by their e-mail address, which is unique.   *)
(* Left out: display names, tokens and their hashes, and the sliding       *)
(* expiry of a session.                                                    *)
(***************************************************************************)
EXTENDS Naturals, Sequences, FiniteSets

CONSTANTS
  Emails,
  Bootstrap,      \* 'bootstrap-owner', the synthetic participant
  Nobody,         \* linked_by_participant_id = null
  MaxAssistants,
  MaxLinks        \* bound on the links issued to one address

ASSUME EmailsAssumption ==
  IsFiniteSet(Emails) /\ Bootstrap \notin Emails /\ Nobody \notin Emails
ASSUME LinksAssumption == MaxAssistants \in Nat /\ MaxLinks \in Nat

VARIABLES
  people,     \* participants: role and status of each address
  roster,     \* the participants in the order they were created
  links,      \* magic_links neither consumed nor expired
  issued,     \* how many links each address was ever sent
  ownerInvites, \* addresses ever sent an invitation whose role is 'owner'
  sessions,   \* live sessions of each participant
  inviting,   \* named invitations that wait for the mail server
  mode,       \* scopes.household_mode
  linkedBy    \* scopes.linked_by_participant_id

peopleVars    == <<people, roster>>
mailVars      == <<links, issued, ownerInvites>>
modeVars      == <<mode, linkedBy>>
householdVars == <<peopleVars, mailVars, sessions, inviting, modeVars>>

Roles    == {"none", "invited", "invited-assistant", "trustee", "assistant", "partner", "owner"}
Invitees == {"partner", "assistant"}
Offered  == Invitees \cup {"owner", "trustee"}   \* what magic_links.invite_role may hold
Purposes == {"signin"} \cup Offered     \* an invitation is told by its role

HouseholdTypeOK ==
  /\ people \in [Emails -> [role : Roles, status : {"none", "invited", "active"}]]
  /\ roster \in Seq(Emails)
  /\ links \in [Emails -> [Purposes -> Nat]]
  /\ issued \in [Emails -> 0..MaxLinks]
  /\ ownerInvites \subseteq Emails
  /\ sessions \in [Emails -> Nat]
  /\ inviting \subseteq [email : Emails, role : Invitees]
  /\ mode \in {"solo", "couple"}
  /\ linkedBy \in Emails \cup {Nobody}

HouseholdInit ==
  /\ people = [e \in Emails |-> [role |-> "none", status |-> "none"]]
  /\ roster = <<>>
  /\ links = [e \in Emails |-> [k \in Purposes |-> 0]]
  /\ issued = [e \in Emails |-> 0]
  /\ ownerInvites = {}
  /\ sessions = [e \in Emails |-> 0]
  /\ inviting = {}
  /\ mode = "solo" /\ linkedBy = Nobody

-----------------------------------------------------------------------------
(* Participants *)

Rank(role) ==
  CASE role = "owner" -> 4
    [] role = "partner" -> 3
    [] role = "assistant" -> 2
    [] role = "invited" -> 1
    [] OTHER -> 0

Holding(roles, status) ==
  {e \in Emails : people[e].role \in roles /\ people[e].status = status}

IsBootstrapMode == \A e \in Emails : people[e].status # "active"

\* A live session, or the synthetic owner as long as nobody has signed in.
MayAct(p) == IF p = Bootstrap THEN IsBootstrapMode ELSE sessions[p] > 0
RoleOf(p) == IF p = Bootstrap THEN "owner" ELSE people[p].role

\* A role only moves up the ladder; the status is always written.
UpsertByEmail(e, role, status) ==
  /\ people' = [people EXCEPT ![e] =
       [role   |-> IF @.role = "none" \/ Rank(role) > Rank(@.role) THEN role ELSE @.role,
        status |-> status]]
  /\ roster' = IF people[e].role = "none" THEN Append(roster, e) ELSE roster

-----------------------------------------------------------------------------
(* Links and sessions *)

Issue(e, purpose) ==
  /\ issued[e] < MaxLinks
  /\ links' = [links EXCEPT ![e][purpose] = @ + 1]
  /\ issued' = [issued EXCEPT ![e] = @ + 1]
  /\ ownerInvites' = IF purpose = "owner" THEN ownerInvites \cup {e} ELSE ownerInvites

\* Anybody may ask, for a link to sign in or for one that invites; the role of
\* the invitation is any that the table takes.
RequestLink(e, purpose) ==
  /\ Issue(e, purpose)
  /\ UNCHANGED <<peopleVars, sessions, inviting, modeVars>>

\* Mutants: the link is not looked up, or it can be used again.
ConsumeUnchecked(e, purpose) ==
  links' = [links EXCEPT ![e][purpose] = @ - 1]
ConsumeNothing(e, purpose) ==
  /\ links[e][purpose] > 0
  /\ UNCHANGED links
Consume(e, purpose) ==
  /\ links[e][purpose] > 0
  /\ links' = [links EXCEPT ![e][purpose] = @ - 1]

StartSession(e) == sessions' = [sessions EXCEPT ![e] = @ + 1]

\* Mutant: whoever follows a sign-in link first becomes an owner too.
VerifySignInUnchecked(e) ==
  /\ StartSession(e)
  /\ IF people[e].role # "none" THEN UNCHANGED peopleVars
     ELSE UpsertByEmail(e, "owner", "active")

\* A known address keeps its role and status; the first unknown one becomes the
\* owner; any later one is refused, its link consumed.
VerifySignIn(e) ==
  \/ people[e].role # "none" /\ StartSession(e) /\ UNCHANGED peopleVars
  \/ /\ people[e].role = "none" /\ IsBootstrapMode
     /\ StartSession(e)
     /\ UpsertByEmail(e, "owner", "active")
  \/ people[e].role = "none" /\ ~IsBootstrapMode /\ UNCHANGED <<sessions, peopleVars>>

VerifyLink(e, purpose) ==
  /\ Consume(e, purpose)
  /\ IF purpose = "signin"
     THEN VerifySignIn(e)
     ELSE StartSession(e) /\ UpsertByEmail(e, purpose, "active")
  /\ UNCHANGED <<issued, ownerInvites, inviting, modeVars>>

LinkExpires(e, purpose) ==
  /\ Consume(e, purpose)
  /\ UNCHANGED <<peopleVars, issued, ownerInvites, sessions, inviting, modeVars>>

\* Signed out, or thirty days unused.
SessionEnds(e) ==
  /\ sessions[e] > 0
  /\ sessions' = [sessions EXCEPT ![e] = @ - 1]
  /\ UNCHANGED <<peopleVars, mailVars, inviting, modeVars>>

-----------------------------------------------------------------------------
(* Invitations *)

\* A partner's place is taken by an active partner or by a named invitation.
RoomFor(role) ==
  IF role = "partner"
  THEN Holding({"partner"}, "active") \cup Holding({"invited", "partner"}, "invited") = {}
  ELSE Cardinality(Holding({"assistant"}, "active")
                     \cup Holding({"invited-assistant"}, "invited")) < MaxAssistants

MayInvite(p, role) ==
  /\ MayAct(p)
  /\ RoleOf(p) \in (IF role = "partner" THEN {"owner"} ELSE {"owner", "partner"})

\* The link is stored, then the handler waits for the mail server.
InviteBegin(p, e, role, named) ==
  /\ MayInvite(p, role) /\ RoomFor(role)
  /\ Issue(e, role)
  /\ inviting' = IF named THEN inviting \cup {[email |-> e, role |-> role]} ELSE inviting
  /\ UNCHANGED <<peopleVars, sessions, modeVars>>

PlaceholderRole(role) == IF role = "assistant" THEN "invited-assistant" ELSE "invited"

\* Mutant: whether the person is on file is not looked up after the wait.
InviteEndStale(inv) ==
  /\ inv \in inviting
  /\ inviting' = inviting \ {inv}
  /\ UpsertByEmail(inv.email, PlaceholderRole(inv.role), "invited")
  /\ UNCHANGED <<mailVars, sessions, modeVars>>

\* The name is parked on a placeholder, or on the row that is there by now.
InviteEnd(inv) ==
  /\ inv \in inviting
  /\ inviting' = inviting \ {inv}
  /\ IF people[inv.email].role = "none"
     THEN UpsertByEmail(inv.email, PlaceholderRole(inv.role), "invited")
     ELSE UNCHANGED peopleVars
  /\ UNCHANGED <<mailVars, sessions, modeVars>>

\* The mail server throws, or the process stops: the name is never stored.
InviteLost(inv) ==
  /\ inv \in inviting
  /\ inviting' = inviting \ {inv}
  /\ UNCHANGED <<peopleVars, mailVars, sessions, modeVars>>

-----------------------------------------------------------------------------
(* The link ceremony *)

PartnerPresent == Holding({"partner"}, "active") # {}

\* Mutant: an invitation counts as a partner who is here.
ConfirmInvited(e) ==
  /\ sessions[e] > 0
  /\ mode = "solo" /\ (PartnerPresent \/ Holding({"invited"}, "invited") # {})
  /\ mode' = "couple" /\ linkedBy' = e
  /\ UNCHANGED <<peopleVars, mailVars, sessions, inviting>>
Confirm(e) ==
  /\ sessions[e] > 0
  /\ mode = "solo" /\ PartnerPresent
  /\ mode' = "couple" /\ linkedBy' = e
  /\ UNCHANGED <<peopleVars, mailVars, sessions, inviting>>

Unlink(p) ==
  /\ MayAct(p)
  /\ mode = "couple"
  /\ mode' = "solo" /\ linkedBy' = Nobody
  /\ UNCHANGED <<peopleVars, mailVars, sessions, inviting>>

Actors == Emails \cup {Bootstrap}

HouseholdNext ==
  \/ \E e \in Emails :
       \/ \E k \in Purposes : RequestLink(e, k) \/ VerifyLink(e, k) \/ LinkExpires(e, k)
       \/ SessionEnds(e)
       \/ \E p \in Actors, role \in Invitees, named \in BOOLEAN : InviteBegin(p, e, role, named)
       \/ Confirm(e)
  \/ \E inv \in inviting : InviteEnd(inv) \/ InviteLost(inv)
  \/ \E p \in Actors : Unlink(p)

HouseholdSpec == HouseholdInit /\ [][HouseholdNext]_householdVars

-----------------------------------------------------------------------------
(* Properties *)

\* Nobody loses standing.  A late write of an invitation, sent while its
\* receiver was already signing in, neither demotes the person nor makes an
\* active participant a pending one again, so bootstrap mode never returns.
Standing(e) == IF people[e].role = "none" THEN 0 ELSE Rank(people[e].role) + 1
StandingOnlyRises ==
  [][\A e \in Emails :
       /\ Standing(e) <= Standing(e)'
       /\ people[e].status = "active" => people'[e].status = "active"]_householdVars

\* A link signs in at most once: the sessions a person has and the links still
\* open never exceed the links that were sent.
LinksOpen(e) ==
  links[e]["signin"] + links[e]["partner"] + links[e]["assistant"]
    + links[e]["owner"] + links[e]["trustee"]
LinksSignInOnce == \A e \in Emails : sessions[e] + LinksOpen(e) <= issued[e]

\* Signing in makes one owner at most, whatever links were open when the first
\* person signed in: of any two owners, one was sent an invitation that said so.
Owners == Holding({"owner"}, "active")
OneOwnerBySignIn == \A d, e \in Owners : d = e \/ d \in ownerInvites \/ e \in ownerInvites

\* A household is a couple only with a partner who has signed in, whom a later
\* invitation may have made an owner, and the person who confirmed it is on
\* file.  "The invited partner has to make an authenticated act (sign in) before
\* their consent counts."
CoupleHasPartner ==
  mode = "couple" =>
    /\ PartnerPresent \/ Owners \cap ownerInvites # {}
    /\ people[linkedBy].role # "none"
=============================================================================
