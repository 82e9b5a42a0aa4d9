------------------------------- MODULE Estate -------------------------------
(***************************************************************************)
(* FairPlay before the division: who is on the roster, who administers,    *)
(* who sits in the captain's seat, and who is signed in.                   *)
(*                                                                         *)
(* Two things make a captain.  isAdmin opens the setup routes and moves    *)
(* when the role is transferred; captainParticipantId opens the routes     *)
(* that drive the phases and moves when the trustee takes over and hands   *)
(* back.  Every heir signs the method agreement for the captain of the     *)
(* day before the ranking opens.                                           *)
(*                                                                         *)
(* Handlers run one at a time, except that hashing a passphrase yields:    *)
(* the credential is read before it, the roster after it.                  *)
(*                                                                         *)
(* Left out: names and addresses, proxies, pauses (DraftRound), the setup  *)
(* page that replaces the whole roster, the demo routes, resets, rate      *)
(* limits, and the phases after the ranking.                               *)
(***************************************************************************)
EXTENDS Naturals, FiniteSets

CONSTANTS
  Ids,          \* participant ids; the table never uses one twice
  Nobody,       \* null
  MaxLinks      \* bound on the unused links of one participant

ASSUME IdsAssumption == IsFiniteSet(Ids) /\ Nobody \notin Ids /\ MaxLinks \in Nat

VARIABLES
  phase,        \* sessions.phase
  people,       \* participants
  captain,      \* sessions.captainParticipantId
  trusteeSeat,  \* sessions.trusteeParticipantId
  agreements,   \* method_agreements: who signed for which captain
  links,        \* auth_tokens neither consumed nor expired
  devices,      \* participants with a live row in auth_sessions
  credential,   \* representative_credentials.participantId
  setting,      \* people whose new passphrase is being hashed
  verifying     \* credentials that a passphrase being hashed will match

rosterVars == <<phase, people>>
seatVars   == <<captain, trusteeSeat>>
signInVars == <<links, devices, credential, setting, verifying>>
estateVars == <<rosterVars, seatVars, agreements, signInVars>>

Phases == {"welcome", "estate_name", "registration", "intake", "ranking"}
Roles  == {"none", "heir", "trustee", "helper", "gone"}

EstateTypeOK ==
  /\ phase \in Phases
  /\ people \in [Ids -> [role : Roles, isAdmin : BOOLEAN, drafts : BOOLEAN]]
  /\ captain \in Ids \cup {Nobody} /\ trusteeSeat \in Ids \cup {Nobody}
  /\ agreements \subseteq Ids \X Ids
  /\ links \in [Ids -> 0..MaxLinks]
  /\ devices \subseteq Ids
  /\ credential \in Ids \cup {Nobody}
  /\ setting \subseteq Ids /\ verifying \subseteq Ids

Row(role, isAdmin, drafts) == [role |-> role, isAdmin |-> isAdmin, drafts |-> drafts]

EstateInit ==
  /\ phase = "welcome"
  /\ people = [p \in Ids |-> Row("none", FALSE, FALSE)]
  /\ captain = Nobody /\ trusteeSeat = Nobody
  /\ agreements = {}
  /\ links = [p \in Ids |-> 0]
  /\ devices = {}
  /\ credential = Nobody /\ setting = {} /\ verifying = {}

-----------------------------------------------------------------------------
(* Who may do what *)

Roster   == {p \in Ids : people[p].role \in {"heir", "trustee", "helper"}}
Admins   == {p \in Roster : people[p].isAdmin}
Drafters == {p \in Roster : people[p].drafts}

Fresh(p)     == people[p].role = "none"
SignedIn(p)  == p \in devices \cap Roster
HeirAdmin(p) == SignedIn(p) /\ people[p].isAdmin
Captain(p)   == SignedIn(p) /\ captain = p

RegistrationOpen == phase \in {"welcome", "estate_name", "registration"}

Seat(p, row) == people' = [people EXCEPT ![p] = row]
Remove(p)    == Seat(p, Row("gone", FALSE, FALSE))

-----------------------------------------------------------------------------
(* Setting the estate up *)

\* The first person; refused while anybody administers.
CreateWelcome(p, drafts) ==
  /\ Fresh(p) /\ Admins = {}
  /\ Seat(p, Row("heir", TRUE, drafts))
  /\ phase' = "estate_name"
  /\ captain' = p
  /\ devices' = devices \cup {p}
  /\ UNCHANGED <<trusteeSeat, agreements, links, credential, setting, verifying>>

\* Naming is a gate the first time only.
SetEstateName(a) ==
  /\ HeirAdmin(a)
  /\ phase' = IF phase \in {"welcome", "estate_name"} THEN "registration" ELSE phase
  /\ UNCHANGED <<people, seatVars, agreements, signInVars>>

\* The form says whether the newcomer administers, and whether he also drafts.
AddHeir(a, p, isAdmin, drafts) ==
  /\ HeirAdmin(a) /\ RegistrationOpen /\ Fresh(p)
  /\ Seat(p, Row("heir", isAdmin, drafts))
  /\ UNCHANGED <<phase, seatVars, agreements, signInVars>>

AddHelper(a, p) ==
  /\ HeirAdmin(a) /\ Fresh(p)
  /\ Seat(p, Row("helper", FALSE, FALSE))
  /\ UNCHANGED <<phase, seatVars, agreements, signInVars>>

\* Mutant: a row is written as it comes.
UpdateUnchecked(p, drafts) == TRUE
\* What updateParticipant lets be written: "A trustee must remain
\* administers-only."
UpdateAllowed(p, drafts) == people[p].role = "trustee" => ~drafts

\* PATCH writes isAdmin and administersOnly of anybody for anybody signed in; no
\* page of the client sends them.
PatchRights(a, p, isAdmin, drafts) ==
  /\ SignedIn(a) /\ p \in Roster
  /\ UpdateAllowed(p, drafts)
  /\ Seat(p, Row(people[p].role, isAdmin, drafts))
  /\ UNCHANGED <<phase, seatVars, agreements, signInVars>>

\* Whoever administers is not removed; the role is to be transferred instead.
RemoveParticipant(a, p) ==
  /\ HeirAdmin(a) /\ RegistrationOpen
  /\ p \in Roster \ Admins
  /\ Remove(p)
  /\ UNCHANGED <<phase, seatVars, agreements, signInVars>>

RemoveHelper(a, p) ==
  /\ HeirAdmin(a)
  /\ people[p].role = "helper"
  /\ Remove(p)
  /\ UNCHANGED <<phase, seatVars, agreements, signInVars>>

EnoughToClose == Cardinality(Drafters) >= 2
CloseRegistration(a) ==
  /\ Captain(a) /\ phase = "registration" /\ EnoughToClose
  /\ phase' = "intake"
  /\ UNCHANGED <<people, seatVars, agreements, signInVars>>

StartSession(a) ==
  /\ Captain(a) /\ RegistrationOpen
  /\ Cardinality(Roster) >= 2 /\ Admins # {}
  /\ phase' = "intake"
  /\ UNCHANGED <<people, seatVars, agreements, signInVars>>

-----------------------------------------------------------------------------
(* The seat *)

\* Inviting again returns the trustee there is.
InviteTrustee(a, p) ==
  /\ HeirAdmin(a) /\ Fresh(p)
  /\ \A q \in Roster : people[q].role # "trustee"
  /\ Seat(p, Row("trustee", TRUE, FALSE))
  /\ UNCHANGED <<phase, seatVars, agreements, signInVars>>

TrusteeTakeOver(t) ==
  /\ SignedIn(t) /\ people[t].role = "trustee"
  /\ captain # t
  /\ captain' = t /\ trusteeSeat' = t
  /\ UNCHANGED <<rosterVars, agreements, signInVars>>

\* Mutant: the trustee's own seat is left as it was.
TrusteeHandBackSeatKept(t) ==
  /\ SignedIn(t) /\ people[t].role = "trustee"
  /\ trusteeSeat = t /\ captain = t
  /\ LET heirs == {p \in Admins : people[p].role = "heir"}
     IN captain' \in (IF heirs = {} THEN {Nobody} ELSE heirs)
  /\ UNCHANGED <<rosterVars, trusteeSeat, agreements, signInVars>>
\* The captain is an heir who administers again (the code takes the first), or
\* nobody.
TrusteeHandBack(t) ==
  /\ SignedIn(t) /\ people[t].role = "trustee"
  /\ trusteeSeat = t /\ captain = t
  /\ LET heirs == {p \in Admins : people[p].role = "heir"}
     IN captain' \in (IF heirs = {} THEN {Nobody} ELSE heirs)
  /\ trusteeSeat' = Nobody
  /\ UNCHANGED <<rosterVars, agreements, signInVars>>

\* Anybody who administers hands isAdmin to somebody who does not.  One who only
\* administered leaves the roster.  A trustee's row is refused before anything
\* is written, a helper's is not.  The captain's seat is not touched.
TransferCaptain(a, p) ==
  /\ HeirAdmin(a) /\ ~RegistrationOpen
  /\ p \in Roster \ Admins /\ UpdateAllowed(p, TRUE)
  /\ people' = [people EXCEPT
       ![p] = Row(@.role, TRUE, TRUE),
       ![a] = IF @.drafts THEN Row(@.role, FALSE, TRUE) ELSE Row("gone", FALSE, FALSE)]
  /\ UNCHANGED <<phase, seatVars, agreements, signInVars>>

-----------------------------------------------------------------------------
(* The method agreement and the ranking *)

\* Anybody signed in signs, once for each captain, while the captain is there.
RecordMethodAgreement(p) ==
  /\ SignedIn(p)
  /\ captain \in Roster
  /\ <<p, captain>> \notin agreements
  /\ agreements' = agreements \cup {<<p, captain>>}
  /\ UNCHANGED <<rosterVars, seatVars, signInVars>>

\* Every heir has signed, for whichever captain.
MarkInventoryComplete(a) ==
  /\ Captain(a) /\ phase = "intake"
  /\ Drafters # {}
  /\ \A h \in Drafters : \E c \in Ids : <<h, c>> \in agreements
  /\ phase' = "ranking"
  /\ UNCHANGED <<people, seatVars, agreements, signInVars>>

ReopenInventory(a) ==
  /\ Captain(a) /\ phase = "ranking"
  /\ phase' = "intake"
  /\ UNCHANGED <<people, seatVars, agreements, signInVars>>

-----------------------------------------------------------------------------
(* Signing in *)

NotSignIn == UNCHANGED <<rosterVars, seatVars, agreements>>

\* Asked for by the participant, or sent by one who administers.
IssueToken(p) ==
  /\ p \in Roster /\ links[p] < MaxLinks
  /\ links' = [links EXCEPT ![p] = @ + 1]
  /\ NotSignIn /\ UNCHANGED <<devices, credential, setting, verifying>>

\* Mutant: that the link is still there is not looked at.
RedeemTokenUnchecked(p) ==
  /\ p \in Roster
  /\ links' = [links EXCEPT ![p] = @ - 1]
  /\ devices' = devices \cup {p}
  /\ NotSignIn /\ UNCHANGED <<credential, setting, verifying>>
\* The link of somebody who has left the roster is refused and not consumed.
RedeemToken(p) ==
  /\ p \in Roster /\ links[p] > 0
  /\ links' = [links EXCEPT ![p] = @ - 1]
  /\ devices' = devices \cup {p}
  /\ NotSignIn /\ UNCHANGED <<credential, setting, verifying>>

TokenExpires(p) ==
  /\ links[p] > 0
  /\ links' = [links EXCEPT ![p] = @ - 1]
  /\ NotSignIn /\ UNCHANGED <<devices, credential, setting, verifying>>

\* Signed out, revoked, or thirty days unused.
SessionEnds(p) ==
  /\ p \in devices
  /\ devices' = devices \ {p}
  /\ NotSignIn /\ UNCHANGED <<links, credential, setting, verifying>>

SetPassphraseBegin(a) ==
  /\ HeirAdmin(a)
  /\ setting' = setting \cup {a}
  /\ NotSignIn /\ UNCHANGED <<links, devices, credential, verifying>>
SetPassphraseEnd(a) ==
  /\ a \in setting
  /\ setting' = setting \ {a}
  /\ credential' = a
  /\ NotSignIn /\ UNCHANGED <<links, devices, verifying>>

ClearPassphrase(a) ==
  /\ HeirAdmin(a)
  /\ credential' = Nobody
  /\ NotSignIn /\ UNCHANGED <<links, devices, setting, verifying>>

\* Somebody types the right passphrase.
VerifyBegin ==
  /\ credential # Nobody
  /\ verifying' = verifying \cup {credential}
  /\ NotSignIn /\ UNCHANGED <<links, devices, credential, setting>>

\* Mutant: that the owner of the credential administers was checked before.
VerifyEndStale(p) ==
  /\ p \in verifying
  /\ verifying' = verifying \ {p}
  /\ devices' = devices \cup {p}
  /\ NotSignIn /\ UNCHANGED <<links, credential, setting>>
\* The roster is read after the hash: a role handed over meanwhile counts.
VerifyEnd(p) ==
  /\ p \in verifying
  /\ verifying' = verifying \ {p}
  /\ devices' = IF p \in Admins THEN devices \cup {p} ELSE devices
  /\ NotSignIn /\ UNCHANGED <<links, credential, setting>>

Restart ==
  /\ setting' = {} /\ verifying' = {}
  /\ NotSignIn /\ UNCHANGED <<links, devices, credential>>

RosterNext ==
  \E a, p \in Ids :
    \/ \E isAdmin, drafts \in BOOLEAN : AddHeir(a, p, isAdmin, drafts)
    \/ AddHelper(a, p)
    \/ RemoveParticipant(a, p) \/ RemoveHelper(a, p)
    \/ InviteTrustee(a, p) \/ TransferCaptain(a, p)

RightsNext ==
  \E a, p \in Ids, isAdmin, drafts \in BOOLEAN : PatchRights(a, p, isAdmin, drafts)

PhaseNext ==
  \E a \in Ids :
    \/ \E drafts \in BOOLEAN : CreateWelcome(a, drafts)
    \/ SetEstateName(a) \/ CloseRegistration(a) \/ StartSession(a)
    \/ MarkInventoryComplete(a) \/ ReopenInventory(a)

SeatNext ==
  \E p \in Ids : TrusteeTakeOver(p) \/ TrusteeHandBack(p) \/ RecordMethodAgreement(p)

LinkNext ==
  \E p \in Ids : IssueToken(p) \/ RedeemToken(p) \/ TokenExpires(p) \/ SessionEnds(p)

PassphraseNext ==
  \/ \E p \in Ids : \/ SetPassphraseBegin(p) \/ SetPassphraseEnd(p)
                    \/ ClearPassphrase(p) \/ VerifyEnd(p)
  \/ VerifyBegin
  \/ Restart

EstateNext == RosterNext \/ RightsNext \/ PhaseNext \/ SeatNext \/ LinkNext \/ PassphraseNext

EstateSpec == EstateInit /\ [][EstateNext]_estateVars

-----------------------------------------------------------------------------
(* Properties *)

\* "A trustee is never an heir": a trustee never drafts, not even one whose
\* isAdmin was patched away, to whom transferPr would then hand a drafting
\* captain's role.  Two handlers rest on the check of updateParticipant.
TrusteeNeverDrafts == \A p \in Ids : people[p].role = "trustee" => ~people[p].drafts

\* "Trustee-in-charge is derived": the captain's seat and the trustee's move
\* together.  A step that finds the trustee's seat empty, or its trustee in
\* charge, and leaves somebody in it leaves the captain there.  Once the rights
\* of everybody who administered were patched away, a welcome unseats him.
TrusteeInCharge ==
  captain # Nobody /\ captain = trusteeSeat /\ people[captain].role = "trustee"
SeatsMoveTogether ==
  [][/\ trusteeSeat = Nobody \/ TrusteeInCharge
     /\ trusteeSeat' # Nobody
     /\ Admins # {}
     => captain' = trusteeSeat']_estateVars

\* A passphrase signs in only whoever administers by then.  "If the role was
\* handed over and this credential was left behind, it must not still open the
\* door", even when it was read before the role moved.
PassphraseOpensForAdmins ==
  [][\A p \in devices' \ devices : p \in Admins \/ links' # links \/ people' # people]_estateVars

-----------------------------------------------------------------------------
(* What a comment says of the estate and the code does not do *)

\* The gate of the ranking asks for an agreement "FOR THE CURRENT CAPTAIN" from
\* every heir; "a captain change invalidates existing agreements".
RankingUnderMandate ==
  [][phase # "ranking" /\ phase' = "ranking" =>
       \A h \in Drafters : <<h, captain>> \in agreements]_estateVars
=============================================================================
