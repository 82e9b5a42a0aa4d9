---------------------------- MODULE EstateProofs ----------------------------
(* Proofs about Estate, for any number of people.                            *)
EXTENDS Estate, TLAPS

-----------------------------------------------------------------------------
(* What a step does to the roster, and when                                  *)

\* A row that is written stays a row, and at most one more person comes in,
\* moves or leaves.
LEMMA SeatTypes ==
  ASSUME EstateTypeOK, NEW p \in Ids, NEW role \in Roles, NEW isAdmin \in BOOLEAN,
         NEW drafts \in BOOLEAN, Seat(p, Row(role, isAdmin, drafts))
  PROVE  /\ people' \in [Ids -> [role : Roles, isAdmin : BOOLEAN, drafts : BOOLEAN]]
         /\ people'[p] = Row(role, isAdmin, drafts)
         /\ \A q \in Ids \ {p} : people'[q] = people[q]
  BY DEF EstateTypeOK, Seat, Row

\* Handing the role over: the one who held it drafts on or leaves.
LEMMA TransferRows ==
  ASSUME EstateTypeOK, NEW a \in Ids, NEW p \in Ids, TransferCaptain(a, p)
  PROVE  /\ people' \in [Ids -> [role : Roles, isAdmin : BOOLEAN, drafts : BOOLEAN]]
         /\ people[a].isAdmin /\ ~people[p].isAdmin /\ a # p
         /\ people[p].role # "trustee"
         /\ people'[p].role = people[p].role
         /\ people[a].drafts => people'[a].role = people[a].role
         /\ ~people[a].drafts => people'[a].role = "gone"
         /\ \A q \in Ids \ {a, p} : people'[q] = people[q]
<1>1. people \in [Ids -> [role : Roles, isAdmin : BOOLEAN, drafts : BOOLEAN]]
  BY DEF EstateTypeOK
<1>2. people[a].isAdmin /\ ~people[p].isAdmin /\ a # p
  BY <1>1 DEF TransferCaptain, HeirAdmin, SignedIn, Roster, Admins
<1>3. people' = [people EXCEPT
        ![p] = Row(people[p].role, TRUE, TRUE),
        ![a] = IF people[a].drafts THEN Row(people[a].role, FALSE, TRUE) ELSE Row("gone", FALSE, FALSE)]
  BY <1>1, <1>2 DEF TransferCaptain
<1>4. /\ people'[p] = Row(people[p].role, TRUE, TRUE)
      /\ people'[a] = IF people[a].drafts THEN Row(people[a].role, FALSE, TRUE)
                      ELSE Row("gone", FALSE, FALSE)
      /\ \A q \in Ids \ {a, p} : people'[q] = people[q]
      /\ DOMAIN people' = Ids /\ people' = [q \in Ids |-> people'[q]]
  BY <1>1, <1>2, <1>3
<1>5. Row(people[p].role, TRUE, TRUE) \in [role : Roles, isAdmin : BOOLEAN, drafts : BOOLEAN]
  BY <1>1 DEF Row
<1>6. people'[a] \in [role : Roles, isAdmin : BOOLEAN, drafts : BOOLEAN]
  BY <1>1, <1>4 DEF Row, Roles
<1>7. people' \in [Ids -> [role : Roles, isAdmin : BOOLEAN, drafts : BOOLEAN]]
  BY <1>1, <1>4, <1>5, <1>6
<1>8. people'[p].role = people[p].role
  BY <1>4 DEF Row
<1>9. people[a].drafts => people'[a] = Row(people[a].role, FALSE, TRUE)
  BY <1>4
<1>10. ~people[a].drafts => people'[a] = Row("gone", FALSE, FALSE)
  BY <1>4
<1>11. /\ people[a].drafts => people'[a].role = people[a].role
       /\ ~people[a].drafts => people'[a].role = "gone"
  BY <1>9, <1>10 DEF Row
<1>12. people[p].role # "trustee"
  BY DEF TransferCaptain, UpdateAllowed
<1>13. QED BY <1>2, <1>4, <1>7, <1>8, <1>11, <1>12

\* The steps that write a row: nobody becomes a trustee but a newcomer whom the
\* family invites, without a turn.
SeatSteps(p) ==
  \/ \E drafts \in BOOLEAN : CreateWelcome(p, drafts)
  \/ \E a \in Ids : \/ AddHelper(a, p) \/ InviteTrustee(a, p)
                    \/ RemoveParticipant(a, p) \/ RemoveHelper(a, p)
  \/ \E a \in Ids, isAdmin, drafts \in BOOLEAN :
        AddHeir(a, p, isAdmin, drafts) \/ PatchRights(a, p, isAdmin, drafts)

\* What a change of the roster can do to the rows of participants.
LEMMA RosterMoves ==
  ASSUME EstateTypeOK, NEW p \in Ids, SeatSteps(p)
  PROVE  /\ people' \in [Ids -> [role : Roles, isAdmin : BOOLEAN, drafts : BOOLEAN]]
         /\ \A q \in Ids \ {p} : people'[q] = people[q]
         /\ people'[p].role = "trustee" => ~people'[p].drafts
<1> DEFINE Goal(role, isAdmin, drafts) ==
      /\ role \in Roles /\ isAdmin \in BOOLEAN /\ drafts \in BOOLEAN
      /\ Seat(p, Row(role, isAdmin, drafts))
      /\ role = "trustee" => ~drafts
<1>1. ASSUME NEW role, NEW isAdmin, NEW drafts, Goal(role, isAdmin, drafts)
      PROVE  /\ people' \in [Ids -> [role : Roles, isAdmin : BOOLEAN, drafts : BOOLEAN]]
             /\ \A q \in Ids \ {p} : people'[q] = people[q]
             /\ people'[p].role = "trustee" => ~people'[p].drafts
  BY <1>1, SeatTypes DEF Row
<1>2. CASE \E drafts \in BOOLEAN : CreateWelcome(p, drafts)
  <2>1. PICK drafts \in BOOLEAN : CreateWelcome(p, drafts)
    BY <1>2
  <2>2. Goal("heir", TRUE, drafts)
    BY <2>1 DEF CreateWelcome, Roles
  <2>3. QED BY ONLY <1>1, <2>2
<1>3. ASSUME NEW a \in Ids, NEW isAdmin \in BOOLEAN, NEW drafts \in BOOLEAN,
             AddHeir(a, p, isAdmin, drafts)
      PROVE  Goal("heir", isAdmin, drafts)
  BY <1>3 DEF AddHeir, Roles
<1>4. ASSUME NEW a \in Ids, AddHelper(a, p) PROVE Goal("helper", FALSE, FALSE)
  BY <1>4 DEF AddHelper, Roles
<1>5. ASSUME NEW a \in Ids, InviteTrustee(a, p) PROVE Goal("trustee", TRUE, FALSE)
  BY <1>5 DEF InviteTrustee, Roles
<1>6. ASSUME NEW a \in Ids, RemoveParticipant(a, p) \/ RemoveHelper(a, p)
      PROVE  Goal("gone", FALSE, FALSE)
  BY <1>6 DEF RemoveParticipant, RemoveHelper, Remove, Roles
<1> HIDE DEF Goal
<1>7. ASSUME NEW a \in Ids, NEW isAdmin \in BOOLEAN, NEW drafts \in BOOLEAN,
             PatchRights(a, p, isAdmin, drafts)
      PROVE  Goal(people[p].role, isAdmin, drafts)
  BY <1>7 DEF Goal, EstateTypeOK, PatchRights, UpdateAllowed
<1>8. QED BY <1>1, <1>2, <1>3, <1>4, <1>5, <1>6, <1>7 DEF SeatSteps

-----------------------------------------------------------------------------
(* The kinds of steps *)

\* Every step writes one row, hands the role over, moves the seat, or leaves
\* roster and seats alone.
SeatMoves == \E t \in Ids : TrusteeTakeOver(t) \/ TrusteeHandBack(t)

\* Every step moves the roster, the seat, a session or the phase, and no two of them.
LEMMA StepKinds ==
  ASSUME [EstateNext]_estateVars
  PROVE  \/ \E p \in Ids : SeatSteps(p)
         \/ \E a, p \in Ids : TransferCaptain(a, p)
         \/ SeatMoves
         \/ UNCHANGED <<people, seatVars>>
<1>1. CASE RosterNext \/ RightsNext
  BY <1>1 DEF RosterNext, RightsNext, SeatSteps
<1>2. CASE PhaseNext
  BY <1>2 DEF PhaseNext, SeatSteps, SetEstateName, CloseRegistration, StartSession,
              MarkInventoryComplete, ReopenInventory
<1>3. CASE SeatNext
  BY <1>3 DEF SeatNext, SeatMoves, RecordMethodAgreement, rosterVars
<1>4. CASE LinkNext
  BY <1>4 DEF LinkNext, IssueToken, RedeemToken, TokenExpires, SessionEnds, NotSignIn, rosterVars
<1>5. CASE PassphraseNext
  BY <1>5 DEF PassphraseNext, SetPassphraseBegin, SetPassphraseEnd, ClearPassphrase, VerifyBegin,
              VerifyEnd, Restart, NotSignIn, rosterVars
<1>6. CASE UNCHANGED estateVars
  BY <1>6 DEF estateVars, rosterVars
<1>7. QED BY <1>1, <1>2, <1>3, <1>4, <1>5, <1>6 DEF EstateNext

-----------------------------------------------------------------------------
(* Types *)

LEMMA RosterTypes ==
  ASSUME EstateTypeOK, [EstateNext]_estateVars
  PROVE  /\ people' \in [Ids -> [role : Roles, isAdmin : BOOLEAN, drafts : BOOLEAN]]
         /\ captain' \in Ids \cup {Nobody} /\ trusteeSeat' \in Ids \cup {Nobody}
<1>1. ASSUME NEW p \in Ids, SeatSteps(p)
      PROVE  captain' \in Ids \cup {Nobody} /\ trusteeSeat' \in Ids \cup {Nobody}
  BY <1>1 DEF EstateTypeOK, SeatSteps, CreateWelcome, AddHeir, AddHelper, PatchRights,
              InviteTrustee, RemoveParticipant, RemoveHelper, seatVars
<1>2. ASSUME NEW a \in Ids, NEW p \in Ids, TransferCaptain(a, p)
      PROVE  UNCHANGED seatVars
  BY <1>2 DEF TransferCaptain
<1>3. ASSUME NEW t \in Ids, TrusteeTakeOver(t) \/ TrusteeHandBack(t)
      PROVE  /\ people' = people
             /\ captain' \in Ids \cup {Nobody} /\ trusteeSeat' \in Ids \cup {Nobody}
  <2>1. {q \in Admins : people[q].role = "heir"} \subseteq Ids
    BY DEF Admins, Roster
  <2>2. QED BY <1>3, <2>1 DEF EstateTypeOK, TrusteeTakeOver, TrusteeHandBack, rosterVars
<1>4. QED BY <1>1, <1>2, <1>3, RosterMoves, TransferRows, StepKinds
          DEF SeatMoves, seatVars, EstateTypeOK

\* Signing in and out keeps the types of tokens, sessions and passphrases.
LEMMA SignInTypes ==
  ASSUME EstateTypeOK, [EstateNext]_estateVars
  PROVE  /\ links' \in [Ids -> 0..MaxLinks]
         /\ devices' \subseteq Ids
         /\ credential' \in Ids \cup {Nobody}
         /\ setting' \subseteq Ids /\ verifying' \subseteq Ids
<1> USE DEF EstateTypeOK
<1>1. MaxLinks \in Nat /\ \A p \in Ids : links[p] \in 0..MaxLinks
  BY IdsAssumption
<1>2. CASE RosterNext \/ RightsNext
  BY <1>2 DEF RosterNext, AddHeir, AddHelper, RemoveParticipant, RemoveHelper, InviteTrustee,
              TransferCaptain, RightsNext, PatchRights, signInVars
<1>3. CASE PhaseNext
  BY <1>3 DEF PhaseNext, CreateWelcome, SetEstateName, CloseRegistration, StartSession,
              MarkInventoryComplete, ReopenInventory, signInVars
<1>4. CASE SeatNext
  BY <1>4 DEF SeatNext, TrusteeTakeOver, TrusteeHandBack, RecordMethodAgreement, signInVars
<1>5. CASE LinkNext
  <2>1. ASSUME NEW p \in Ids, IssueToken(p) \/ RedeemToken(p) \/ TokenExpires(p)
        PROVE  links' \in [Ids -> 0..MaxLinks]
    BY <1>1, <2>1 DEF IssueToken, RedeemToken, TokenExpires
  <2>2. QED BY <1>5, <2>1 DEF LinkNext, IssueToken, RedeemToken, TokenExpires, SessionEnds
<1>6. CASE PassphraseNext
  BY <1>6 DEF PassphraseNext, SetPassphraseBegin, SetPassphraseEnd, ClearPassphrase, VerifyBegin,
              VerifyEnd, Restart
<1>7. CASE UNCHANGED estateVars
  BY <1>7 DEF estateVars, signInVars
<1>8. QED BY <1>2, <1>3, <1>4, <1>5, <1>6, <1>7 DEF EstateNext

\* So do the steps from welcome to the reopening of the inventory.
LEMMA PhaseTypes ==
  ASSUME EstateTypeOK, [EstateNext]_estateVars
  PROVE  phase' \in Phases /\ agreements' \subseteq Ids \X Ids
<1> USE DEF EstateTypeOK
<1>1. CASE RosterNext \/ RightsNext
  BY <1>1 DEF RosterNext, AddHeir, AddHelper, RemoveParticipant, RemoveHelper, InviteTrustee,
              TransferCaptain, RightsNext, PatchRights
<1>2. CASE PhaseNext
  BY <1>2 DEF PhaseNext, CreateWelcome, SetEstateName, CloseRegistration, StartSession,
              MarkInventoryComplete, ReopenInventory, Phases
<1>3. CASE SeatNext
  BY <1>3 DEF SeatNext, TrusteeTakeOver, TrusteeHandBack, RecordMethodAgreement, rosterVars, Roster
<1>4. CASE LinkNext \/ PassphraseNext
  BY <1>4 DEF LinkNext, IssueToken, RedeemToken, TokenExpires, SessionEnds, NotSignIn, rosterVars,
              PassphraseNext, SetPassphraseBegin, SetPassphraseEnd, ClearPassphrase, VerifyBegin,
              VerifyEnd, Restart
<1>5. CASE UNCHANGED estateVars
  BY <1>5 DEF estateVars, rosterVars
<1>6. QED BY <1>1, <1>2, <1>3, <1>4, <1>5 DEF EstateNext

\* Every variable keeps its type.
THEOREM EstateIsTyped == EstateSpec => []EstateTypeOK
<1>1. EstateInit => EstateTypeOK
  BY IdsAssumption DEF EstateInit, EstateTypeOK, Row, Roles, Phases
<1>2. ASSUME EstateTypeOK, [EstateNext]_estateVars PROVE EstateTypeOK'
  BY <1>2, RosterTypes, SignInTypes, PhaseTypes DEF EstateTypeOK
<1>3. QED BY <1>1, <1>2, PTL DEF EstateSpec

-----------------------------------------------------------------------------
(* The trustee *)

\* A trustee is invited without a turn, and neither a patch nor handing the role
\* over gives him one.
LEMMA TrusteeStaysOut ==
  ASSUME EstateTypeOK, TrusteeNeverDrafts, [EstateNext]_estateVars
  PROVE  TrusteeNeverDrafts'
<1>1. ASSUME NEW p \in Ids, SeatSteps(p) PROVE TrusteeNeverDrafts'
  BY <1>1, RosterMoves DEF TrusteeNeverDrafts
<1>2. ASSUME NEW a \in Ids, NEW p \in Ids, TransferCaptain(a, p) PROVE TrusteeNeverDrafts'
  <2>1. people'[a].role # "trustee"
    BY <1>2, TransferRows DEF TrusteeNeverDrafts
  <2>2. people'[p].role # "trustee"
    BY <1>2, TransferRows
  <2>3. QED BY <1>2, <2>1, <2>2, TransferRows DEF TrusteeNeverDrafts
<1>3. CASE people' = people
  BY <1>3 DEF TrusteeNeverDrafts
<1>4. QED BY <1>1, <1>2, <1>3, StepKinds DEF SeatMoves, TrusteeTakeOver, TrusteeHandBack, rosterVars

\* Whatever roles are handed over and whatever rights patched, a trustee is never
\* made to draft.
THEOREM TrusteesDoNotDraft == EstateSpec => []TrusteeNeverDrafts
<1>1. EstateInit => TrusteeNeverDrafts
  BY DEF EstateInit, Row, TrusteeNeverDrafts
<1>2. QED BY <1>1, EstateIsTyped, TrusteeStaysOut, PTL DEF EstateSpec

\* A step moves the captain's seat to a newcomer whom nobody administers, or to
\* the trustee who takes over, or away from the trustee who hands back.
LEMMA SeatMoveKinds ==
  ASSUME [EstateNext]_estateVars
  PROVE  \/ UNCHANGED seatVars
         \/ Admins = {} /\ trusteeSeat' = trusteeSeat
         \/ trusteeSeat' = captain'
         \/ trusteeSeat' = Nobody
<1>1. ASSUME NEW p \in Ids, SeatSteps(p)
      PROVE  UNCHANGED seatVars \/ (Admins = {} /\ trusteeSeat' = trusteeSeat)
  BY <1>1 DEF SeatSteps, CreateWelcome, AddHeir, AddHelper, PatchRights, InviteTrustee,
              RemoveParticipant, RemoveHelper, seatVars
<1>2. ASSUME NEW a \in Ids, NEW p \in Ids, TransferCaptain(a, p)
      PROVE  UNCHANGED seatVars
  BY <1>2 DEF TransferCaptain
<1>3. ASSUME NEW t \in Ids, TrusteeTakeOver(t) \/ TrusteeHandBack(t)
      PROVE  trusteeSeat' = captain' \/ trusteeSeat' = Nobody
  BY <1>3 DEF TrusteeTakeOver, TrusteeHandBack
<1>4. QED BY <1>1, <1>2, <1>3, StepKinds DEF SeatMoves

\* While somebody administers, the captain's seat and the trustee's move together.
THEOREM SeatIsDerived == EstateSpec => SeatsMoveTogether
<1>1. ASSUME [EstateNext]_estateVars
      PROVE  [/\ trusteeSeat = Nobody \/ TrusteeInCharge
              /\ trusteeSeat' # Nobody
              /\ Admins # {}
              => captain' = trusteeSeat']_estateVars
  BY <1>1, SeatMoveKinds DEF TrusteeInCharge, seatVars
<1>2. QED BY <1>1, PTL DEF EstateSpec, SeatsMoveTogether

-----------------------------------------------------------------------------
(* Signing in *)

\* A device comes in with a new row, with a link that is used up, or for one
\* who administers when the hash is done.
LEMMA DevicesComeIn ==
  ASSUME EstateTypeOK, [EstateNext]_estateVars, NEW p \in devices' \ devices
  PROVE  p \in Admins \/ links' # links \/ people' # people
<1>1. CASE \E q \in Ids, drafts \in BOOLEAN : CreateWelcome(q, drafts)
  BY <1>1 DEF EstateTypeOK, CreateWelcome, Fresh, Seat, Row
<1>2. CASE \E q \in Ids : RedeemToken(q)
  <2>1. PICK q \in Ids : RedeemToken(q)
    BY <1>2
  <2>2. links'[q] = links[q] - 1 /\ links[q] \in Nat
    BY <2>1 DEF RedeemToken, EstateTypeOK
  <2>3. QED BY <2>2
<1>3. CASE \E q \in Ids : VerifyEnd(q)
  BY <1>3 DEF VerifyEnd
<1>4. CASE devices' \subseteq devices
  BY <1>4
<1>5. CASE RosterNext \/ RightsNext
  BY <1>4, <1>5 DEF RosterNext, AddHeir, AddHelper, RemoveParticipant, RemoveHelper, InviteTrustee,
                    TransferCaptain, RightsNext, PatchRights, signInVars
<1>6. CASE PhaseNext
  BY <1>1, <1>4, <1>6 DEF PhaseNext, SetEstateName, CloseRegistration, StartSession,
                          MarkInventoryComplete, ReopenInventory, signInVars
<1>7. CASE SeatNext
  BY <1>4, <1>7 DEF SeatNext, TrusteeTakeOver, TrusteeHandBack, RecordMethodAgreement, signInVars
<1>8. CASE LinkNext
  BY <1>2, <1>4, <1>8 DEF LinkNext, IssueToken, TokenExpires, SessionEnds
<1>9. CASE PassphraseNext
  BY <1>3, <1>4, <1>9 DEF PassphraseNext, SetPassphraseBegin, SetPassphraseEnd, ClearPassphrase,
                          VerifyBegin, Restart
<1>10. QED BY <1>4, <1>5, <1>6, <1>7, <1>8, <1>9 DEF EstateNext, estateVars, signInVars

\* A passphrase signs in whoever administers when its hash is done, and nobody
\* else, though the credential was read before.
THEOREM PassphraseNeedsTheRole == EstateSpec => PassphraseOpensForAdmins
<1>1. ASSUME EstateTypeOK, [EstateNext]_estateVars
      PROVE  [\A p \in devices' \ devices :
                p \in Admins \/ links' # links \/ people' # people]_estateVars
  BY <1>1, DevicesComeIn
<1>2. QED BY <1>1, EstateIsTyped, PTL DEF EstateSpec, PassphraseOpensForAdmins
=============================================================================
