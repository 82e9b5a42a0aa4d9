----------------------------- MODULE Memorandum -----------------------------
(***************************************************************************)
(* The memoranda of a Registry: each participant's own list of who should  *)
(* get what, kept as rows of memorandum_entries.                           *)
(*                                                                         *)
(* A list is a draft until it is signed.  A signed version is never edited *)
(* again: opening the writer afterwards copies it into the next version.   *)
(* In a couple's household a signing also stores how many items the two    *)
(* latest lists disagree about.                                            *)
(*                                                                         *)
(* Left out: notes, printed pages and the audit entries.                   *)
(***************************************************************************)
EXTENDS Household

CONSTANTS
  Things,       \* inventory items
  Family,       \* the people an item can be left to
  Undecided,    \* assigned_to_heir_id = null
  MaxVersion    \* bound on the versions of one list

ASSUME MemorandumAssumption ==
  IsFiniteSet(Things) /\ Undecided \notin Family /\ MaxVersion \in Nat

VARIABLES
  entries,      \* memorandum_entries
  signings      \* memorandum_signings

memoVars     == <<entries, signings>>
registryVars == <<householdVars, memoVars>>

Versions == 1..MaxVersion
Entry    == [who : Emails, version : Versions, item : Things,
             heir : Family \cup {Undecided}, star : BOOLEAN, signed : BOOLEAN]

MemorandumTypeOK ==
  /\ HouseholdTypeOK
  /\ entries \subseteq Entry
  /\ signings \subseteq [who : Emails, version : Versions,
                         snapshot : SUBSET (Things \X (Family \cup {Undecided})),
                         conflicts : 0..Cardinality(Things)]

MemorandumInit == HouseholdInit /\ entries = {} /\ signings = {}

-----------------------------------------------------------------------------
(* Reading the lists *)

Rows(e, v) == {r \in entries : r.who = e /\ r.version = v}

HighestOf(vs) == IF vs = {} THEN 0 ELSE CHOOSE v \in vs : \A w \in vs : w <= v
LatestVersion(e) == HighestOf({r.version : r \in {s \in entries : s.who = e}})
DraftVersion(e)  == HighestOf({r.version : r \in {s \in entries : s.who = e /\ ~s.signed}})

\* The items on which the latest lists of d and e name different people, or
\* which both have starred and assigned.
Conflicts(d, e) ==
  {i \in Things :
     \E r \in Rows(d, LatestVersion(d)), s \in Rows(e, LatestVersion(e)) :
       /\ r.item = i /\ s.item = i
       /\ r.heir # Undecided /\ s.heir # Undecided
       /\ r.heir # s.heir \/ (r.star /\ s.star)}

\* findPartnerId: the first other active participant, whatever their role.
Counterparts(e) ==
  IF mode = "couple"
  THEN LET others == {k \in DOMAIN roster : roster[k] # e /\ people[roster[k]].status = "active"}
       IN {roster[k] : k \in {j \in others : \A m \in others : j <= m}}
  ELSE {}

-----------------------------------------------------------------------------
(* Writing them.  Every route needs a session; the bootstrap owner is        *)
(* refused.                                                                  *)

Snapshot(rows) == {<<r.item, r.heir>> : r \in rows}

\* The next version starts from the signed one.  The star is not copied.
Seeded(rows) ==
  {[r EXCEPT !.version = @ + 1, !.signed = FALSE, !.star = FALSE] : r \in rows}

\* Mutant: a draft that is open already does not stop another one.
OpenDraftAgain(e) ==
  /\ sessions[e] > 0
  /\ LatestVersion(e) \in 1..MaxVersion - 1
  /\ entries' = entries \cup Seeded(Rows(e, LatestVersion(e)))
  /\ UNCHANGED <<householdVars, signings>>

\* GET /memorandum: without a draft it opens one, unless nothing was ever written.
OpenDraft(e) ==
  /\ sessions[e] > 0
  /\ DraftVersion(e) = 0
  /\ LatestVersion(e) \in 1..MaxVersion - 1
  /\ entries' = entries \cup Seeded(Rows(e, LatestVersion(e)))
  /\ UNCHANGED <<householdVars, signings>>

Written(e, v, i, h, star) ==
  [who |-> e, version |-> v, item |-> i, heir |-> h, star |-> star, signed |-> FALSE]

\* Mutant: without a draft the entry goes into the latest version.
UpsertEntryInPlace(e, i, h, star) ==
  /\ sessions[e] > 0
  /\ LET v == IF LatestVersion(e) = 0 THEN 1 ELSE LatestVersion(e)
     IN entries' = {r \in entries : ~(r.who = e /\ r.version = v /\ r.item = i)}
                     \cup {Written(e, v, i, h, star)}
  /\ UNCHANGED <<householdVars, signings>>

\* The target is the open draft, or else a new version with this entry alone.
TargetVersion(e) == IF DraftVersion(e) # 0 THEN DraftVersion(e) ELSE LatestVersion(e) + 1
UpsertEntry(e, i, h, star) ==
  /\ sessions[e] > 0
  /\ TargetVersion(e) <= MaxVersion
  /\ entries' = {r \in entries : ~(r.who = e /\ r.version = TargetVersion(e) /\ r.item = i)}
                  \cup {Written(e, TargetVersion(e), i, h, star)}
  /\ UNCHANGED <<householdVars, signings>>

\* Mutant: an entry of a signed version goes too.
DeleteAnyEntry(e, r) ==
  /\ sessions[e] > 0
  /\ r.who = e
  /\ entries' = entries \ {r}
  /\ UNCHANGED <<householdVars, signings>>
DeleteEntry(e, r) ==
  /\ sessions[e] > 0
  /\ r.who = e /\ ~r.signed
  /\ entries' = entries \ {r}
  /\ UNCHANGED <<householdVars, signings>>

\* The draft is frozen and its contents are kept as the signing's snapshot.
Sign(e) ==
  /\ sessions[e] > 0
  /\ DraftVersion(e) # 0
  /\ LET draft == Rows(e, DraftVersion(e))
     IN /\ entries' = (entries \ draft) \cup {[r EXCEPT !.signed = TRUE] : r \in draft}
        /\ signings' = signings \cup
             {[who |-> e, version |-> DraftVersion(e), snapshot |-> Snapshot(draft),
               conflicts |-> Cardinality(UNION {Conflicts(e, d) : d \in Counterparts(e)})]}
  /\ UNCHANGED householdVars

MemorandumNext ==
  \E e \in Emails :
    \/ OpenDraft(e)
    \/ \E i \in Things, h \in Family \cup {Undecided}, star \in BOOLEAN : UpsertEntry(e, i, h, star)
    \/ \E r \in entries : DeleteEntry(e, r)
    \/ Sign(e)

RegistryNext == MemorandumNext \/ (HouseholdNext /\ UNCHANGED memoVars)

RegistrySpec == MemorandumInit /\ [][RegistryNext]_registryVars

-----------------------------------------------------------------------------
(* Properties *)

\* A signed list with what is read from it: its rows, and the number of
\* disagreements kept with the signing.
PapersOnFile ==
  {<<s.who, s.version, {<<r.item, r.heir, r.star, s.conflicts>> : r \in Rows(s.who, s.version)}>> :
     s \in signings}

Archive == INSTANCE SignedPapers WITH Authors <- Emails, papers <- PapersOnFile, closed <- {}

\* A list is signed as a whole, after the one before it and never empty, and
\* stays on record unchanged whatever is drafted, deleted or signed later: an
\* old version can always be printed again.
KeepsPapers == Archive!Spec

\* The rows of a version that was signed are those its paper shows, all of them
\* signed, and nothing is signed without a paper.
PaperMatchesRecord ==
  /\ \A s \in signings :
       /\ Snapshot(Rows(s.who, s.version)) = s.snapshot
       /\ \A r \in Rows(s.who, s.version) : r.signed
       /\ \A t \in signings : t.who = s.who /\ t.version = s.version => t = s
  /\ \A r \in entries : r.signed => \E s \in signings : s.who = r.who /\ s.version = r.version

\* A person has at most one draft, it is newer than everything they signed, and
\* no version is skipped between the two.
DraftOnTop ==
  \A r \in entries : ~r.signed =>
    /\ \A s \in entries : s.who = r.who /\ ~s.signed => s.version = r.version
    /\ {s.version : s \in {t \in signings : t.who = r.who}} = 1..r.version - 1
=============================================================================
