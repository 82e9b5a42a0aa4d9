------------------------------ MODULE Addendum ------------------------------
(***************************************************************************)
(* The inventory of a Registry and the signed addenda taken from it: which *)
(* items were kept, whom they are assigned to, the versions each owner     *)
(* signed and the bundle files that go with them.                          *)
(*                                                                         *)
(* The handlers only await work that is done at once, so each of them runs *)
(* without another between its steps; the process may still stop between   *)
(* the bundle file and the version row.                                    *)
(*                                                                         *)
(* Of an item only two parts are told apart: the content an update looks   *)
(* at (title, description, story, quantity, condition, identifiers, value, *)
(* room, category) and the other things that travel with it (recipient     *)
(* hint, the owner's mark and comment, site, basis of the value, media).   *)
(*                                                                         *)
(* Left out: caretakers' details, the notice that two participants         *)
(* assigned an item differently, the state of the prints, the audit.       *)
(***************************************************************************)
EXTENDS Integers, Sequences, FiniteSets

CONSTANTS
  Items,          \* inventory items
  Persons,        \* the people who may be put on the list of heirs
  Unassigned,     \* assigned_to_heir_id = null
  Owners,         \* participants who sign
  Caretakers,     \* wills caretakers on file
  Trustees,       \* the people who may be put on file as trustees
  Unshipped,      \* no package ever held the item
  MaxSignings     \* bound on the versions of one owner

ASSUME AddendumAssumption ==
  /\ Unassigned \notin Persons
  /\ Unshipped \notin [content : BOOLEAN, other : BOOLEAN]
  /\ MaxSignings \in Nat

VARIABLES
  heirs,      \* heirs: the people on the list
  trustees,   \* trustees
  items,      \* items
  shipped,    \* each item as the last package held it
  versions,   \* addendum_versions of each owner
  bundles     \* the .addendum files on disk

addendumVars == <<heirs, trustees, items, shipped, versions, bundles>>

Reviews == {"absent", "draft", "kept", "rejected"}
\* export_state.  "claimed" stands for the 'exported' a request named itself.
Exports == {"never", "exported", "claimed", "changed_since_export"}
Item    == [review : Reviews, heir : Persons \cup {Unassigned}, content : BOOLEAN,
            other : BOOLEAN, exported : Exports]
Packed  == [content : BOOLEAN, other : BOOLEAN]
Signed  == [snapshot : SUBSET (Items \X Persons), supersedes : Nat, frozen : BOOLEAN]

AddendumTypeOK ==
  /\ heirs \subseteq Persons
  /\ trustees \subseteq Trustees
  /\ items \in [Items -> Item]
  /\ shipped \in [Items -> Packed \cup {Unshipped}]
  /\ versions \in [Owners -> Seq(Signed)]
  /\ bundles \subseteq Owners \X Nat \X SUBSET (Items \X Persons)

Blank == [review |-> "absent", heir |-> Unassigned, content |-> FALSE, other |-> FALSE,
          exported |-> "never"]

AddendumInit ==
  /\ heirs = {} /\ trustees = {}
  /\ items = [i \in Items |-> Blank]
  /\ shipped = [i \in Items |-> Unshipped]
  /\ versions = [o \in Owners |-> <<>>]
  /\ bundles = {}

-----------------------------------------------------------------------------
(* The people on file *)

AddHeir(p) ==
  /\ p \notin heirs
  /\ heirs' = heirs \cup {p}
  /\ UNCHANGED <<trustees, items, shipped, versions, bundles>>

\* Mutant: nobody looks whether something is still assigned to them.
RemoveHeirUnchecked(p) ==
  /\ p \in heirs
  /\ heirs' = heirs \ {p}
  /\ UNCHANGED <<trustees, items, shipped, versions, bundles>>
RemoveHeir(p) ==
  /\ p \in heirs
  /\ \A i \in Items : items[i].heir # p
  /\ heirs' = heirs \ {p}
  /\ UNCHANGED <<trustees, items, shipped, versions, bundles>>

AddTrustee(t) ==
  /\ t \notin trustees
  /\ trustees' = trustees \cup {t}
  /\ UNCHANGED <<heirs, items, shipped, versions, bundles>>
RemoveTrustee(t) ==
  /\ t \in trustees
  /\ trustees' = trustees \ {t}
  /\ UNCHANGED <<heirs, items, shipped, versions, bundles>>

-----------------------------------------------------------------------------
(* The inventory *)

OnlyItems == UNCHANGED <<heirs, trustees, shipped, versions, bundles>>

\* A new row is a draft until somebody keeps or rejects it.
CreateItem(i) ==
  /\ items[i].review = "absent"
  /\ items' = [items EXCEPT ![i].review = "draft"]
  /\ OnlyItems

\* Mutant: the new content is not noticed.
EditItemSilently(i) ==
  /\ items[i].review # "absent"
  /\ items' = [items EXCEPT ![i].content = ~@]
  /\ OnlyItems
\* A change of content marks an exported item as changed.
EditItem(i) ==
  /\ items[i].review # "absent"
  /\ items' = [items EXCEPT ![i].content = ~@,
                            ![i].exported = IF @ \in {"exported", "claimed"}
                                              THEN "changed_since_export" ELSE @]
  /\ OnlyItems

\* The update looks at nothing else: a hint, a mark or a photo changes unseen.
EditOther(i) ==
  /\ items[i].review # "absent"
  /\ items' = [items EXCEPT ![i].other = ~@]
  /\ OnlyItems

\* The body of the request is merged as it came, the export state included.
PatchExportState(i, state) ==
  /\ items[i].review # "absent"
  /\ items' = [items EXCEPT ![i].exported = state]
  /\ OnlyItems

ReviewItem(i, verdict) ==
  /\ items[i].review # "absent"
  /\ items' = [items EXCEPT ![i].review = verdict]
  /\ OnlyItems

\* Helpers may not assign.  Any other participant may, to somebody on the list.
AssignHeir(i, h) ==
  /\ items[i].review # "absent"
  /\ h \in heirs \cup {Unassigned}
  /\ items' = [items EXCEPT ![i].heir = h]
  /\ OnlyItems

\* The deleted row takes its assignment along; a later item is another row.
DeleteItem(i) ==
  /\ items[i].review # "absent"
  /\ items' = [items EXCEPT ![i] = Blank]
  /\ shipped' = [shipped EXCEPT ![i] = Unshipped]
  /\ UNCHANGED <<heirs, trustees, versions, bundles>>

Reviewed(verdict) == {i \in Items : items[i].review = verdict}
Kept == Reviewed("kept")

-----------------------------------------------------------------------------
(* Signing and freezing *)

LatestOf(o) == Len(versions[o])
Frozen(o)   == versions[o] # <<>> /\ versions[o][LatestOf(o)].frozen

\* An item whose heir is no longer on the list is reported as a gap instead.
Collected == {<<i, items[i].heir>> : i \in {j \in Kept : items[j].heir \in heirs}}

\* Refused when frozen, when nothing is assigned and when nobody would get it.
Signable(o) ==
  /\ ~Frozen(o)
  /\ Collected # {}
  /\ Caretakers \cup trustees # {}

WriteBundleFile(o) == bundles' = bundles \cup {<<o, LatestOf(o) + 1, Collected>>}
RecordVersion(o) ==
  versions' = [versions EXCEPT ![o] =
                 Append(@, [snapshot |-> Collected, supersedes |-> LatestOf(o), frozen |-> FALSE])]

SignAndWriteAddendum(o) ==
  /\ Signable(o)
  /\ LatestOf(o) < MaxSignings
  /\ WriteBundleFile(o) /\ RecordVersion(o)
  /\ UNCHANGED <<heirs, trustees, items, shipped>>

\* Mutant: the row is written first.
CrashWhileSigningRowFirst(o) ==
  /\ Signable(o)
  /\ LatestOf(o) < MaxSignings
  /\ RecordVersion(o)
  /\ UNCHANGED <<heirs, trustees, items, shipped, bundles>>
\* The process stops after the file and before the row.
CrashWhileSigning(o) ==
  /\ Signable(o)
  /\ LatestOf(o) < MaxSignings
  /\ WriteBundleFile(o)
  /\ UNCHANGED <<heirs, trustees, items, shipped, versions>>

FreezeLatest(o) ==
  /\ versions[o] # <<>> /\ ~Frozen(o)
  /\ versions' = [versions EXCEPT ![o][LatestOf(o)].frozen = TRUE]
  /\ UNCHANGED <<heirs, trustees, items, shipped, bundles>>

PeopleNext ==
  \/ \E p \in Persons : AddHeir(p) \/ RemoveHeir(p)
  \/ \E t \in Trustees : AddTrustee(t) \/ RemoveTrustee(t)

RowNext ==
  \E i \in Items :
    \/ CreateItem(i) \/ EditItem(i) \/ DeleteItem(i)
    \/ \E verdict \in Reviews \ {"absent"} : ReviewItem(i, verdict)
    \/ \E h \in heirs \cup {Unassigned} : AssignHeir(i, h)

UnseenNext ==
  \E i \in Items :
    EditOther(i) \/ \E state \in Exports \ {"exported"} : PatchExportState(i, state)

SigningNext ==
  \E o \in Owners : SignAndWriteAddendum(o) \/ CrashWhileSigning(o) \/ FreezeLatest(o)

AddendumNext == PeopleNext \/ RowNext \/ UnseenNext \/ SigningNext

-----------------------------------------------------------------------------
(* Properties *)

\* No item is left to somebody who is not on the list, so an addendum never
\* drops an assigned item as a gap.
NoPhantomHeir == \A i \in Items : items[i].heir # Unassigned => items[i].heir \in heirs

\* Every version on record has its bundle on disk with the same assignments,
\* wherever the process stopped, and replaces the version before it.
VersionsHaveBundles ==
  \A o \in Owners : \A n \in DOMAIN versions[o] :
    /\ <<o, n, versions[o][n].snapshot>> \in bundles
    /\ versions[o][n].snapshot # {}
    /\ versions[o][n].supersedes = n - 1

PapersOnFile == UNION {{<<o, n, versions[o][n].snapshot>> : n \in DOMAIN versions[o]} : o \in Owners}

Archive == INSTANCE SignedPapers
             WITH Authors <- Owners, papers <- PapersOnFile, closed <- {o \in Owners : Frozen(o)}

\* An addendum is signed as a whole, after the one before it and never empty;
\* what it says is not altered, by the freeze least of all, and a frozen owner
\* signs no other.
KeepsAddenda == Archive!Spec
=============================================================================
