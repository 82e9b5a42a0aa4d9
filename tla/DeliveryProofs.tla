--------------------------- MODULE DeliveryProofs ---------------------------
(* Proofs about Addendum and Delivery, for any items, people and packages.   *)
EXTENDS Delivery, TLAPS, SequenceTheorems

-----------------------------------------------------------------------------
(* Types *)

\* What an owner signs is a set of assignments to people on the list.
LEMMA CollectedTypes ==
  ASSUME AddendumTypeOK
  PROVE  Collected \in SUBSET (Items \X Persons)
  BY DEF AddendumTypeOK, Collected, Kept, Reviewed

\* The versions of an owner are numbered from one.
LEMMA VersionRow ==
  ASSUME AddendumTypeOK, NEW o \in Owners
  PROVE  /\ versions[o] \in Seq(Signed) /\ LatestOf(o) \in Nat
         /\ DOMAIN versions[o] = 1..LatestOf(o)
         /\ versions[o] # <<>> => LatestOf(o) \in DOMAIN versions[o]
         /\ versions[o] = <<>> => LatestOf(o) = 0
<1>1. versions[o] \in Seq(Signed)
  BY DEF AddendumTypeOK
<1>2. Len(versions[o]) \in Nat /\ DOMAIN versions[o] = 1..Len(versions[o])
  BY <1>1, LenProperties
<1>3. versions[o] # <<>> => Len(versions[o]) # 0
  BY <1>1, EmptySeq
<1>4. QED BY <1>1, <1>2, <1>3, EmptySeq DEF LatestOf

\* Signing appends one version to its owner's and leaves the others alone.
LEMMA RecordAppends ==
  ASSUME AddendumTypeOK, NEW o \in Owners, RecordVersion(o)
  PROVE  /\ versions' \in [Owners -> Seq(Signed)]
         /\ \A p \in Owners \ {o} : versions'[p] = versions[p]
         /\ Len(versions'[o]) = LatestOf(o) + 1
         /\ DOMAIN versions'[o] = 1..LatestOf(o) + 1
         /\ versions'[o][LatestOf(o) + 1].snapshot = Collected
         /\ versions'[o][LatestOf(o) + 1].supersedes = LatestOf(o)
         /\ \A n \in 1..LatestOf(o) : versions'[o][n] = versions[o][n]
<1> DEFINE new == [snapshot |-> Collected, supersedes |-> LatestOf(o), frozen |-> FALSE]
<1>1. versions \in [Owners -> Seq(Signed)] /\ versions[o] \in Seq(Signed) /\ LatestOf(o) \in Nat
  BY VersionRow DEF AddendumTypeOK
<1>2. new \in Signed /\ new.snapshot = Collected /\ new.supersedes = LatestOf(o)
  BY <1>1, CollectedTypes DEF Signed
<1>3. versions' = [versions EXCEPT ![o] = Append(versions[o], new)]
  BY DEF RecordVersion
<1> HIDE DEF new
<1>4. /\ Append(versions[o], new) \in Seq(Signed)
      /\ Len(Append(versions[o], new)) = LatestOf(o) + 1
      /\ Append(versions[o], new)[LatestOf(o) + 1] = new
      /\ \A n \in 1..LatestOf(o) : Append(versions[o], new)[n] = versions[o][n]
  BY <1>1, <1>2, AppendProperties DEF LatestOf
<1>5. DOMAIN Append(versions[o], new) = 1..LatestOf(o) + 1
  BY <1>4, LenProperties
<1>6. /\ versions'[o] = Append(versions[o], new)
      /\ \A p \in Owners \ {o} : versions'[p] = versions[p]
      /\ versions' \in [Owners -> Seq(Signed)]
  BY <1>1, <1>3, <1>4
<1> DEFINE t == Append(versions[o], new)
<1>7. /\ Len(t) = LatestOf(o) + 1 /\ DOMAIN t = 1..LatestOf(o) + 1 /\ versions'[o] = t
      /\ t[LatestOf(o) + 1] = new /\ \A n \in 1..LatestOf(o) : t[n] = versions[o][n]
  BY <1>4, <1>5, <1>6
<1> HIDE DEF t
<1>8. Len(versions'[o]) = LatestOf(o) + 1
  BY <1>7
<1>9. DOMAIN versions'[o] = 1..LatestOf(o) + 1
  BY <1>7
<1>10. \A n \in 1..LatestOf(o) : versions'[o][n] = versions[o][n]
  BY <1>7
<1>11. versions'[o][LatestOf(o) + 1] = new
  BY <1>7
<1>12. QED BY <1>2, <1>6, <1>8, <1>9, <1>10, <1>11

\* Freezing changes the last version of its owner, and of that the frozen mark.
LEMMA FreezeMarks ==
  ASSUME AddendumTypeOK, NEW o \in Owners, FreezeLatest(o)
  PROVE  /\ versions' \in [Owners -> Seq(Signed)]
         /\ \A p \in Owners : LatestOf(p)' = LatestOf(p) /\ DOMAIN versions'[p] = DOMAIN versions[p]
                              /\ (versions'[p] = <<>> <=> versions[p] = <<>>)
         /\ \A p \in Owners \ {o} : versions'[p] = versions[p]
         /\ \A n \in DOMAIN versions[o] :
              /\ versions'[o][n].snapshot = versions[o][n].snapshot
              /\ versions'[o][n].supersedes = versions[o][n].supersedes
<1>1. /\ versions \in [Owners -> Seq(Signed)] /\ versions[o] \in Seq(Signed) /\ LatestOf(o) \in Nat
      /\ DOMAIN versions[o] = 1..LatestOf(o) /\ LatestOf(o) \in 1..Len(versions[o])
      /\ LatestOf(o) = Len(versions[o])
  BY VersionRow DEF AddendumTypeOK, FreezeLatest, LatestOf
<1> DEFINE e == [versions[o][LatestOf(o)] EXCEPT !.frozen = TRUE]
<1>2. versions[o][LatestOf(o)] \in Signed
  BY <1>1, ElementOfSeq
<1>3. e \in Signed /\ e.snapshot = versions[o][LatestOf(o)].snapshot
      /\ e.supersedes = versions[o][LatestOf(o)].supersedes
  BY <1>2 DEF Signed
<1>4. versions' = [versions EXCEPT ![o] = [versions[o] EXCEPT ![LatestOf(o)] = e]]
  BY DEF FreezeLatest
<1> HIDE DEF e
<1> DEFINE t == [versions[o] EXCEPT ![LatestOf(o)] = e]
<1>5. /\ t \in Seq(Signed) /\ Len(t) = Len(versions[o])
      /\ \A j \in 1..Len(versions[o]) : t[j] = IF j = LatestOf(o) THEN e ELSE versions[o][j]
  BY <1>1, <1>3, ExceptSeq
<1> HIDE DEF t
<1>6. DOMAIN t = DOMAIN versions[o] /\ (t = <<>> <=> versions[o] = <<>>)
  BY <1>1, <1>5, LenProperties, EmptySeq
<1>7. /\ versions'[o] = t
      /\ \A p \in Owners \ {o} : versions'[p] = versions[p]
      /\ versions' \in [Owners -> Seq(Signed)]
  BY <1>1, <1>4, <1>5 DEF t
<1>8. \A n \in DOMAIN versions[o] : /\ t[n].snapshot = versions[o][n].snapshot
                                    /\ t[n].supersedes = versions[o][n].supersedes
  BY <1>1, <1>3, <1>5
<1>9. \A p \in Owners : /\ Len(versions'[p]) = Len(versions[p])
                        /\ DOMAIN versions'[p] = DOMAIN versions[p]
                        /\ versions'[p] = <<>> <=> versions[p] = <<>>
  BY <1>5, <1>6, <1>7
<1>10. \A p \in Owners : LatestOf(p)' = LatestOf(p)
  BY <1>9 DEF LatestOf
<1>11. \A n \in DOMAIN versions[o] : /\ versions'[o][n].snapshot = versions[o][n].snapshot
                                     /\ versions'[o][n].supersedes = versions[o][n].supersedes
  BY <1>7, <1>8
<1>12. QED BY <1>7, <1>9, <1>10, <1>11

InventoryStep == RowNext \/ UnseenNext

\* The kinds of steps of a package.
LEMMA StepKinds ==
  ASSUME [DeliveryNext]_packageVars
  PROVE  \/ InventoryStep /\ UNCHANGED <<heirs, trustees, versions, bundles, deliveryVars>>
         \/ PeopleNext /\ UNCHANGED <<items, shipped, versions, bundles, deliveryVars>>
         \/ \E o \in Owners : (SignAndWriteAddendum(o) \/ CrashWhileSigning(o) \/ FreezeLatest(o))
                              /\ UNCHANGED deliveryVars
         \/ \E c \in SUBSET Items, m \in {{}, ListFrozen} : WriteBundle(c, m)
         \/ UNCHANGED <<addendumVars, carried>>
<1>1. CASE AddendumNext /\ UNCHANGED deliveryVars
  <2>1. CASE PeopleNext
    BY <1>1, <2>1 DEF PeopleNext, AddHeir, RemoveHeir, AddTrustee, RemoveTrustee
  <2>2. CASE RowNext
    BY <1>1, <2>2 DEF RowNext, InventoryStep, CreateItem, EditItem, DeleteItem, ReviewItem,
                      AssignHeir, OnlyItems
  <2>3. CASE UnseenNext
    BY <1>1, <2>3 DEF UnseenNext, InventoryStep, EditOther, PatchExportState, OnlyItems
  <2>4. CASE SigningNext
    BY <1>1, <2>4 DEF SigningNext
  <2>5. QED BY <1>1, <2>1, <2>2, <2>3, <2>4 DEF AddendumNext
<1>2. CASE ExportNext
  <2>1. \A review : Reviewed(review) \in SUBSET Items
    BY DEF Reviewed
  <2>2. QED BY <1>2, <2>1 DEF ExportNext, ExportBundle
<1>3. CASE \E d \in Packages, method \in {"email_attachment", "email_link"}, chosen \in SUBSET Written :
             Prepare(d, method, chosen)
  <2>1. Written \subseteq Items
    BY DEF Written
  <2>2. QED BY <1>3, <2>1 DEF Prepare
<1>4. CASE \E d \in Packages : SendBegin(d) \/ SendAccepted(d) \/ SendRefused(d)
                               \/ ResolveLink(d) \/ PackageLinkExpires(d)
  BY <1>4 DEF SendBegin, SendAccepted, SendRefused, ResolveLink, PackageLinkExpires
<1>5. CASE Stop \/ UNCHANGED packageVars
  BY <1>5 DEF Stop, packageVars, deliveryVars
<1>6. QED BY <1>1, <1>2, <1>3, <1>4, <1>5 DEF DeliveryNext, PackageNext

\* What an edit leaves of an item: its review, its heir, and nothing that reads as exported.
LEMMA EditFlips ==
  ASSUME AddendumTypeOK, NEW i \in Items, EditItem(i)
  PROVE  \E c \in BOOLEAN, x \in Exports \ {"exported"} :
           items' = [items EXCEPT ![i] = [items[i] EXCEPT !.content = c, !.exported = x]]
<1>1. PICK c \in BOOLEAN : c = ~items[i].content
  BY Zenon
<1>2. items[i] \in Item
  BY DEF AddendumTypeOK
<1>3. items' = [items EXCEPT ![i].content = c,
                ![i].exported = IF @ \in {"exported", "claimed"} THEN "changed_since_export" ELSE @]
  BY <1>1, Zenon DEF EditItem
<1>4. QED BY <1>2, <1>3 DEF Exports, Item

\* An unseen change leaves its review, its heir and its content.
LEMMA UnseenFlips ==
  ASSUME AddendumTypeOK, NEW i \in Items, EditOther(i)
  PROVE  \E o \in BOOLEAN : items' = [items EXCEPT ![i] = [items[i] EXCEPT !.other = o]]
<1>1. PICK o \in BOOLEAN : o = ~items[i].other
  BY Zenon
<1>2. items' = [items EXCEPT ![i].other = o]
  BY <1>1, Zenon DEF EditOther
<1>3. QED BY <1>2

\* What the inventory and the lists of people become.
LEMMA InventoryTypes ==
  ASSUME AddendumTypeOK, [DeliveryNext]_packageVars
  PROVE  /\ heirs' \subseteq Persons /\ trustees' \subseteq Trustees
         /\ items' \in [Items -> Item] /\ shipped' \in [Items -> Packed \cup {Unshipped}]
<1> USE DEF AddendumTypeOK
<1>1. CASE InventoryStep /\ UNCHANGED <<heirs, trustees, versions, bundles, deliveryVars>>
  <2>1. Blank \in Item
    BY DEF Blank, Item, Reviews, Exports
  <2>2. \A i \in Items : items[i] \in Item
    OBVIOUS
  <2>3. items' \in [Items -> Item]
    <3>1. PICK i \in Items :
            \/ CreateItem(i) \/ EditItem(i) \/ EditOther(i) \/ DeleteItem(i)
            \/ \E state \in Exports \ {"exported"} : PatchExportState(i, state)
            \/ \E verdict \in Reviews \ {"absent"} : ReviewItem(i, verdict)
            \/ \E h \in heirs \cup {Unassigned} : AssignHeir(i, h)
      BY <1>1 DEF InventoryStep, RowNext, UnseenNext
    <3>2. items[i].content \in BOOLEAN /\ items[i].exported \in Exports /\ heirs \subseteq Persons
      BY <2>2 DEF Item
    <3>3. \A e \in Item : items' = [items EXCEPT ![i] = e] => items' \in [Items -> Item]
      OBVIOUS
    <3>4. CASE CreateItem(i)
      BY <2>2, <3>4 DEF CreateItem, Item, Reviews
    <3>5. CASE EditItem(i)
      <4>1. PICK c \in BOOLEAN, x \in Exports :
              items' = [items EXCEPT ![i] = [items[i] EXCEPT !.content = c, !.exported = x]]
        BY <3>5, EditFlips
      <4>2. [items[i] EXCEPT !.content = c, !.exported = x] \in Item
        BY <2>2, <4>1 DEF Item
      <4>3. QED BY <4>1, <4>2
    <3>6. CASE DeleteItem(i)
      BY <2>1, <3>6 DEF DeleteItem
    <3>7. CASE \E verdict \in Reviews \ {"absent"} : ReviewItem(i, verdict)
      <4>1. PICK r \in Reviews : items' = [items EXCEPT ![i] = [items[i] EXCEPT !.review = r]]
        BY <3>7 DEF ReviewItem
      <4>2. [items[i] EXCEPT !.review = r] \in Item
        BY <2>2, <4>1 DEF Item
      <4>3. QED BY <4>1, <4>2
    <3>8. CASE \E h \in heirs \cup {Unassigned} : AssignHeir(i, h)
      BY <2>2, <3>2, <3>8 DEF AssignHeir, Item
    <3>9. CASE EditOther(i)
      <4>1. PICK o \in BOOLEAN : items' = [items EXCEPT ![i] = [items[i] EXCEPT !.other = o]]
        BY <3>9, UnseenFlips
      <4>2. [items[i] EXCEPT !.other = o] \in Item
        BY <2>2, <4>1 DEF Item
      <4>3. QED BY <4>1, <4>2
    <3>10. CASE \E state \in Exports \ {"exported"} : PatchExportState(i, state)
      <4>1. PICK x \in Exports : items' = [items EXCEPT ![i] = [items[i] EXCEPT !.exported = x]]
        BY <3>10 DEF PatchExportState
      <4>2. [items[i] EXCEPT !.exported = x] \in Item
        BY <2>2, <4>1 DEF Item
      <4>3. QED BY <4>1, <4>2
    <3>11. QED BY <3>1, <3>4, <3>5, <3>6, <3>7, <3>8, <3>9, <3>10
  <2>4. shipped' \in [Items -> Packed \cup {Unshipped}]
    BY <1>1 DEF InventoryStep, RowNext, UnseenNext, CreateItem, EditItem, EditOther, DeleteItem,
                PatchExportState, ReviewItem, AssignHeir, OnlyItems
  <2>5. QED BY <1>1, <2>3, <2>4
<1>2. CASE PeopleNext /\ UNCHANGED <<items, shipped, versions, bundles, deliveryVars>>
  BY <1>2 DEF PeopleNext, AddHeir, RemoveHeir, AddTrustee, RemoveTrustee
<1>3. ASSUME NEW c \in SUBSET Items, NEW m, WriteBundle(c, m)
      PROVE  /\ heirs' \subseteq Persons /\ trustees' \subseteq Trustees
             /\ items' \in [Items -> Item] /\ shipped' \in [Items -> Packed \cup {Unshipped}]
  BY <1>3 DEF WriteBundle, Item, Exports, Pack, Packed
<1>4. CASE \E o \in Owners : SignAndWriteAddendum(o) \/ CrashWhileSigning(o) \/ FreezeLatest(o)
  BY <1>4 DEF SignAndWriteAddendum, CrashWhileSigning, FreezeLatest
<1>5. CASE UNCHANGED addendumVars
  BY <1>5 DEF addendumVars
<1>6. QED BY <1>1, <1>2, <1>3, <1>4, <1>5, StepKinds

\* What the versions and the bundles become.
LEMMA VersionTypes ==
  ASSUME AddendumTypeOK, [DeliveryNext]_packageVars
  PROVE  /\ versions' \in [Owners -> Seq(Signed)]
         /\ bundles' \subseteq Owners \X Nat \X SUBSET (Items \X Persons)
<1> USE DEF AddendumTypeOK
<1>1. ASSUME NEW o \in Owners, WriteBundleFile(o)
      PROVE  bundles' \subseteq Owners \X Nat \X SUBSET (Items \X Persons)
  BY <1>1, CollectedTypes, VersionRow DEF WriteBundleFile
<1>2. ASSUME NEW o \in Owners, SignAndWriteAddendum(o)
      PROVE  /\ versions' \in [Owners -> Seq(Signed)]
             /\ bundles' \subseteq Owners \X Nat \X SUBSET (Items \X Persons)
  BY <1>1, <1>2, RecordAppends DEF SignAndWriteAddendum
<1>3. ASSUME NEW o \in Owners, CrashWhileSigning(o)
      PROVE  /\ versions' \in [Owners -> Seq(Signed)]
             /\ bundles' \subseteq Owners \X Nat \X SUBSET (Items \X Persons)
  BY <1>1, <1>3 DEF CrashWhileSigning
<1>4. ASSUME NEW o \in Owners, FreezeLatest(o)
      PROVE  /\ versions' \in [Owners -> Seq(Signed)]
             /\ bundles' \subseteq Owners \X Nat \X SUBSET (Items \X Persons)
  BY <1>4, FreezeMarks DEF FreezeLatest
<1>5. CASE UNCHANGED <<versions, bundles>>
  BY <1>5
<1>6. QED BY <1>2, <1>3, <1>4, <1>5, StepKinds DEF WriteBundle, addendumVars

\* Every variable of the packages keeps its type.
LEMMA PackageTypes ==
  ASSUME DeliveryTypeOK, [DeliveryNext]_packageVars
  PROVE  DeliveryTypeOK'
<1>1. AddendumTypeOK'
  BY InventoryTypes, VersionTypes DEF DeliveryTypeOK, AddendumTypeOK
<1>2. carried' \subseteq Owners \X Nat
  <2>1. ListFrozen \subseteq Owners \X Nat
    BY VersionRow DEF ListFrozen, DeliveryTypeOK
  <2>2. QED BY <2>1, StepKinds DEF WriteBundle, deliveryVars, DeliveryTypeOK, SignAndWriteAddendum
<1>3. /\ deliveries' \in [Packages -> [state : States, method : Methods]]
      /\ sending' \in [Packages -> 0..MaxSends]
      /\ mailed' \subseteq Packages
  <2> USE DEF DeliveryTypeOK
  <2>1. \A d \in Packages : deliveries[d] \in [state : States, method : Methods]
                            /\ sending[d] \in 0..MaxSends
    OBVIOUS
  <2>2. MaxSends \in Nat /\ 0 \in 0..MaxSends
    BY DeliveryAssumption
  <2>3. CASE UNCHANGED <<deliveries, sending, mailed>>
    BY <2>3
  <2>4. ASSUME NEW d \in Packages, NEW method \in {"email_attachment", "email_link"}, NEW chosen,
               Prepare(d, method, chosen)
        PROVE  /\ deliveries' \in [Packages -> [state : States, method : Methods]]
               /\ sending' \in [Packages -> 0..MaxSends]
               /\ mailed' \subseteq Packages
    BY <2>4 DEF Prepare, States, Methods
  <2>5. ASSUME NEW d \in Packages, SendBegin(d)
        PROVE  /\ deliveries' \in [Packages -> [state : States, method : Methods]]
               /\ sending' \in [Packages -> 0..MaxSends]
               /\ mailed' \subseteq Packages
    BY <2>1, <2>2, <2>5 DEF SendBegin
  <2>6. ASSUME NEW d \in Packages, SendAccepted(d) \/ SendRefused(d)
        PROVE  /\ deliveries' \in [Packages -> [state : States, method : Methods]]
               /\ sending' \in [Packages -> 0..MaxSends]
               /\ mailed' \subseteq Packages
    BY <2>1, <2>2, <2>6 DEF SendAccepted, SendRefused, States
  <2>7. ASSUME NEW d \in Packages, ResolveLink(d) \/ PackageLinkExpires(d)
        PROVE  /\ deliveries' \in [Packages -> [state : States, method : Methods]]
               /\ sending' \in [Packages -> 0..MaxSends]
               /\ mailed' \subseteq Packages
    BY <2>1, <2>7 DEF ResolveLink, PackageLinkExpires, States, Methods
  <2>8. CASE Stop
    BY <2>2, <2>8 DEF Stop
  <2>9. QED BY <2>3, <2>4, <2>5, <2>6, <2>7, <2>8 DEF DeliveryNext, PackageNext, ExportNext, ExportBundle, packageVars, deliveryVars
<1>4. QED BY <1>1, <1>2, <1>3 DEF DeliveryTypeOK

\* Every variable keeps its type.
THEOREM PackagesAreTyped == DeliverySpec => []DeliveryTypeOK
<1>1. DeliveryInit => DeliveryTypeOK
  <2> SUFFICES ASSUME DeliveryInit PROVE DeliveryTypeOK
    OBVIOUS
  <2>1. items \in [Items -> Item] /\ shipped \in [Items -> Packed \cup {Unshipped}]
    BY DEF DeliveryInit, AddendumInit, Blank, Item, Reviews, Exports
  <2>2. versions \in [Owners -> Seq(Signed)]
    BY EmptySeq DEF DeliveryInit, AddendumInit
  <2>3. deliveries \in [Packages -> [state : States, method : Methods]] /\ sending \in [Packages -> 0..MaxSends]
    BY DeliveryAssumption DEF DeliveryInit, States, Methods
  <2>4. QED BY <2>1, <2>2, <2>3 DEF DeliveryInit, AddendumInit, DeliveryTypeOK, AddendumTypeOK
<1>2. QED BY <1>1, PackageTypes, PTL DEF DeliverySpec

-----------------------------------------------------------------------------
(* People and items *)

\* A step of the inventory, of the lists, or of anything else, leaves no item
\* to somebody who is not on the list.
LEMMA HeirsStayListed ==
  ASSUME AddendumTypeOK, NoPhantomHeir, [DeliveryNext]_packageVars
  PROVE  NoPhantomHeir'
<1> USE DEF NoPhantomHeir, AddendumTypeOK
<1>1. CASE InventoryStep /\ UNCHANGED <<heirs, trustees, versions, bundles, deliveryVars>>
  <2>1. \A j \in Items : items[j] \in Item
    OBVIOUS
  <2>2. ASSUME NEW i \in Items, EditItem(i) \/ EditOther(i) PROVE NoPhantomHeir'
    <3>1. \A j \in Items : items'[j].heir = items[j].heir
      <4>1. CASE EditItem(i)
        <5>1. PICK c \in BOOLEAN, x \in Exports :
                items' = [items EXCEPT ![i] = [items[i] EXCEPT !.content = c, !.exported = x]]
          BY <4>1, EditFlips
        <5>2. QED BY <2>1, <5>1 DEF Item
      <4>2. CASE EditOther(i)
        <5>1. PICK o \in BOOLEAN : items' = [items EXCEPT ![i] = [items[i] EXCEPT !.other = o]]
          BY <4>2, UnseenFlips
        <5>2. QED BY <2>1, <5>1 DEF Item
      <4>3. QED BY <2>2, <4>1, <4>2
    <3>2. QED BY <1>1, <3>1
  <2>3. ASSUME NEW i \in Items, CreateItem(i) PROVE NoPhantomHeir'
    BY <1>1, <2>1, <2>3 DEF CreateItem, Item
  <2>4. ASSUME NEW i \in Items, DeleteItem(i) PROVE NoPhantomHeir'
    BY <1>1, <2>1, <2>4 DEF DeleteItem, Blank
  <2>5. ASSUME NEW i \in Items, NEW verdict, ReviewItem(i, verdict) PROVE NoPhantomHeir'
    BY <1>1, <2>1, <2>5 DEF ReviewItem, Item
  <2>6. ASSUME NEW i \in Items, NEW h, AssignHeir(i, h) PROVE NoPhantomHeir'
    BY <1>1, <2>1, <2>6 DEF AssignHeir, Item
  <2>7. ASSUME NEW i \in Items, NEW state, PatchExportState(i, state) PROVE NoPhantomHeir'
    BY <1>1, <2>1, <2>7 DEF PatchExportState, Item
  <2>8. QED BY <1>1, <2>2, <2>3, <2>4, <2>5, <2>6, <2>7 DEF InventoryStep, RowNext, UnseenNext
<1>2. CASE PeopleNext /\ UNCHANGED <<items, shipped, versions, bundles, deliveryVars>>
  <2>1. CASE heirs \subseteq heirs'
    BY <1>2, <2>1
  <2>2. CASE \E p \in Persons : RemoveHeir(p)
    BY <1>2, <2>2 DEF RemoveHeir
  <2>3. QED BY <1>2, <2>1, <2>2 DEF PeopleNext, AddHeir, AddTrustee, RemoveTrustee
<1>3. ASSUME NEW c, NEW m, WriteBundle(c, m) PROVE NoPhantomHeir'
  <2>1. \A i \in Items : items'[i].heir = items[i].heir
    BY <1>3 DEF WriteBundle
  <2>2. QED BY <1>3, <2>1 DEF WriteBundle
<1>4. CASE UNCHANGED <<heirs, items>>
  BY <1>4
<1>5. QED BY <1>1, <1>2, <1>3, <1>4, StepKinds
          DEF SignAndWriteAddendum, CrashWhileSigning, FreezeLatest, addendumVars

\* No item is ever left to somebody who is not on the list of heirs.
THEOREM HeirsAreListed == DeliverySpec => []NoPhantomHeir
<1>1. DeliveryInit => NoPhantomHeir
  BY DEF DeliveryInit, AddendumInit, Blank, NoPhantomHeir
<1>2. DeliveryTypeOK => AddendumTypeOK
  BY DEF DeliveryTypeOK
<1>3. QED BY <1>1, <1>2, PackagesAreTyped, HeirsStayListed, PTL DEF DeliverySpec

\* An exported item keeps the content of the last package through every step.
LEMMA ExportStaysCurrent ==
  ASSUME AddendumTypeOK, ExportedIsCurrent, [DeliveryNext]_packageVars
  PROVE  ExportedIsCurrent'
<1> USE DEF ExportedIsCurrent, AddendumTypeOK
<1>1. CASE InventoryStep /\ UNCHANGED <<heirs, trustees, versions, bundles, deliveryVars>>
  <2>1. \A j \in Items : items[j] \in Item
    OBVIOUS
  <2>2. PICK i \in Items :
          \/ CreateItem(i) \/ EditItem(i) \/ EditOther(i) \/ DeleteItem(i)
          \/ \E state \in Exports \ {"exported"} : PatchExportState(i, state)
          \/ \E verdict \in Reviews \ {"absent"} : ReviewItem(i, verdict)
          \/ \E h \in heirs \cup {Unassigned} : AssignHeir(i, h)
    BY <1>1 DEF InventoryStep, RowNext, UnseenNext
  <2>3. CASE EditItem(i)
    <3>1. PICK c \in BOOLEAN, x \in Exports \ {"exported"} :
            items' = [items EXCEPT ![i] = [items[i] EXCEPT !.content = c, !.exported = x]]
      BY <2>3, EditFlips
    <3>2. /\ items'[i].exported # "exported"
          /\ \A j \in Items \ {i} : items'[j] = items[j]
      BY <2>1, <3>1 DEF Item, Exports
    <3>3. shipped' = shipped
      BY <2>3, Zenon DEF EditItem, OnlyItems
    <3>4. QED BY <3>2, <3>3
  <2>4. CASE DeleteItem(i)
    BY <2>4 DEF DeleteItem, Blank
  <2>5. CASE CreateItem(i)
    BY <2>1, <2>5 DEF CreateItem, OnlyItems, Item
  <2>6. ASSUME NEW verdict, ReviewItem(i, verdict) PROVE ExportedIsCurrent'
    BY <2>1, <2>6 DEF ReviewItem, OnlyItems, Item
  <2>7. ASSUME NEW h, AssignHeir(i, h) PROVE ExportedIsCurrent'
    BY <2>1, <2>7 DEF AssignHeir, OnlyItems, Item
  <2>8. CASE EditOther(i)
    <3>1. \A j \in Items : items'[j].exported = items[j].exported /\ items'[j].content = items[j].content
      BY <2>1, <2>8, UnseenFlips DEF Item
    <3>2. shipped' = shipped
      BY <2>8 DEF EditOther, OnlyItems
    <3>3. QED BY <3>1, <3>2
  <2>9. ASSUME NEW state \in Exports \ {"exported"}, PatchExportState(i, state) PROVE ExportedIsCurrent'
    BY <2>1, <2>9 DEF PatchExportState, OnlyItems, Item
  <2>10. QED BY <2>2, <2>3, <2>4, <2>5, <2>6, <2>7, <2>8, <2>9
<1>2. ASSUME NEW c \in SUBSET Items, NEW m, WriteBundle(c, m) PROVE ExportedIsCurrent'
  <2>2. \A i \in Items : items'[i].content = items[i].content
    BY <1>2 DEF WriteBundle
  <2>3. \A i \in c : shipped'[i] = Pack(i) /\ Pack(i).content = items[i].content
                      /\ Pack(i) # Unshipped
    <3>1. \A i \in c : Pack(i) \in Packed /\ Pack(i).content = items[i].content
      BY DEF Pack, Packed, Item
    <3>2. \A i \in c : shipped'[i] = Pack(i)
      BY <1>2 DEF WriteBundle
    <3>3. QED BY <3>1, <3>2, AddendumAssumption DEF Packed
  <2>4. \A i \in Items \ c : shipped'[i] = shipped[i] /\ items'[i] = items[i]
    BY <1>2 DEF WriteBundle
  <2>5. QED BY <2>2, <2>3, <2>4
<1>3. CASE UNCHANGED <<items, shipped>>
  BY <1>3
<1>4. QED BY <1>1, <1>2, <1>3, StepKinds
          DEF SignAndWriteAddendum, CrashWhileSigning, FreezeLatest, addendumVars

\* What reads as exported is what the last package held.
THEOREM ExportsAreCurrent == DeliverySpec => []ExportedIsCurrent
<1>1. DeliveryInit => ExportedIsCurrent
  BY DEF DeliveryInit, AddendumInit, Blank, ExportedIsCurrent
<1>2. DeliveryTypeOK => AddendumTypeOK
  BY DEF DeliveryTypeOK
<1>3. QED BY <1>1, <1>2, PackagesAreTyped, ExportStaysCurrent, PTL DEF DeliverySpec

-----------------------------------------------------------------------------
(* Versions *)

\* Signing leaves bundle and row in step, freezing changes neither the
\* assignments nor the succession, and a bundle is never taken away.
LEMMA BundlesStay ==
  ASSUME AddendumTypeOK, VersionsHaveBundles, [DeliveryNext]_packageVars
  PROVE  VersionsHaveBundles'
<1>1. ASSUME NEW o \in Owners, SignAndWriteAddendum(o) PROVE VersionsHaveBundles'
  <2>1. RecordVersion(o) /\ WriteBundleFile(o) /\ Collected # {}
    BY <1>1 DEF SignAndWriteAddendum, Signable
  <2> DEFINE last == LatestOf(o) + 1
  <2>2. /\ \A p \in Owners \ {o} : versions'[p] = versions[p]
        /\ DOMAIN versions'[o] = 1..last
        /\ versions'[o][last].snapshot = Collected
        /\ versions'[o][last].supersedes = LatestOf(o)
        /\ \A n \in 1..LatestOf(o) : versions'[o][n] = versions[o][n]
    BY <2>1, RecordAppends
  <2>3. DOMAIN versions[o] = 1..LatestOf(o) /\ LatestOf(o) \in Nat
    BY VersionRow
  <2>4. bundles \subseteq bundles' /\ <<o, last, Collected>> \in bundles'
    BY <2>1 DEF WriteBundleFile
  <2>5. \A p \in Owners \ {o} : \A n \in DOMAIN versions'[p] :
          /\ <<p, n, versions'[p][n].snapshot>> \in bundles'
          /\ versions'[p][n].snapshot # {} /\ versions'[p][n].supersedes = n - 1
    BY <2>2, <2>4 DEF VersionsHaveBundles
  <2>6. \A n \in 1..LatestOf(o) :
          /\ <<o, n, versions'[o][n].snapshot>> \in bundles'
          /\ versions'[o][n].snapshot # {} /\ versions'[o][n].supersedes = n - 1
    BY <2>2, <2>3, <2>4 DEF VersionsHaveBundles
  <2>7. /\ <<o, last, versions'[o][last].snapshot>> \in bundles'
        /\ versions'[o][last].snapshot # {} /\ versions'[o][last].supersedes = last - 1
    BY <2>1, <2>2, <2>3, <2>4
  <2>8. \A n \in DOMAIN versions'[o] : n \in 1..LatestOf(o) \/ n = last
    BY <2>2, <2>3
  <2>9. QED BY <2>5, <2>6, <2>7, <2>8 DEF VersionsHaveBundles
<1>2. ASSUME NEW o \in Owners, FreezeLatest(o) PROVE VersionsHaveBundles'
  <2>1. bundles' = bundles
    BY <1>2 DEF FreezeLatest
  <2>2. \A p \in Owners : \A n \in DOMAIN versions[p] :
          /\ versions'[p][n].snapshot = versions[p][n].snapshot
          /\ versions'[p][n].supersedes = versions[p][n].supersedes
    BY <1>2, FreezeMarks
  <2>3. \A p \in Owners : DOMAIN versions'[p] = DOMAIN versions[p]
    BY <1>2, FreezeMarks
  <2>4. QED BY <2>1, <2>2, <2>3 DEF VersionsHaveBundles
<1>3. CASE versions' = versions /\ bundles \subseteq bundles'
  BY <1>3 DEF VersionsHaveBundles
<1>4. QED BY <1>1, <1>2, <1>3, StepKinds
          DEF CrashWhileSigning, WriteBundleFile, WriteBundle, addendumVars

\* Every version on record has its bundle on disk, wherever a process stopped.
THEOREM BundlesAreOnDisk == DeliverySpec => []VersionsHaveBundles
<1>1. DeliveryInit => VersionsHaveBundles
  BY EmptySeq DEF DeliveryInit, AddendumInit, VersionsHaveBundles
<1>2. DeliveryTypeOK => AddendumTypeOK
  BY DEF DeliveryTypeOK
<1>3. QED BY <1>1, <1>2, PackagesAreTyped, BundlesStay, PTL DEF DeliverySpec

\* A memorandum that travelled was frozen, and nobody signs after a freeze.
LEMMA CarriedStaysFinal ==
  ASSUME DeliveryTypeOK, CarriedIsFinal, [DeliveryNext]_packageVars
  PROVE  CarriedIsFinal'
<1> AddendumTypeOK /\ carried \subseteq Owners \X Nat
  BY DEF DeliveryTypeOK
<1>1. ASSUME NEW o \in Owners, SignAndWriteAddendum(o), carried' = carried PROVE CarriedIsFinal'
  <2>1. ~Frozen(o) /\ RecordVersion(o)
    BY <1>1 DEF SignAndWriteAddendum, Signable
  <2>2. \A m \in carried : m[1] \in Owners \ {o}
    BY <2>1 DEF CarriedIsFinal
  <2>3. \A p \in Owners \ {o} : versions'[p] = versions[p]
    BY <2>1, RecordAppends
  <2>4. QED BY <1>1, <2>2, <2>3 DEF CarriedIsFinal, Frozen, LatestOf
<1>2. ASSUME NEW o \in Owners, FreezeLatest(o), carried' = carried PROVE CarriedIsFinal'
  <2>1. \A m \in carried : m[1] \in Owners \ {o}
    BY <1>2 DEF CarriedIsFinal, FreezeLatest
  <2>2. \A p \in Owners \ {o} : versions'[p] = versions[p]
    BY <1>2, FreezeMarks
  <2>3. QED BY <1>2, <2>1, <2>2 DEF CarriedIsFinal, Frozen, LatestOf
<1>3. ASSUME NEW c, NEW m \in {{}, ListFrozen}, WriteBundle(c, m) PROVE CarriedIsFinal'
  <2>1. versions' = versions /\ carried' \subseteq carried \cup ListFrozen
    BY <1>3 DEF WriteBundle
  <2>2. \A r \in ListFrozen : versions[r[1]] # <<>> /\ r[2] = LatestOf(r[1]) /\ Frozen(r[1])
    BY DEF ListFrozen, Frozen
  <2>3. QED BY <2>1, <2>2 DEF CarriedIsFinal, Frozen, LatestOf
<1>4. CASE versions' = versions /\ carried' = carried
  BY <1>4 DEF CarriedIsFinal, Frozen, LatestOf
<1>5. QED BY <1>1, <1>2, <1>3, <1>4, StepKinds
          DEF CrashWhileSigning, addendumVars, deliveryVars

\* What travelled to FairPlay stays the last word of its owner.
THEOREM CarriedIsLastWord == DeliverySpec => []CarriedIsFinal
<1>1. DeliveryInit => CarriedIsFinal
  BY DEF DeliveryInit, CarriedIsFinal
<1>2. QED BY <1>1, PackagesAreTyped, CarriedStaysFinal, PTL DEF DeliverySpec

-----------------------------------------------------------------------------
(* The signed addenda keep the promise of the archive *)

\* A paper is filed for every version, under its number.
LEMMA FiledUnder ==
  /\ \A p : p \in PapersOnFile <=>
          \E o \in Owners : \E n \in DOMAIN versions[o] : p = <<o, n, versions[o][n].snapshot>>
  /\ \A o \in Owners : Archive!Numbers(o) = DOMAIN versions[o]
<1>1. \A p : p \in PapersOnFile <=>
        \E o \in Owners : \E n \in DOMAIN versions[o] : p = <<o, n, versions[o][n].snapshot>>
  BY DEF PapersOnFile
<1>2. ASSUME NEW o \in Owners PROVE Archive!Numbers(o) = DOMAIN versions[o]
  <2>1. \A p \in PapersOnFile : p[1] = o => p[2] \in DOMAIN versions[o]
    BY <1>1
  <2>2. \A n \in DOMAIN versions[o] : \E p \in PapersOnFile : p[1] = o /\ p[2] = n
    <3> SUFFICES ASSUME NEW n \in DOMAIN versions[o] PROVE \E p \in PapersOnFile : p[1] = o /\ p[2] = n
      OBVIOUS
    <3>1. <<o, n, versions[o][n].snapshot>> \in PapersOnFile
      BY <1>1
    <3>2. QED BY <3>1
  <2>3. QED BY <2>1, <2>2 DEF Archive!Numbers
<1>3. QED BY <1>1, <1>2

\* Signing files the next paper of its owner.
LEMMA SignFiles ==
  ASSUME AddendumTypeOK, NEW o \in Owners, SignAndWriteAddendum(o)
  PROVE  Archive!Sign
<1> DEFINE last == LatestOf(o) + 1
           new  == <<o, last, Collected>>
<1>1. RecordVersion(o) /\ Collected # {} /\ ~Frozen(o)
  BY DEF SignAndWriteAddendum, Signable
<1>2. /\ \A p \in Owners \ {o} : versions'[p] = versions[p]
      /\ DOMAIN versions'[o] = 1..last
      /\ versions'[o][last].snapshot = Collected
      /\ \A n \in 1..LatestOf(o) : versions'[o][n] = versions[o][n]
  BY <1>1, RecordAppends
<1>3. DOMAIN versions[o] = 1..LatestOf(o) /\ LatestOf(o) \in Nat
  BY VersionRow
<1>4. PapersOnFile' = PapersOnFile \cup {new}
  <2>1. \A p : p \in PapersOnFile' <=>
          \E q \in Owners : \E n \in DOMAIN versions'[q] : p = <<q, n, versions'[q][n].snapshot>>
    BY DEF PapersOnFile
  <2>2. 1..last = 1..LatestOf(o) \cup {last}
    BY <1>3
  <2>3. ASSUME NEW p \in PapersOnFile' PROVE p \in PapersOnFile \cup {new}
    <3>1. PICK q \in Owners : \E n \in DOMAIN versions'[q] : p = <<q, n, versions'[q][n].snapshot>>
      BY <2>1, <2>3
    <3>2. PICK n \in DOMAIN versions'[q] : p = <<q, n, versions'[q][n].snapshot>>
      BY <3>1
    <3>3. CASE q = o /\ n = last
      BY <1>2, <3>2, <3>3
    <3>4. CASE ~(q = o /\ n = last)
      <4>1. n \in DOMAIN versions[q] /\ versions'[q][n] = versions[q][n]
        BY <1>2, <1>3, <2>2, <3>2, <3>4
      <4>2. QED BY <3>2, <4>1, FiledUnder
    <3>5. QED BY <3>3, <3>4
  <2>4. ASSUME NEW p \in PapersOnFile PROVE p \in PapersOnFile'
    <3>1. PICK q \in Owners : \E n \in DOMAIN versions[q] : p = <<q, n, versions[q][n].snapshot>>
      BY <2>4, FiledUnder
    <3>2. PICK n \in DOMAIN versions[q] : p = <<q, n, versions[q][n].snapshot>>
      BY <3>1
    <3>3. n \in DOMAIN versions'[q] /\ versions'[q][n] = versions[q][n]
      BY <1>2, <1>3, <2>2
    <3>4. QED BY <2>1, <3>2, <3>3
  <2>5. new \in PapersOnFile'
    BY <1>2, <1>3, <2>1, <2>2
  <2>6. QED BY <2>3, <2>4, <2>5
<1> HIDE DEF new
<1>5. new[1] = o /\ new[2] = last /\ new[3] = Collected
  BY DEF new
<1>6. Archive!Numbers(o) = 1..last - 1
  BY <1>3, FiledUnder
<1>7. new \notin PapersOnFile
  <2>1. new \in PapersOnFile => last \in Archive!Numbers(o)
    BY <1>5 DEF Archive!Numbers
  <2>2. QED BY <1>3, <1>6, <2>1
<1>8. \A p \in Owners : Frozen(p)' <=> Frozen(p)
  <2>1. \A p \in Owners \ {o} : Frozen(p)' <=> Frozen(p)
    BY <1>2 DEF Frozen, LatestOf
  <2>2. ~Frozen(o)'
    <3>1. versions'[o] = Append(versions[o], [snapshot |-> Collected, supersedes |-> LatestOf(o), frozen |-> FALSE])
      BY <1>1 DEF RecordVersion, AddendumTypeOK
    <3>2. versions'[o][last].frozen = FALSE /\ LatestOf(o)' = last
      <4> DEFINE row == [snapshot |-> Collected, supersedes |-> LatestOf(o), frozen |-> FALSE]
      <4>1. versions[o] \in Seq(Signed) /\ row \in Signed /\ row.frozen = FALSE
        BY VersionRow, CollectedTypes DEF Signed
      <4> HIDE DEF row
      <4>2. Len(Append(versions[o], row)) = last /\ Append(versions[o], row)[last] = row
        BY <4>1, AppendProperties DEF LatestOf
      <4>3. versions'[o] = Append(versions[o], row)
        BY <3>1 DEF row
      <4>4. versions'[o][last] = row /\ LatestOf(o)' = last
        BY <4>2, <4>3 DEF LatestOf
      <4>5. QED BY <4>1, <4>4
    <3>3. QED BY <3>2 DEF Frozen
  <2>3. QED BY <1>1, <2>1, <2>2
<1>9. {p \in Owners : Frozen(p)}' = {p \in Owners : Frozen(p)}
  BY <1>8
<1>10. new \in PapersOnFile' \ PapersOnFile /\ new[1] \in Owners \ {p \in Owners : Frozen(p)}
  BY <1>1, <1>4, <1>5, <1>7
<1>11. new[2] \in Nat \ {0} /\ Archive!Numbers(new[1]) = 1..new[2] - 1 /\ new[3] # {}
  BY <1>1, <1>3, <1>5, <1>6
<1>12. QED BY <1>4, <1>9, <1>10, <1>11 DEF Archive!Sign

\* Freezing alters no paper and closes its owner.
LEMMA FreezeCloses ==
  ASSUME AddendumTypeOK, NEW o \in Owners, FreezeLatest(o)
  PROVE  Archive!Close
<1>1. /\ \A p \in Owners : DOMAIN versions'[p] = DOMAIN versions[p]
      /\ \A p \in Owners \ {o} : versions'[p] = versions[p]
      /\ \A p \in Owners : \A n \in DOMAIN versions[p] :
           versions'[p][n].snapshot = versions[p][n].snapshot
  BY FreezeMarks
<1>2. PapersOnFile' = PapersOnFile
  BY <1>1 DEF PapersOnFile
<1>3. \A p \in Owners \ {o} : Frozen(p)' <=> Frozen(p)
  BY <1>1 DEF Frozen, LatestOf
<1>4. ~Frozen(o) /\ versions[o] # <<>>
  BY DEF FreezeLatest
<1>5. Frozen(o)'
  <2>1. /\ versions[o] \in Seq(Signed) /\ LatestOf(o) \in DOMAIN versions[o]
        /\ versions[o][LatestOf(o)] \in Signed
    BY <1>4, VersionRow, ElementOfSeq DEF LatestOf
  <2>2. versions'[o][LatestOf(o)].frozen = TRUE
    BY <2>1 DEF FreezeLatest, AddendumTypeOK, Signed
  <2>3. LatestOf(o)' = LatestOf(o) /\ (versions'[o] = <<>> <=> versions[o] = <<>>)
    BY FreezeMarks
  <2>4. QED BY <1>4, <2>2, <2>3 DEF Frozen
<1>6. {p \in Owners : Frozen(p)}' = {p \in Owners : Frozen(p)} \cup {o}
  BY <1>3, <1>5
<1>7. Archive!Numbers(o) # {}
  BY <1>4, VersionRow, FiledUnder
<1>8. o \in Owners \ {p \in Owners : Frozen(p)}
  BY <1>4
<1>9. QED BY <1>2, <1>6, <1>7, <1>8 DEF Archive!Close

\* What an owner signed stays as it was signed, and a frozen owner signs no other: the addenda
\* implement the archive.
THEOREM AddendaAreKept == DeliverySpec => KeepsAddenda
<1>1. DeliveryInit => Archive!Init
  <2> SUFFICES ASSUME DeliveryInit PROVE Archive!Init
    OBVIOUS
  <2>1. \A o \in Owners : versions[o] = <<>> /\ DOMAIN versions[o] = {}
    BY DEF DeliveryInit, AddendumInit
  <2>2. PapersOnFile = {}
    BY <2>1, FiledUnder
  <2>3. {o \in Owners : Frozen(o)} = {}
    BY <2>1 DEF Frozen
  <2>4. QED BY <2>2, <2>3 DEF Archive!Init
<1>2. ASSUME DeliveryTypeOK, [DeliveryNext]_packageVars PROVE [Archive!Next]_(Archive!vars)
  <2>1. AddendumTypeOK
    BY <1>2 DEF DeliveryTypeOK
  <2>2. CASE versions' = versions
    <3>1. PapersOnFile' = PapersOnFile
      BY <2>2 DEF PapersOnFile
    <3>2. {o \in Owners : Frozen(o)}' = {o \in Owners : Frozen(o)}
      BY <2>2 DEF Frozen, LatestOf
    <3>3. QED BY <3>1, <3>2 DEF Archive!vars
  <2>3. CASE \E o \in Owners : SignAndWriteAddendum(o)
    BY <2>1, <2>3, SignFiles DEF Archive!Next
  <2>4. CASE \E o \in Owners : FreezeLatest(o)
    BY <2>1, <2>4, FreezeCloses DEF Archive!Next
  <2>5. QED BY <1>2, <2>2, <2>3, <2>4, StepKinds DEF CrashWhileSigning, WriteBundle, addendumVars
<1>3. QED BY <1>1, <1>2, PackagesAreTyped, PTL DEF DeliverySpec, KeepsAddenda, Archive!Spec

-----------------------------------------------------------------------------
(* Sending *)

\* Only an answer of the mail server makes a package read as sent, and only a
\* sent one is marked as fetched; no mail is ever taken back.
LEMMA SentStaysMailed ==
  ASSUME DeliveryTypeOK, SentMeansMailed, [DeliveryNext]_packageVars
  PROVE  SentMeansMailed'
<1> USE DEF SentMeansMailed, DeliveryTypeOK
<1>1. ASSUME NEW d \in Packages, NEW method \in {"email_attachment", "email_link"}, NEW chosen,
             Prepare(d, method, chosen)
      PROVE  SentMeansMailed'
  BY <1>1 DEF Prepare
<1>2. ASSUME NEW d \in Packages, SendBegin(d) PROVE SentMeansMailed'
  BY <1>2 DEF SendBegin
<1>3. ASSUME NEW d \in Packages, SendAccepted(d) PROVE SentMeansMailed'
  BY <1>3 DEF SendAccepted
<1>4. ASSUME NEW d \in Packages, SendRefused(d) PROVE SentMeansMailed'
  BY <1>4 DEF SendRefused
<1>5. ASSUME NEW d \in Packages, ResolveLink(d) PROVE SentMeansMailed'
  BY <1>5 DEF ResolveLink
<1>6. ASSUME NEW d \in Packages, PackageLinkExpires(d) PROVE SentMeansMailed'
  BY <1>6 DEF PackageLinkExpires
<1>7. CASE Stop
  BY <1>7 DEF Stop
<1>8. CASE UNCHANGED <<deliveries, mailed>>
  BY <1>8
<1>9. QED BY <1>1, <1>2, <1>3, <1>4, <1>5, <1>6, <1>7, <1>8
          DEF DeliveryNext, PackageNext, ExportNext, ExportBundle, packageVars, deliveryVars

\* A package that reads as sent has left the house, whatever sends overlap and
\* wherever the process stops.
THEOREM SentHasLeft == DeliverySpec => []SentMeansMailed
<1>1. DeliveryInit => SentMeansMailed
  BY DEF DeliveryInit, SentMeansMailed
<1>2. QED BY <1>1, PackagesAreTyped, SentStaysMailed, PTL DEF DeliverySpec
=============================================================================
