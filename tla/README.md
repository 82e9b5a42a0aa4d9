# A verification development for Reindeer

Reindeer is a family of small web applications with which a family records, and
after a death divides, the contents of a house. This directory models the parts
of it whose correctness depends on sequences of steps by several people, checks
the models with TLC and proves their main properties with TLAPS.

Contents: 1 inventory, 2 plan and what of it is done, 3 the modules, 4 what TLC
checks, 5 where the documents and the code disagree, 6 what is proved, 7 other
behaviour met while modelling, 8 what is not modelled.

## 1. Inventory

Each application is one Node process with its own SQLite file. Handlers use a
synchronous driver (`better-sqlite3`): the `await`s of a handler that touch only
the database resolve in microtasks, so such a handler runs to its end before
another request is looked at. Handlers interleave only where they wait for
something outside the process: a timer, a mail server, an AI service, a hash
computed on another thread. That is why most actions below are whole handlers,
and those that wait are split at the wait. Nothing is wrapped in a transaction
that spans a wait, and few things are wrapped in one at all.

| Component | State | What is hard | Module |
|---|---|---|---|
| FairPlay draft rounds | session phase and round, priority order, loss counters, item status and award, sealed picks, rankings, appraisal flags | three pick levels a round, contests over many rounds, requests in any order and phase | `DraftRound` |
| FairPlay automatic draft | streak, hold, pause, checkpoint and answers, one running tick | 600 ms asleep between sealing and revealing; a stop in it; liveness | `AutoDraft` |
| FairPlay classification flags | flags of an item, log of changes with the ranks they cost | restoring ranks into lists that changed; two mechanisms that send to appraisal | `Catalogue` |
| FairPlay groupings | groupings, opt-ins, members | overwrite the status of items flagged meanwhile | `Catalogue` |
| FairPlay duplicates | duplicate groups | items change between scan and resolution | `Evaluation` |
| FairPlay categories and AI analysis | category, its source, discussion flag | the answer of a slow call meets a changed item | `Evaluation` |
| FairPlay import staging | batches, staged rows, origin of items | re-imports; what was decided at staging is used at approval | `ImportStaging` |
| FairPlay estate lifecycle, captain and trustee seat | roster, `isAdmin`, two seats, agreements, phase | two marks make a captain and move separately | `Estate` |
| FairPlay sign-in | tokens, sessions, one passphrase | the hash yields between reading the credential and the roster | `Estate` |
| FairPlay fiduciary workflow | valuations, disputes, agreements | agreements are for one captain | `Estate` (agreements only) |
| Registry household link and sign-in | participants, links, sessions, mode | links that race; the mail awaited in an invitation | `Household` |
| Registry memorandum | rows of versions, signings | drafts over signed versions, two partners | `Memorandum` |
| Registry addendum and items | heirs, items, versions, bundle files | file before row, outside a transaction | `Addendum` |
| Registry delivery to the trustee | packages, mail under way | row read before the mail and written after | `Delivery` |
| Exchange bundles | what a bundle carries and marks | memoranda frozen after a package is built | `Delivery` |
| Practice rounds, taxonomy, notifications, media, client pages, audit log, reminders, print templates, Discovery, corporate admin | – | section 8 | – |

How they interact. A Registry's inventory is signed (addendum), packed and mailed
(delivery), and staged and approved in FairPlay (import); what the owner marked
becomes an escalation the captain cannot withdraw. In FairPlay every component
shares the item rows and the session row: `ImportStaging` extends `Evaluation`
extends `Catalogue`, so an approval, a model's answer and a flag act on the same
variables. The browser's poll of `/api/state` is the only clock: it runs one tick
of the automatic draft.

What makes each component correct, in a line. The draft gives nobody two items a
round, alters no sealed pick and decides contests for the unlucky. The automatic
draft stops when asked and never hangs. No item waits for a trustee who was not
told. A model never overrules a person. Importing again makes no second item. A
trustee never drafts, and his seat and the captain's move together. A link works
once, and signing in makes one owner. What was signed stays as it was. What is told
to be sent was mailed, and the memoranda that travelled are final.

The hazards behind these sentences are listed in `PROJECT.json`, each at its line,
with the properties about it.

## 2. The plan, and what of it is done

Order: the division first, then what can disturb it from inside FairPlay, then
the estate around it, then the Registry.

| Step | State |
|---|---|
| The draft and the automatic draft; their theorems | done |
| An abstract promise of the draft, the refinement and its proof | done: `SealedDraft`, `DraftRefinement`, `DraftRefinementProofs`; the automatic draft implements it too |
| Flags, groupings, duplicates, categories around the model's answers | done: `Catalogue`, `Evaluation`, `RankingHistory`, `FamilyProofs` |
| Import staging over the same items | done: `ImportStaging`, `FamilyProofs` |
| Lifecycle, seats, agreements, sign-in | done: `Estate`, `EstateProofs` |
| Household and memoranda | done: `Household`, `Memorandum`, `RegistryProofs` |
| An abstract archive that memoranda and addenda implement | done: `SignedPapers`, `RegistryProofs`, `DeliveryProofs` |
| Addendum and delivery | done: `Addendum`, `Delivery`, `DeliveryProofs` |
| Valuations and disputes of the fiduciary workflow, practice rounds, Registry duplicates, the exchange importer | left out, section 8 |

## 3. The modules

| Module | Extends | Role |
|---|---|---|
| `DraftRound` | – | the draft from ranking to complete |
| `AutoDraft` | `DraftRound` | the engine that seals and reveals |
| `SealedDraft` | – | the abstract promise of a draft |
| `DraftRefinement` | `DraftRound`, instance of `SealedDraft` | the refinement mapping |
| `Catalogue` | – | flags, escalations, groupings, lists |
| `Evaluation` | `Catalogue` | categories, the model, duplicates |
| `RankingHistory` | `Catalogue` | the catalogue with a record of the lists beside it |
| `ImportStaging` | `Evaluation` | bundles staged and approved |
| `Estate` | – | roster, phases before ranking, seats, sign-in |
| `Household` | – | who may use a Registry |
| `SignedPapers` | – | the abstract promise of what is signed |
| `Memorandum` | `Household`, instance of `SignedPapers` | the lists and their signing |
| `Addendum` | instance of `SignedPapers` | inventory, heirs, signed versions |
| `Delivery` | `Addendum` | packages and mail |
| `MC…` | the module they name | constants, slices, specifications for TLC |
| `…Proofs` | the module they are about | theorems |

Beside some definitions stand, under a comment *Mutant*, forms of them with a
plausible mistake (a dropped guard, a late write, a missing reset). No action uses
them; `PROJECT.json` says which property each one breaks.

### DraftRound

The variables are columns of `sessions`, `participants`, `items`,
`appraisal_flags`, `rankings` and `picks`. `picks[r][h]` is the sequence of the
picks of heir `h` in round `r`: its index is `pickOrder`, so `owedLevel` reads off
its length and last outcome. A pick keeps its item, its outcome and whether it
counts (`affectsRegularDraftCounter`, off for the high-value panel).

| Action | Code |
|---|---|
| `SubmitPick` | POST /api/picks, `submitPick` |
| `ReplaceRankings` | PUT/PATCH/DELETE of rankings, all through `replaceRankings` |
| `SetAutoSubmit` | PATCH /api/participants/:id with `autoSubmit`, and the sweep it triggers |
| `EditCounter` | the same PATCH with `contestedLossCounter`, for which no role is asked |
| `SetHighValue` | `setItemFlags` with `needsAppraisal`, by anybody in a ranking phase: strips the item from every list |
| `FlagForAppraisal`, `UnflagAppraisal` | POST /api/appraisal/flag and its revert |
| `CaptainReveal` | POST /api/session/reveal-round, the whole of `revealRound` with rotation, phase change and sweep |
| `StartDraft` | POST /api/session/start-draft |
| `LeaveRanking`, `LeaveDraft` | POST /api/session/next-phase from a ranking and from a draft phase |
| `Pause`, `Resume` | the lifecycle requests; `enforcePause` is the guard `~paused` of the others |

`Stage[i]` is the position of the enabled contested stage whose label is the
category of `i`, the largest number for items of no stage. The priority order is
drawn as any permutation (`shuffle`); before it is drawn, level contenders are
sorted as SQLite returns the picks, so `Winners` lets either win. A suggestion made
by a sweep does not depend on the other suggestions of that sweep, so `AutoPicked`
makes them together.

Three columns say that an item is with the trustee, and they are kept apart:
`flagged` is the item's classification flag, `status` its status, and `appraisal`
its open escalation, where `"heir"` stands for every source whose escalation the
captain may withdraw and `"owner"` for the permanent one. `SubmitPick` looks at the
first alone, the pool at the first two, `UnflagAppraisal` at the third;
`SetHighValue` writes the first alone. `TypedCounters` are the values somebody may
write into a loss counter by the PATCH; no page of the client does, so the empty set
is the product as it is used and any other set what the route admits. `MaxRound`
bounds `currentRound`: a reveal that would close round `MaxRound` is not taken.

### AutoDraft

A tick is `TickContested` (it sees two equal suggestions, seals them and holds the
round), or `TickBegin` followed by `TickEnd` with the sleep between them. `ticking`
is the flag `autoStepRunning`: one tick at a time. `seenStreak` is the field of the
session row read before the sleep and used after it. `Restart` is a stop of the
process in the sleep; a stop at another moment changes nothing stored. `Respond`,
`ResumeAutoDraft` and `SetAutoDraftEnabled` are not guarded by a pause, as their
routes are not. `MaxStreak` bounds the streak a tick may start from.

### SealedDraft and DraftRefinement

`SealedDraft` tells what an heir is promised without levels, counters, turns, phases
and rankings: claims are sealed, stay as they are until opened, every item opened
goes to one of its claimants, nobody is served twice in a round, no award is struck
from the record, and no round ends over a sealed claim. `DraftRefinement` maps the
round to `currentRound`, the claims to the pending picks of that round, the awards
to the picks the ledger calls awarded, and the holders to
`items.awardedToParticipantId`, which is what Results shows. An item may be opened
again in a later round, since `submitPick` does not look at its status: then its
holder changes and nothing else is unsaid. The promise is therefore that a holder
changes only when the item is opened, and to a claimant. `KeepsPromise` is the
instance's specification. `SealedDraft` also states what the promise is worth
whoever keeps it: nobody is given two items in a round (`ServedOnce`), each round
that is over gave somebody something (`EveryRoundGives`), and an item is with
somebody who was given it, in no earlier a round than anybody else
(`LastGivenHolds`).

### Catalogue, Evaluation, ImportStaging

`Catalogue` has the rows of `items` before the division, the log of classification
changes with the places they cost, `appraisal_flags` by item, groupings with their
opt-ins, and each heir's list. `SetItemFlag` is the whole of `setItemFlags` (strip,
log, write), `RevertClassificationChange` the whole of the revert (restore, mark,
log). `open` says whether the phase still lets flags change. Which of several heirs
wins a grouping is left open (`ResolveGrouping`).

`RankingHistory` adds two auxiliary variables: the changes that took an item off the
lists and are not undone, in the order they were made, and with each the lists
before it. They restrict no action. `UndoneInOrder` needs them, since the code
throws the old lists away: it keeps the item and its place, and that this is enough
to put the lists back is what the property says.

`Evaluation` adds the category of an item with who gave it, the calls of the model
under way, and duplicate groups. A call is `AnalyzeBegin` … `AnalyzeEnd` or
`AnalyzeLost`, with everything else in between; the answer is any category, sure or
not, flagged or not, and is applied with the escalation it raises and the scan that
follows. `ChooseCategory` is the route that records a person as the source,
`PatchCategory` the PATCH that writes the category and no source; `HumanChose` is
what the code takes for a person's choice, a category whose source is not the model.
`Alike`, which items look like the same thing, is a constant; `MaxCalls` and
`MaxGroups` bound the calls and the groups.

`ImportStaging` adds batches of staged rows. `StageBundle` is `stageBundle`: it
supersedes older drafts of the same origins and decides for each row whether it is
new. `ApproveStaged` and `ApproveBatch` do what `approveStaged` does to the item
row, the log, the escalations and the category, on new ids or on the item of that
origin (`Targets`, `Apply`). `DeleteItem` is the captain's deletion: only the row
goes. `locked` follows the phases in which approval is refused; it moves freely,
independently of the `open` of the catalogue. A bundle says of an item one of
`Contents`; `MaxBatches` bounds the bundles.

### Estate

`people` is the roster, `captain` and `trusteeSeat` the two ids of the session,
`isAdmin` the mark on a row. Routes ask for one or the other: `HeirAdmin` and
`Admins` read the mark, `Captain` reads the seat. The mark is given by the form that
adds an heir (`AddHeir`), moved by `TransferCaptain`, and written as it comes by the
PATCH of a participant (`PatchRights`), which asks for a signed-in caller and for no
role. `UpdateAllowed` is what `updateParticipant` refuses for both of them: a trustee
who would draft. Actions are named after the
storage methods. `links` and `devices` are single-use tokens and sessions;
`MaxLinks` bounds the tokens of a person. Setting and verifying a passphrase are
each split at the hash (`SetPassphraseBegin/End`, `VerifyBegin/End`); `Restart`
loses what is being hashed.

### Household and Memorandum

`people`, `links` by purpose, `sessions`, `mode`. `RequestLink` is the public route:
it stores the invitation of the request as it came, so the purposes are all the
roles the column `invite_role` admits, owner and trustee among them, and
`VerifyLink` gives the role the link carries. `ownerInvites` remembers which
addresses were ever sent an invitation as owner; it restricts nothing and is there
for `OneOwnerBySignIn`. An invitation is `InviteBegin` (checks, the link, the mail
is sent off), then `InviteEnd` (the placeholder row) or `InviteLost` (the process
stops). `Bootstrap` is the visitor of a Registry nobody has signed in to.
`Memorandum` keeps rows of `memorandum_entries` with their version, and what was on
the paper when a version was signed (`signings`). `OpenDraft` copies the last
version into the next one; `Sign` stores the number of conflicts with the partner's
latest list at that moment.

### SignedPapers

What a Registry promises of everything its people sign: the papers of an author are
numbered from one, a paper is added as a whole, says something, and is neither
altered nor withdrawn; an author who was closed signs nothing more. `Memorandum`
maps a signing to its number with the rows of that version and the conflicts stored
with it, and closes nobody (`KeepsPapers`). `Addendum` maps a version to its number
and its assignments, and closes whoever froze (`KeepsAddenda`).

### Addendum and Delivery

Items are created, edited, reviewed and assigned. Two parts of an item are told
apart: `content`, the nine fields the update compares (`EditItem`, which marks an
exported item as changed), and `other`, what travels with them unseen: the recipient
hint, the owner's mark and comment, the site, the basis of the value and the media
(`EditOther`). `PatchExportState` is a PATCH whose body names `export_state` itself;
the `exported` it may write is kept apart from the mark of the bundle writer as
`"claimed"`. `shipped` is each item as the last package held it.
`SignAndWriteAddendum` writes the bundle file and the version row,
`CrashWhileSigning` only the file, for the process may stop between them.
`FreezeLatest` freezes the last version of an owner, for good. `ExportBundle` is the
download, of the items of one review state, with the frozen memoranda; `Prepare`
writes a package of the items the request chooses, without memoranda, as it was
built. A package is prepared with the content of that moment, then `SendBegin`, and
`SendAccepted` or `SendRefused` with everything in between, `Stop` included.
`MaxSignings`, `MaxSends` bound the versions and the mails.

## 4. What TLC checks

A whole next-state relation is often too wide for one instance, since every request
is possible in almost every state. A run that says *slices* chooses a group of
requests in its initial state and keeps to it; between them the slices take every
action. Deadlock is not checked: a draft really stops at its end, an owner's record
at the last signing, and the bounds stop the rest.

| Run | Instance | Checks |
|---|---|---|
| `draft_contest` | 3 heirs, 2 items, 2 rounds, picks by hand | `PickDiscipline`, `OneItemPerRound`, `CounterIsLedger`, `LossesShared`, `ContestsGoToTheUnlucky` |
| `draft_phases` | 2 heirs, 2 items, 2 rounds; slices: escalations around picks and reveals; classification flags and new lists; loss counters typed in; rankings, phases, auto-submit and pauses | `TypeOK`, `RoundsInOrder`, `AwardsRecorded`, `EscalatedNotOffered`, `LedgerAppendOnly`, `TurnsRotate`, `KeepsPromise` |
| `auto_table` | 2 heirs and an administrator, 2 items, 3 rounds, everything around a tick | `AutoTypeOK`, `EngineStandsAside`, `OnePauseStops` |
| `auto_unattended` | 2 heirs, 4 items, 5 rounds, a checkpoint after every automatic round | `UnattendedSettles` |
| `family` | 1 heir, 2 items, 2 groupings, 4 logged changes, 2 groups of duplicates, 1 call of the model, 2 bundles of up to 2 items; slices: flags and lists; escalations and groupings; categories, model and duplicates; bundles | `EvaluationTypeOK`, `NoOrphanAppraisal`, `GroupsCanBeResolved`, `UndoneInOrder`, `ModelYields`, `OneItemPerOrigin` |
| `estate` | 3 people; slices: governing; signing in; rights patched | `EstateTypeOK`, `TrusteeNeverDrafts`, `SeatsMoveTogether`, `PassphraseOpensForAdmins` |
| `registry` | 3 people, 1 item, 2 heirs, 4 mails, 2 versions; slices: the household forms; the lists are written | `MemorandumTypeOK`, `LinksSignInOnce`, `OneOwnerBySignIn`, `CoupleHasPartner`, `PaperMatchesRecord`, `DraftOnTop`, `StandingOnlyRises`, `KeepsPapers` |
| `delivery` | 1 item, 2 heirs, 1 owner, 1 trustee, 2 packages, 2 mails of each, 2 signings; slices: signing; packing | `DeliveryTypeOK`, `NoPhantomHeir`, `VersionsHaveBundles`, `SentMeansMailed`, `CarriedIsFinal`, `ExportedIsCurrent` |
| `draft_stuck`, `draft_owner`, `auto_stranded`, `estate_mandate` | as the runs above (`draft_stuck`: the slice of escalations; `draft_owner`: the slice of flags; `auto_stranded`: 2 items, lists without an item in common, 2 automatic rounds between checkpoints) | section 5 |

`UndoneInOrder` is about the history that `RankingHistory` keeps beside the model:
undoing flags in the reverse of their order gives every heir the list they had.

Why these bounds are enough. Three heirs are the least with a loser who meets
another loser at level two and takes a third pick; two rounds let a counter of the
first decide the second; two items give a contest and a leftover. Two heirs and two
items reach every order of pick, flag, reveal and withdrawal; one value above every
counter is enough to decide contests by typing. Three rounds in
`auto_table` let the captain move the draft on during the sleep and the tick come
back to a round it did not seal. Four items in `auto_unattended` give two rounds
with two items left for a checkpoint. The interval between checkpoints is 5 in the
code; the runs use 1 (`auto_stranded`: 2), so that checkpoints happen within the
bounds, and models and proofs take it as a parameter. `RankTopN` is 20 in the code
and larger than the pool in the runs, so the gate asks for the whole pool, as in
any estate of up to 20 items.

In `family`, one heir suffices because lists are stripped and restored one by one,
two items give a list whose order can be lost and a pair of duplicates; four
changes are two flags and their two reverts; two bundles are the least in which a
draft is superseded. One call of the model meets every edit between its beginning
and its end. Its importing slice starts without items and uses two contents, one of
them important with a comment that may assign it: enough to tell an approved row
from the item it writes over. In `estate`, three people are a captain, a trustee
and an heir, and the same people after any two exchanges, or an heir, a trustee and a
newcomer to an estate nobody administers any more. In `registry`, three
people are owner, partner and helper; four mails let two links of one person, or
an invitation and a sign-in, be open at once, and two people be made owner after a
couple has formed; two versions are a signed one and the
draft above it. In `delivery`, two mails are a second confirmation while the first
is under way, two signings a version replaced, and two packages let one item be packed
again after it changed; memoranda and assignments meet no package but by the export,
so signing and packing are slices.

Symmetry is used for heirs, items, people and origins where initial states and
actions treat them alike, and never with a liveness property.

**Fairness.** Only `auto_unattended` and `auto_stranded` assume any. Weak fairness
of `Tick`: every open browser polls the state continually, each poll runs a tick,
and a timer that was set fires. Weak fairness of `Answer`: heirs eventually answer
the question put to them; the property is about drafts whose heirs say continue.
Nothing is assumed of the captain.

## 5. Where the documents and the code disagree

Each of these runs checks one sentence of the repository's own comments and finds a
behaviour of the code that breaks it; the sentence and its line are in
`PROJECT.json` under `findings`.

| Run | Sentence | What the run shows |
|---|---|---|
| `draft_stuck` | an heir with nothing left passes, so that the round completes | rounds are closed only by a reveal that opens something: one heir's pick is revealed while the other owes one, then the other's last suggestion is flagged for appraisal, and the round stays open |
| `draft_owner` | what the owner sent to the trustee cannot be reverted and is handled outside | the classification flag of such an item is cleared in a ranking phase, its escalation still open; an heir picks it by hand and is awarded it |
| `auto_stranded` | when every choice is distinct the round resolves itself | two heirs whose lists have no item in common both turn auto-submit on: the sweep seals their choices, nobody owes a pick, and no tick reveals the round |
| `estate_mandate` | the ranking is gated by agreements for the current captain | agreements for any captain open it, whoever took over since |

## 6. What is proved

For every value of the constants, from the named assumptions of the modules only:
finite heirs, items and things (they are rows of tables), null values outside the
sets they stand beside, natural bounds. TLC evaluates the assumptions in every run.
The theorems a reader should know of are listed in `PROJECT.json`; this is how they
hang together.

**The draft** (`DraftRoundProofs`, `DraftLedgerProofs`). The inductive invariant
`DraftInv` is `TypeOK`, `PickDiscipline`, `RoundsInOrder` and `AwardsRecorded`
together. None of the last three is inductive alone: a reveal keeps the discipline
only because every pick it opens is the last one of its heir; an award stays
recorded only because its round has no sealed pick left or the pick is already
opened. Each request is of one of three kinds, and the invariant is proved once for
each: *sealing* steps give some heirs who owe a pick one sealed pick more
(`SealStep`), *quiet* steps move no pick (`QuietStep`), and the *reveal*
(`RevealStep`) sweeps into a round that `RoundsInOrder` says is empty.

The rules of the table need less than that: a step either reveals or `OnlySeals`
(seals
picks at most, and leaves what was opened alone), and every lemma about losses, the
ledger and fairness is about those two kinds.
`OneItemPerRound` follows from `DraftInv`: two awards of a round to one heir would
both be that heir's last pick. `ContestsGoToTheUnlucky` and `LossesShared` need that
only a reveal loses a pick, and that each loser has a winner. `TurnsRotate` needs
`OrderAfterStart`: an order is drawn only once a round has begun. `CounterIsLedger`
counts, for each heir, the losses a reveal adds (`LosesAt`): one at most, since one
pick at most is pending. `CounterIsLedger` and `LossesShared` assume `TypedCounters
= {}`, that nobody types a counter in; all else holds whatever is typed.

`EscalatedNotOffered` is what remains of the promise about the owner's items: as long
as an escalation is open the status of its item is not `available`
(`EscalatedIsOff`), so neither a sweep nor a tick seals it, though an heir may
(`draft_owner`).

**The refinement** (`DraftRefinementProofs`). Sealing steps map to `Seal`, a reveal
to `Open` or `OpenLast`, `StartDraft` before round 1 to `Begin`, all else to a
stutter, under `DraftInv`. What the promise is worth is proved of the promise alone
(`PromiseIsWorth`, from `PromiseInv`: whoever was served in the round has no claim
left in it, no award is of a round to come, and whoever holds an item was given it
last) and holds of the draft through the
refinement (`RoundsServe`). `EveryRoundGives` is the safe half of progress: the draft
cannot use up rounds without giving items.

**The engine** (`AutoDraftProofs`). A tick's writes too are sealing steps and a
reveal, so `DraftInv` holds under `AutoSpec` whatever happens in the sleep
(`EngineKeepsLedger`), and with it `KeepsPromise`, `RoundsServe`'s conclusion
(`EngineServes`), and every rule and order of the table (`EngineKeepsRules`,
`EngineKeepsCounters` as long as nobody types a counter in, `EngineKeepsOrder`):
leaving the draft to the engine costs nobody a rule. `EngineStandsAside` needs that
the round never goes back (`RoundNeverFalls`), `OnePauseStops` is a fact of each
step.

**The catalogue** (`FamilyProofs`). `Sound` is `RowsOK` and `ListsOK` (rows are
typed, lists name an item once, the log names items and flags) with
`NoOrphanAppraisal`. `EvaluationTypeOK` follows with the types of the groups and the
calls; `GroupsCanBeResolved` and `ModelYields` each need their own part of them.
`ModelYields` is about what the row records: a category that does not read as the
model's. It cannot say more (section 7).
These four properties are proved of `FamilySpec` and again of `ImportSpec`
(`ImportsKeepTheCatalogue`, `ImportsYield`), where approvals and deletions write the
same rows. `NoneIsImportedTwice` is proved of `ImportSpec`: its invariant adds to the
property that an origin has one draft at most, over all batches, and that no item
exists for a draft staged as new. Both are needed, since what a draft will do was
decided when its bundle arrived.

`UndoingRestores` rests on one lemma about the lists, `RestoreUndoesStrip`: putting
an item back at the place it had restores a list from which it was taken, if it is
not on it now. Its invariant links the history: the lists now are what the last
change left, and the lists before each change are what the one before it left, until
somebody writes a list and the history begins afresh.

**The estate** (`EstateProofs`). `EstateTypeOK` and `TrusteeNeverDrafts`, which holds
under the PATCH and the transfer because `updateParticipant` refuses in both, then
`SeatsMoveTogether` and `PassphraseOpensForAdmins` as facts of each step.
`SeatsMoveTogether` is stated of steps and has an exception, because the invariant one
would like, that a seated trustee is captain, fails once the rights of all who
administer were patched away: a new welcome then takes the captain's seat and leaves
the trustee's.

**The Registry** (`RegistryProofs`, `DeliveryProofs`). `HouseholdInv` is the types,
people on file, of two owners one who was invited as owner (`OneOwnerBySignIn`, with
`OwnerLinksKnown`: an open link that makes an owner was recorded), a couple with its
partner, links used once. That a household has one owner is not provable and not true:
the public request for a link takes any role. `MemoInv` is
the types, `PaperMatchesRecord`, full papers, and `Numbered`: the versions signed are
1 to some k (`LastPaper`), so a draft is always the newest, and no write of a draft
reaches the rows of a paper. `StandingOnlyRises` is a fact of each step under them.
For the packages, `CarriedIsFinal` needs that a frozen owner signs no more,
`VersionsHaveBundles` that the file is written before the row. `ExportedIsCurrent` is
about the content only, and about the items the bundle writer itself marked: of an
`exported` that a request named nothing holds. Both kinds of
signature implement the archive of `SignedPapers`: a signing files the next paper, a
freeze closes its owner, every other step is a stutter (`PapersAreKept`,
`AddendaAreKept`), and the papers of whoever keeps an archive can be read in order
(`ArchiveIsWorth`, `ListsReadInOrder`).

Recursion is avoided in every module that is proved about; stripping a list is
defined by the places that move up, so that no induction over lists is needed.

Only model-checked: liveness (`UnattendedSettles`), which the prover does not reach.
The four behaviours of section 5 are counterexamples and have no theorem. Two results
are proved and belong to no run: `KeepsAddenda`, and what follows from the promises.

## 7. Other behaviour met while modelling

These are reachable in the models, or visible in the lines they translate, and have
no run of their own. `S` is `server/storage.ts` of FairPlay.

*Draft.* A pick of an awarded item is accepted and revealed, and the
item moves to another heir (S:1691, S:1774); `KeepsPromise` allows it and says to whom.
A loss counter is written by whoever sends it (routes.ts:1867). Flagging an item takes
it off every list and out of the pool, though docs/DESC-FAIR-CHOICE.md:222 says that
"flagging never removes the item from the ranked draft". An item
flagged after it was picked is awarded all the same (S:1774). With two contested
stages, the third kind of item may not be ranked when the second closes, and the
division ends without it (S:1861). A pause during the sleep does not stop the reveal
(S:4042), and a tick compares only its own suggestions, so an automatic round can
meet an heir's own sealed pick (S:4022).

*Catalogue.* Reverting an older change can set a flag again without taking the item
off the lists (S:3754). Undoing flags in the order they were raised returns items in
another order (S:3594). Anyone may clear the classification flag of an item the
owner escalated. A duplicate scan takes dismissed and awarded subjects (S:4154), so
two records can end dismissed; a grouping can be resolved again. A category that PATCH
writes over the model's keeps the model as its source, and the model's next answer
overwrites it (routes.ts:2066–2075), against S:3426–3429, "only when a person has not
already chosen one".

*Import.* An owner-assigned item that an heir escalates and the captain withdraws
becomes available, against routes.ts:3268–3271. A re-import clears the flag of an
item whose escalation is open. The owner's mark is not recorded while an heir's
escalation is open. A ranked item that a re-import assigns stays on the lists.
Approving a discarded batch makes it applied, and approvals one by one never change
the batch's state.

*Estate.* `transferPr` leaves `captainParticipantId` alone: when a captain who only
administers hands over, the seat names nobody on the roster (S:1062). A helper may
become captain and then drafts, though transferPr says it hands the role to an heir.
Anybody signed in may write anybody's rights, a trustee's drafting excepted
(routes.ts:1867); an estate nobody administers is open to a new welcome, which takes
the captain's seat from a trustee in charge and leaves him in his own. A passphrase
changed while the old one is verified still admits the old one. A reset keeps the
rows of sign-in.

*Registry.* Whoever asks the public route for an invitation as owner and opens the
mail becomes one, in a household that has an owner (auth/router.js:35–39,
auth/service.js:55–65 and 102–108). "Any content change invalidates a previous print or
export" (itemRepository.js:126) covers nine fields: the recipient hint, the owner's mark
and comment, the site, the basis of the value and the media travel too and change
unmarked, and a PATCH may name the export state. A frozen memorandum travels in the
download and not in a mailed package, which is written without the memoranda
(bundle.js:15–19), whatever "every subsequent export bundle" at index.js:323 is taken
to mean. Reopening a list drops its stars. If the invited partner signs in first,
the visitor who set the Registry up is locked out. Any active participant that is
not the owner counts as partner in a signing (routes/memorandum.js:44–55). The
comment at twoOutputs.js:134 claims one transaction; there is none. Removing an heir
looks at items and not at memoranda. Two confirmations of a package may mail it
twice, or leave FAILED over a mail that arrived, and a fetched package can be sent
again.

## 8. What is not modelled, and why

Inside the modelled components: what an exception between two statements of one
reveal leaves behind; the captain's direct edits of session and item rows
(`PATCH /api/session`, `PATCH /api/items/:id`), which can set any field to anything;
picks for a participant who only administers; roster changes after the draft began;
ranking deadlines, which only close the ranking routes; the setup page that replaces
the whole roster; resets and demo routes; rate limits; texts, names, rooms, media
and checksums. The draft starts from items as the catalogue may leave them rather
than from a run of `Catalogue`: composed, the two exceed what TLC explores.

Components left out: *practice rounds* repeat the draft on tables of their own and
are thrown away; *valuations and disputes* of the fiduciary workflow are a record of
one person's acts on one item, of which only the agreements meet other components;
*Registry duplicates* work as FairPlay's do, with fewer writes; the *exchange
importer* fills an empty store from a file; *audit log* rows are appended without a
yield, so the chain is data; *taxonomy, notifications, media, reminders, print
templates, Discovery, corporate admin* and all *client pages* store or render
without a protocol, and they are most of the lines of the repository. What the
models cover is the part in which steps of several people meet.
