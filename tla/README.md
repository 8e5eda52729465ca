# Verification of Witness Protection Program

This directory holds TLA+ models of Witness Protection Program (the TypeScript
sources under `src/`), TLC configurations that check them on small instances,
and TLAPS proofs of the properties that matter most. Every definition follows
the code; `PROJECT.json` names, for each, the lines it stands for.

## 1. The system

Witness Protection Program keeps encrypted snapshots of a wallet's private
state ("witness packages") where their owner can find them again: sealed by a
local kernel, stored first in a local journal of ciphertext, then with a cloud
provider, and indexed by an encrypted catalog.

| Part | Source | State | Operations |
| --- | --- | --- | --- |
| Ciphertext journal | `journal/index.ts`, `journal/fs.ts` | a directory of `<digest>.wpp` files; nothing in memory but an open handle | `open`, `put`, `get`, `list` |
| Catalog-v2 planner | `storage/catalog-v2.ts` 944-1086, 1265-1306 | a worklist of leaves, the emitted leaves, two running totals, for one call | `planCatalogShards` |
| Catalog-v2 reader | `storage/catalog-v2.ts` 386-441, 625-918, 1088-1439 | owned copies of root and shards, for one call | `preflightCatalogRoot`, `validateCatalogRevision` |
| Catalog-v1 | `catalog/reconcile.ts`, `catalog/validation.ts` | none: pure functions over a set of revisions | `reconcileCatalogs`, `mergeCatalogRecords` |
| OAuth flow | `google/oauth.ts`, `google/browser.ts` | one attempt: settled and exchanging flags, pending state, verifier, timer, listener | `authorizeInstalledApp` |
| Drive put | `google/drive.ts`, `google/transport.ts` | a bound session | `putOwnedCiphertext` |
| Vault | `kernel/vault.ts` | keys, epochs, a locked flag, a registry of codecs | seal, open, recovery pack, `lock` |
| Storage-layout experiment | `experiments/storage-layout/catalog.mjs` | a content-addressed store; revisions and packings the caller keeps | flat and sharded commit, `packShards`, `createAuthenticatedManifest`, restores, lookups, range reads |
| LevelDB private-state provider | `research/midnight-docs/official-source/midnight-js/packages/level-private-state-provider/src/` | a level: encrypted entries and the metadata with the salt; in memory a key cache, salt promises, a rotation lock, the contract address | `get`, `set`, `remove`, `clear`, export, import, `changePassword`, migration, `invalidateEncryptionCache` |
| Encodings | `kernel/json.ts`, `kernel/validation.ts`, `kernel/crypto.ts` | none | parse, canonicalise, encrypt |
| Set-up | `google/project.ts`, `google/client.ts`, `scripts/` | none of its own | a sequential wizard, a loader, vectors |

How they interact. The vault seals snapshots, catalog shards and catalog roots;
`put` of the journal stores the packages locally under their digest; the Drive
client stores them remotely and compares what it reads back. The planner
decides which records go into which shard, a *coordinator* that is not part of
the repository seals the shards, builds a root and later downloads what a root
refers to, and the reader's two functions decide whether what was downloaded is
the revision. Journals are shared by processes through the file system alone:
there is no lock file, so every call interleaves with every other at each
system call. The OAuth flow is a race of HTTP callbacks, a timer and a
browser process inside one event loop. The vault calls back into codecs
while it works. The layout experiment uses the vault to seal its envelopes and
compares ways to lay a catalog out in a store. The LevelDB provider is a third
party's: it keeps the private states that the program is to back up, and the
repository pins its sources; what a backup can rely on is what that provider
promises. (`pinned-source/` holds a second copy of the same files; the
definitions are mapped to one of the two.)

### What is hard, and what makes each part correct

* **Journal.** A put is nine awaits long. Between any two of them another
  process may do the same put, the process may die, a call may fail, or the
  power may go. It is correct if "local-durable" is never said of a record
  that a power loss could still take, if no record name is ever seen with
  part of its bytes or with bytes replaced, if readers never contradict what a
  writer was promised, and if every call returns.
* **Planner.** It is correct if its leaves cut the space of route hashes
  into disjoint parts (a gap reads as "no record there", an overlap as a record
  that exists twice), if every limit it is given holds for the result, and if
  `WPP_CATALOG_CAPACITY` really means that no plan exists.
* **Reader.** It is handed bytes by a coordinator that may mix up
  references, shards and revisions. It is correct if what it accepts is what
  the root was made for and a legal catalog, if it accepts everything the
  planner plans, and if a root that fails cheaply fails before the downloads.
* **Cover check.** Two sorted passes over neighbours must amount to "each hash
  has exactly one prefix".
* **Catalog v1.** Revisions arrive in any order and with parents missing; the
  result must not depend on the order, nor claim a conflict on incomplete
  ancestry.
* **OAuth flow.** Callbacks, timer, abort, listener errors and a browser that
  cannot start all settle one promise; one code may be exchanged once.
* **Drive put.** A create whose answer is lost leaves an object nobody
  has a receipt for; nothing may be called stored before it reads back.
* **Vault.** A codec's callback may lock the vault in the middle of a seal or
  an open; nothing may go on with wiped keys. What a codec, or a caller's
  object with accessors, makes of a call in progress must not reach what is sealed.
* **Storage layouts.** A commit skips what it believes unchanged and may throw
  half-way, and a range read does not hash the pack it reads from; it is correct
  if a restore is the whole of what was committed or an error, and if parts agree
  with the whole whoever made the manifest.
* **Private-state provider.** Every call is several awaits long and shares a
  salt, a cached key, a rotation lock and a mutable contract address with the
  others; `clear` and migration wait for none of it. It is correct if it is a map from
  keys to values after all, if one password and one salt open everything it holds but
  what a call wrote that one of these overtook, and if no call passes a rotation.

The full list of hazards, each at its line and with the properties that would
catch it, is `hazards` in `PROJECT.json`.

## 2. Modules

```
DurableStore  <--refined by--  Journal  <--  JournalProofs        MCJournal
PrefixCover  <--  ShardPlanner
  ShardPlanner, Checks  <--  CatalogRevision  <--  CatalogV2Proofs   MCCatalogRevision
RevisionGraph  <--  AcyclicCheck                                  MCAcyclicCheck
  RevisionGraph, Checks  <--  Reconcile                           MCReconcile
    AcyclicCheck, Reconcile  <--  CatalogV1Proofs
OAuthFlow, DrivePut  <--  GoogleProofs                            MCOAuthFlow, MCDrivePut
Checks  <--  Vault  <--  VaultProofs                              MCVault
StorageLayout  <--  StorageLayoutProofs                           MCStorageLayout
PrivateStore  <--refined by--  PrivateStates  <--  PrivateStatesProofs   MCPrivateStates
```

Each module of proofs extends `Facts` as well: least elements, induction,
sums and chains of checks, stated once. The second state machine of a
module of proofs has its own names (`SearchSpec` of `AcyclicCheck`, `PutSpec` of
`DrivePut`, `RevisionSpec` of `CatalogRevision`), so that both can be extended.

### Journal, DurableStore

`Journal` models `CiphertextJournal` over a POSIX file system. A *client* is
one strand of awaits: it opens the journal, then calls `put`, `get` or `list`,
one after the other. Several clients may be of one process or of several; a
process with several calls that dies is several `Crash(c)` steps in a row.
Each awaited system call, and each early return, is an action: `OpenLstat`,
`OpenMkdir`, `OpenSyncParent`; `PutCreate` ... `PutSyncDirectory`, `PutCleanup`
(the `finally` block); `GetOpen`, `GetRead`; `ListOpen`, `ListEntry`, `ListEnd`.
`pc[c]` names the await a client is at.

The file system has two views. `jdir`, `pub`, `tmp`, `data` are what system
calls see; `djdir`, `dpub`, `dtmp`, `ddata` are on the medium. `fsync` of a file
copies one entry of `data`, of the directory `pub` and `tmp`, of the parent
`jdir`. `Writeback` lets the kernel copy any single name or file at any time,
and `PowerLoss` forgets what was not copied, so every subset of unsynced
changes may survive. `Crash` loses a process but no file.

Abstractions:

* A file's bytes are the digest they hash to, or `Torn` for anything else
  (empty, a prefix, damage). SHA-256 is taken as injective, as the journal does.
* A temp file's random name is its inode. That two random names collide is
  kept (`PutCreateTaken`), since the retry loop has a bound.
* `writeFully` is one step; the file is `Torn` until its end, and `PutFail` may
  end it at any point.
* The checks of owner, mode, kind of file and file system that follow an
  open are failures of that open (`OpenFail`, `PutFail`, `GetFail`, `ListFail`).
* After `fsync` has returned, the file as read is on the medium. The journal
  assumes the same; on a device that lies no program is durable.
* `Foreign` digests name files that something else put into the directory, with
  the right or wrong bytes; `Alien` is a name that is neither record nor temp.

`DurableStore` is what callers are promised: readable records, those that
would survive, those acknowledged. `Journal` refines it with `visible` and
`durable` computed from the two views.

### PrefixCover

`assertPrefixFreeCover` with strings of hexadecimal digits as sequences over
`Fan` digits, `MaxDepth` long at most. "The element before it in the sorted
array" is `Neighbours` of an order on a set. The schema has already refused
repeated prefixes, which a set leaves out. `CoverExact` quantifies over all sets
of prefixes of the constants' depth. It is a fact about constants, so no run
names it alone: `CoverChecked` has it as a conjunct, next to the covers the
planner makes.

### ShardPlanner

`partitionLeaves`. `queue` and `emitted` hold leaves `[prefix, recs]`,
`coverCount` and `cumulative` are the code's running totals. `EmitEmpty`, `Emit`
and `Split` are the bodies of the loop for the three kinds of leaf, each with
its refusals; `Finish` ends the loop. The code's queue is first-in first-out;
the model takes any leaf, so that everything shown holds for any order,
and `PlanExact` shows that order never matters. A route hash is any function of
the input to hashes; two records may share a whole hash, which SHA-256 makes
unlikely but the code handles (a leaf at full depth that must split is
refused). What a record contains is reduced to what it adds to the canonical
size, the parameter `PayloadBytes`.

### CatalogRevision

Extends `ShardPlanner` by what follows a plan. `Assemble` builds the root from
the plan as the tests' `rootFromPlan` does; `CarryOver`, `Misepoch`,
`Misdeclare` and `Misfetch` are up to `MaxSlips` mistakes of the coordinator: a
reference of an earlier revision, an epoch too many or too few, a count or a
length that is not the shard's (with totals that add up, so that only the
download can tell), a shard lost, delivered twice,
taken from another reference or revision, or under the wrong prefix. These
actions are external; the reader's are `Preflight`, `Deliver`, `Copy`, `Copied`,
`Read` and `Conclude`, in the code's order. The order of checks is part of the
model (`FirstFailing`, and `FirstOf` for a loop that stops at the first bad
reference), so the error a caller sees is the code's.

A reference declares its counts and its length as fields of its own, and the
preflight judges these; what the shard really holds is compared with them after
it is parsed (`Differs`).

Abstractions: a fingerprint is the set of records it is the digest of; an empty
reference is its prefix; the reader's
second preflight of the same root bytes is not repeated; `refs` is a set, so
that the root's strict sort order is not a check here. `DUPLICATE` from
`collectRevisionState` across shards is modelled but cannot be reached with
distinct prefixes that cover and records under their own prefix.

### RevisionGraph, AcyclicCheck

`RevisionGraph` has the graph functions of `catalog/reconcile.ts`: heads,
missing parents, ancestry that may be incomplete, and `knownIncomparable`. A
graph is the code's map from revisions to parents. The worklist of
`ancestorState` is `Above`, what it reaches.

The constant `Revisions` and its assumption (a finite set) are declared here.

`AcyclicCheck` is `assertAcyclic` as the depth-first search it is, since that
is the one graph function whose result is not its definition: calls of `visit` are
frames on a stack, and `Descend`, `Skip`, `Close` and `Leave` are what happens
in its loop. The initial state is any graph. `CyclesFound` compares the outcome
with `Cyclic`, a definition without a search; `Reconcile` uses `Cyclic`.

### Reconcile

`reconcileCatalogs` is a pure function, so that a state machine around it is
needed to ask what it is for: `history` is all that was ever published, and
`inputs` what each device has got of it. The devices are external. `Publish`
adds a revision on top of what `reconcileCatalogs` returned (the union; where
heads disagree only about a tombstone, also a resolution of that), `Deliver`
hands a device any revision in any order, and `Mislabel` hands it one under
another's digest, which the function has no means to tell. `Outcome` has the
function's refusals in the code's order, `CountRefused` (too many inputs or
parents) and `TwoPayloads` (one digest, two payloads) among them.

Abstractions: a record is its kind, its selected identity, what else is compared of it
(`body`) and its locators; arrays are sets, as the code makes them
by identity and sorts them; the budget is counted in records and references
instead of canonical bytes; inputs that are equal in digest and payload are one
from the start, so that `MaxInputs` counts distinct ones; payloads that do not
parse never enter a history; `freshness` is a constant in the code. The checks
inside one observation or receipt (`outcome`, epochs) are about one record and
left out, and so is that a union may exceed the plaintext limit.

What the runs show is deliberately no more than the code promises: where both
sides of a conflict have the *same* missing parent, a conflict could be known
and is not reported, since any incompleteness suppresses it
(`ConflictsAreFound` has complete ancestry as its condition).

### OAuthFlow

`authorizeInstalledApp`. The variables are the closure's: `settled`, `aborted`
(`flowAbort`), `pending`, `timer`, `exchanging`, the listener with its open
connections; `outcome` is what the first `finish` was called with and `result`
what the promise is settled with once `server.close` has called back. `setup` is
the await the `listen` callback is at, `handler[c]` the one `handleCallback` is
at for request `c`. Each action is what runs between two awaits.

The code's less obvious habits are kept: a denial does not mark the flow as
exchanging, so that a second callback may take it while the denial's page is
written; `getToken` is called before `withAbort` looks whether the flow has
settled; and after an early listener error the continuation of the PKCE await
still sets the state, arms the timer and starts the browser. `NothingLeftBehind`
shows that even then all is released in the end.

Outside: what a malformed request looks like (all are one kind, `invalid`); what
the browser is and how it is found (it starts, fails, or hangs); a second error
of the listener, for which `once` has no handler. Clients may never read an
answer and the provider may never reply.

### DrivePut

`createGoogleDriveAdapterFromAuthClient` binds a session, `putOwnedCiphertext`
POSTs the package and GETs it back. `pc[c]` is the await a call is at;
`post[c]`, `body[c]` and `file[c]` belong to the provider, which may store a POST
late or never, refuse it, answer an error after storing it, store or serve
other bytes, and change or lose the file at any time. A retry is another call,
and since nothing identifies a POST it makes another file.

Assumed of the provider: a status of 300 to 499 to a POST means that nothing has
been stored. Outside: `google-auth-library` sends a request again after a 401,
which is a POST that was refused; answers without a status or with one below 200;
the multipart body and the digest (bytes are `same`, `other` or `short`). An
injected transport has no timeout of its own; `PutsReturn` is about the auth
client's, which has one for both requests.

### Vault

`UnlockedVault` runs on one thread, but `sealSnapshot` and `openSnapshot` run the
caller's code: accessors of the objects they are given and the validator of
a codec. `stack` holds the calls in progress, the innermost last, each at one
of these two points; any call of any handle may be made from there, and
`GoOn` continues the innermost. The other calls run no code of the caller and
are one step each; one that throws changes nothing and is no step. `root[h]` is
what a handle has been opened with or `Locked`, `packages` are all that have
been sealed, and `last` is what the last call has returned or thrown.

A wire is a header and the ciphertext of some package: callers may mix them up,
and expect the wrong thing. What is expected of a catalog node comes in four
forms (`Forms`): plain data, an object that may run code when looked at, one with
other fields, and one with a field out of its range; `CopyExpected` is what
`ownEnumerableData` and the copies after it let pass, locators included.
`VerifySnapshotClaim` holds a catalog's claim against what `openSnapshot` has
just returned. Encryption is ideal: a ciphertext opens under the secret and the
header it was sealed with. The epochs of a vault have one secret each in all its
root records, so that a rotation is a second root record. A recovery pack is the
root record it carries.

Abstractions: a locked handle's name is used again when no call in progress is
of it (handles share no state, so that one name is enough for sequences and two
calls are enough for re-entrancy); payloads are of the four formats with the
codec, the required epochs or the records as their only content; the size
limits and the grammar of identifiers are outside (a root's own checks are in
`CatalogRevision`).

One observation, not a property: `docs/reference/kernel.md:41` says that a seal or
open whose validator calls `lock()` fails with `WPP_LOCKED`. If the validator
locks *and* throws, `runCodec` reports `WPP_CODEC` before the lock is looked at
(`AfterCodec`). Nothing is returned either way, which is what `NothingAfterLock`
asks.

### StorageLayout

One store, a map from hashes to bytes, and what callers keep: the revisions and
packings that the commit calls returned. Bytes are sequences of cells, so that
a pack is a concatenation and a range of it a `SubSeq`, and the hash of bytes
is the bytes. A seal is a call and a record id; the vault opens exactly what it
sealed under that id. Writers are actions: `FlatCommit` and its shortcut over an
unchanged parent, `ShardedCommit` with the buckets it takes over from its
parent, the commit that throws at a bucket over the ceiling after it has stored
others, `PackShards` and its failure after some packs are flushed. Readers are
operators over the store as it is (`FlatRestore`, `ShardedRestore`,
`ShardedLookups`, `PackedFullRestore`, `PackedRangeRestore`), since each is one
pass without effects: a step that throws yields the empty set. Properties ask
them of every state.

`Damage` is what a store may do: lose an object, serve for it another envelope
of the same record or a truncated one, or be replaced by an empty store while
the caller keeps its revisions. `CreateAuthenticatedManifest` lets the caller
seal manifests of its own making: roots over known envelopes, a bucket of any
records, extents one of which is moved. `LayoutAssumption` is that buckets are numbers,
every id is routed to one, and record lists are finite lists of records with such
ids. The loop of `packShards` is a recursive function over sets of buckets that takes the
largest last, which is the loop over the sorted list. Payload grammar, timings and byte counters are outside.

### PrivateStore, PrivateStates

`PrivateStates` is one level of `level-private-state-provider.ts` with
`storage-encryption.ts`. `call[c]` is what a slot is doing, `at` the await it is
at: at the rotation lock (`wait`, `check`, `past`), at the salt (`salt`,
`newsalt`, `salted`, or `join`ing another call's promise), taking its key, then
in a section of its own (`read` and `reput`, or `write`, then `close`). `Throw(c)`
rejects any of these awaits, which covers a level that another section holds
open. An import is a sequence of such primitives. A rotation holds the lock,
reads all, writes all in one batch with the new salt, empties the cache.
`Crash` ends the process; the database and an exported file stay. Entries have
the current format, the older one without a version, or are plain; the last two
are re-encrypted by whoever reads them, value by value, after the read.

`clear`, `migrateToAccountScoped`, `setContractAddress` and a rotation may come at any
moment: the code makes none of them wait for a call that is past the rotation lock, and
the model assumes no order of the application's calls. Such a call was *crossed*
(`call[c].crossed`): its salt or its key may be one the level no longer has, and what it
writes then opens under no key. `astray` is the history of the keys concerned: written
by a crossed call, left behind by the new salt of one, or put out of reach by a
migration. `OneKeyOpensAll` says that nothing else ever fails to open, and that a call
that was not crossed holds the key of the level from when it has it to its last write.
`RotationShutsOut` is what the lock does give: no call gets past it while a rotation
holds it, neither one that begins, nor one that waits, nor the next `get` or `set` of an
import.

`PrivateStore` is what callers see, and as much as the code can promise without such an
order: a value per key; a get and an export answer what was held at one moment of the
call, the get under the contract selected when it was called; a set and a remove write
once, under a contract selected at some moment between their call and their write
(`Resolve`: `set` and `remove` scope their key after the wait, `get` before it). A reader
may put back what it read, of an entry in an older format only, which after that is
outdated no longer (`PutBack`); a rotation puts back all it read, at once. Either may
undo a set that was made in between, and does in the code: between the read of a legacy
entry and its re-encryption, or the scan of a rotation and its batch, nothing holds a
set back that is already past the lock. `PrivateStates` refines it with a call's answer
as what it has read, or as soon as its write has happened.

Abstractions: passwords and salts are names, and what is encrypted under one
opens under that one only; an export file is the map it decrypts to; the application
changes the password it answers when a rotation that migrated entries has returned,
and after a crash uses the one that opens the level. The signing keys live in a level of
their own that the same helpers read, write and rotate; their functions are not
modelled (their rotation has no filter by contract).

## 3. Runs

All bounds are in the `.cfg` files. Symmetry is used only over interchangeable
model values, and never in a run with a liveness property.

| Run | Instance | States | Shows |
| --- | --- | --- | --- |
| `journal_durability` | two putters, one of which also gets and lists, one digest, two inodes, all faults | 643k | acknowledged records survive and are read back, no torn or replaced record, no false INTEGRITY, refinement of `DurableStore` |
| `journal_returns` | a putter and a lister, a foreign record and an alien name, I/O errors, `FairSpec` | 194k | every call returns, no error path leaves a temp |
| `revision` | five records of two sizes (a package recorded twice, an observation, another package and its tombstone), all routings to two binary digits, at most three references and 12 bytes in all, at most one slip; all sets of prefixes | 956k | plans: exact cover, totals, limits, no needless refusal; the neighbour checks accept exactly the partitions; what is planned is accepted, what is accepted is right, what preflight must already refuse |
| `acyclic_check` | every graph of three revisions and a missing parent, every order, `SearchSpec` | 28k | cycles are refused, and only they |
| `reconcile` | two devices, four revisions, five records that agree, extend, bury or contradict each other, one mislabelled payload, `Budget` 20 | 40k | tombstone-live conflicts are real, found and stay, nothing lost, limits and budget hold, in every order of arrival |
| `oauth_flow` | three callbacks of any kind, `FairSpec` | 53k | one code is exchanged, waiting has a deadline, the flow settles and leaves nothing behind |
| `drive_put` | two calls, two accounts, `FairPutSpec` | 94k | receipts are of the package, error codes are reliable, calls return |
| `vault` | two packages, calls two deep, root records before and after a rotation and of another vault, roots that require one epoch or two, expectations of four forms | 304k | nothing after a lock, sealed is what was validated, opened is what was sealed and expected, claims are true |
| `storage_layout` | four ids in two buckets, three sealing calls, one caller-made manifest, one fault | 135k | a restore is the whole commit or an error; what was committed restores; parts agree with the whole |
| `private_states` | two contracts, one id, two values, two calls in flight and three in all (a clear, a migration, a change of contract each count as one), a level of the current format and one of older ones, an export to import | 762k | one salt and one password open every entry that is not astray, no call passes a rotation, the provider implements `PrivateStore` |
| `private_states_migrate` | one call in flight, two in all | violation | a second migration leaves entries of two salts |
| `private_states_stuck` | two calls in flight and in all, `StuckSpec` | violation | a get under a rotation that does not end never throws |

Why the bounds are enough. Journal: the interesting conflicts are between two
calls for one name; two inodes are their temps, or one temp and the orphan of a
crash. A second digest adds names that do not interact, and the proofs do
away with the bound. `ListBound` is small enough that temps alone can exhaust
it; nobody else leaves a file under a record's name there (`Foreign` is empty),
which only the theorems cover. Plans: with `Fan` 2 and `MaxReferences` 3 up to
two splits happen, the bound is hit exactly and overshot, and `MaxDepth` 2 is
exhausted by records that share hashes; leaves split for their number alone and
for their bytes, and the shard limit and the cumulative budget are hit exactly
and bite before the references do. Revision: downloads follow the root, so that a
reference replaced together with the shard that goes with it is one slip; the
records include a package recorded twice, so that such a shard may pass. Reconcile: a false conflict takes a revision whose parent is
missing and two heads, four revisions. `MislabelledLength` 3 allows a wrong digest
only once there are three revisions, where it can hide an ancestor; `Budget` 20
is crossed within these histories. OAuth: three
callbacks are a denial being written, a code that takes the flow meanwhile and
one that comes too late. Drive: calls share the session only. Vault: two
packages are what headers, ciphertexts and expectations can be mixed up between,
a call inside a call is all a validator can do that one call at a time does not,
`Required` has roots that list the epoch they are sealed under, both, or neither
of the two a rotation leaves, and with `MaxLocators` 2 lists of locators are
empty, full, too long or repeat one. Layouts: three sealing calls are a commit, a
second one over it as parent and a packing of either, or a manifest in between;
`PackageLimit` 3 makes a bucket of three records too large, and with `Targets`
of 2 and 4 cells a pack is refused, flushed early or holds two envelopes.
Private states: two calls are what a salt promise, a rotation lock or a key are
shared between, and a third is a clear, a migration or another contract between them; a
crossed call needs no more. An import is already several primitives. Both
initial levels hold an entry of each contract, so that a rotation has entries its own
contract does not own; `MaxEntries` and `MaxStates` are as large as the level and are not
exceeded in the run: a rotation that is refused is one that meets an entry it cannot
open. The proofs are for any limits.

`CHECK_DEADLOCK FALSE` appears only where calls end for good (revision, acyclicity,
reconciliation, OAuth flow, Drive put, layouts, and the private-state provider, whose
calls are bounded by `MaxCalls`). In the journal and the vault something may always begin.

Fairness. `FairSpec` asks weak fairness of `Step(c)` for each client: Node
settles every await that has been started (the kernel answers a system call)
and the continuation runs. No fairness is asked of new calls, crashes,
write-back or faults. `CallsReturn` therefore says that the retry loop and the
scan are bounded by themselves. In `OAuthFlow` it is asked of what the process
does by itself: the steps of the set-up, an armed timer, the close of a listener
without connections, a wait that is aborted; not of clients, of writing to
them, of the browser or of the provider. In `DrivePut` it is asked of a call whose
request can always fail: its timeout. `StuckSpec` asks it of the clock (`Expire`)
and of each call whose next step nothing holds up (`Proceeds`), and nothing of
the steps of a rotation, whose promises may be of a disk that does not answer.
The other specifications have none.

The findings, both of the pinned third-party provider. `types/src/private-state-provider.ts:263`
documents that `get` throws when a rotation does not release its lock within five
minutes. `waitForRotationLock` (`level-private-state-provider.ts:348`) compares the clock
only each time the promise it awaits has resolved, that is when the lock is released: a
rotation that hangs makes every get hang with it. `ReadTimesOut` says what the comment
says, and `private_states_stuck` shows its violation.

`level-private-state-provider.ts:1366` says of `migrateToAccountScoped` that running it
multiple times is safe but overwrites changes made in the scoped location since the
last migration. It copies the old level's metadata as well. After a rotation of the
scoped level a second run puts the old salt back over the new one: entries of keys the
old level does not have are not overwritten, but they stay under the rotation's salt and
password, which nothing in the level names any more. `MigratesSafely` says that a
migration leaves a level that one password opens such a level, and
`private_states_migrate` shows its violation.

`WriterMeetsReader` has one condition besides the coordinator's: the root has
room for the epoch it is sealed under. `collectRevisionState` lets the planner
accept 256 snapshot epochs, and a root lists at most 256 including the active
one; a catalog whose 256 snapshot epochs do not contain the active one is
planned but has no root. The run's instance contains such a catalog.

## 4. Proofs

Every invariant that a run checks is also a theorem, for every value of the
constants that the modules' assumptions allow, and so are the action properties and
the two refinements; liveness is not (see the end of this section). The invariants of the
proofs stand at the end of the modules they are about, and TLC has checked each of
them on the instance of that module's run.

### Journal

`JournalProofs`, for any finite or infinite sets of clients, digests and inodes
and any faults. The invariant `IInv` (end of `Journal`) says why
`AckedDurable` holds: the medium never disagrees with memory, it only lags
(`MediumLags`); a client with an open journal has its directory on the medium
(`OpenIsDurable`); until it is linked a temp is one put's own, and when it is
linked its bytes are on the medium (`TempPrivate`); an open record file is the
one its name is linked to, because records are never relinked (`RecordOpen`,
`RecordsWhole`); at the moment `out` says local-durable all four barriers have
passed for this very file (`AckPending`). None of these can be left out: without
`TempPrivate`, for example, a write could change a file another put had
already verified. `ReaderInv` adds what a get or list knows when it began, and
`TempInv` that a put remembers its temp until the `finally` block and that a client
not past its creation remembers none, so that no error path can forget one.

| Theorem | Property |
| --- | --- |
| `TypeCorrect` | |
| `AcknowledgedIsDurable` | `AckedDurable` |
| `RecordsNeverTorn` | `NoTornRecord` |
| `JournalImplementsStore` | `StoreSpec` |
| `ReadersSeeAcknowledged` | `ReadersKeepPromises` |
| `IntegrityIsNeverFalse` | `NoFalseIntegrity` |
| `RecordsAreImmutable` | `RecordsImmutable` |
| `NoTempStaysBehind` | `NoStrayTemp` |

### Catalog-v2

`CatalogV2Proofs`, for any fan-out, depth, limits, sizes and finite set of
records. `IInv` (end of `ShardPlanner`) holds the cover together with the fact
that the leaves' number is `coverCount` (`CountExact`) and that emitted leaves
were small enough when emitted (`EmittedFit`). The core is that replacing a
leaf by its children replaces its part of the hash space by a partition of it.

The two neighbour checks of `assertPrefixFreeCover` are shown to accept exactly the
partitions (`CoverIsExact`): the hashes under a prefix are an interval of
the sorted hashes (`CoversIsInterval`), one prefix that starts another has a neighbour
that does (`NoPrefixOfAnother`), and each interval ends right before the next
(`AddOneIsNext`, `CoversWhole`), so that there is neither overlap nor gap. `PlanIsExact` needs `ExactInv`:
only prefixes that every admissible plan must split have been split
(`SplitOff` is within `Inner(route)`), every split adds `Fan - 1` leaves, and the running
totals are those of the leaves; a refusal is then one of every plan.

For the revision, `RevisionInv` says that what the reader has established stays so
while it goes on, which is all that `OnlyTheRevisionIsAccepted` and
`WhatIsAcceptedIsACatalog` need: they hold whatever the coordinator hands over, in any number of
slips. The converse needs to know more of the reader: `ReaderInOrder` (it copies and parses what it was handed, a
shard after the other, and its running total is their sum), and `Placed` (records
are under the prefix of their reference, wherever that comes from). With these,
`ArrivalInv` has that no check after a passed preflight fails if what the root refers to
arrives, except one on the contents; and `MeetingInv`, that without a
slip the root is the plan, so that `PlansAreAccepted` and `PlanIsExact` answer
every check.

| Theorem | Property |
| --- | --- |
| `PlannerTypeCorrect` | |
| `EveryHashHasItsLeaf` | `ExactCover` |
| `PlansFit` | `PlanFits` |
| `CoverIsExact` | |
| `PlansAreAccepted` | `CoverChecked` |
| `PlanIsExact` | `PlanExact` |
| `RevisionTypeCorrect` | |
| `OnlyTheRevisionIsAccepted` | `AcceptedAsRooted` |
| `WhatIsAcceptedIsACatalog` | `AcceptedIsCatalog` |
| `PreflightIsEnough` | `PreflightSparesDownloads` |
| `WhatIsPlannedIsAccepted` | `WriterMeetsReader` |

### Catalog-v1

`CatalogV1Proofs`, for any finite set of revisions and any number of devices.
`SearchInv` (end of `AcyclicCheck`): the gray revisions are the stack and form a path
(`GrayPath`), parents a frame has dealt with are black (`LookedAt`), and the black
revisions are closed under parents and contain no cycle (`BlackDone`). A gray
parent then closes a cycle that lies on the stack, and when all are black there is none.

`ReconcileInv` (end of `Reconcile`) is short, since the function has no state: what
was published parses and differs from its ancestors in snapshots only
(`Published`), and what a device has was published, under its own digest as long as
nothing was mislabelled (`Genuine`). The work is in the lemmas about the function. The
iteration that computes `Above` is shown to end with the least set closed under
parents (`AboveIs`, `AboveLeast`), and with the whole ancestry where nothing is missing
(`CompleteIsAll`), which is what `ReportedConflictsAreReal` and
`RealConflictsAreFound` turn on; `ConflictsStayThere` needs that more inputs never make
less ancestry known. `ResultsAreWithinBudget` counts the result against what the loops
of `mergeCatalogRecords` spend, conflict by conflict.

| Theorem | Property |
| --- | --- |
| `CyclesAreFound` | `CyclesFound` |
| `ReconcileTypeCorrect` | |
| `ReportedConflictsAreReal` | `ConflictsAreReal` |
| `RealConflictsAreFound` | `ConflictsAreFound` |
| `ConflictsStayThere` | `ConflictsStay` |
| `NothingIsLost` | `NothingLost` |
| `ResultsAreWithinBudget` | `ResultWithinBudget` |

### OAuth flow and Drive put

`GoogleProofs`, for any number of callbacks, calls and accounts. `IInv` (end of
`OAuthFlow`): at most one callback is between taking a code and the end, or has
exchanged, and `exchanging` is set for good when there is one (`OneTaker`); what the
flow settles with is a code that has been exchanged (`SessionOfExchanged`).

`PutInv` (end of `DrivePut`) ties what a call knows to what the provider holds: a status
that refuses means no file (`PostAnswered`), the bytes served were the file's unless
it has changed since (`ReadIsCurrent`), and a receipt is for bytes that were served
(`ReceiptsAreRead`) in a session of the right account (`CallsAreBound`).

| Theorem | Property |
| --- | --- |
| `FlowTypeCorrect` | |
| `OneCodeIsExchanged` | `OneExchange` |
| `WaitingHasDeadline` | `WaitsWithDeadline` |
| `PutTypeCorrect` | |
| `ReceiptsAreOfThePackage` | `ReceiptsHold` |
| `CodesAreReliable` | `CodesTellWhatIsStored` |

### Vault

`VaultProofs`, for any root records, codecs and payloads, and calls inside calls to
any depth. `IInv` (end of `Vault`) adds to the four properties of returned results
and running validators what they need: a package is what its header says, a catalog
and a root in their vault's record, a root requiring the epoch it is sealed under
(`PackagesFit`); an open call at its validator is of a package of the vault its handle
is open for, unless that has been locked, because no handle's name is unlocked again
while a call of it is in progress (`CallsKnowTheirPackage`); what the last call has
returned is of a package there is (`LastIsOfPackage`). A lemma for each kind of call
says what its list of checks comes to (`OpenNodeAccepted` and the like), so that the
order of the checks plays no part in the rest. `SealedOpens` follows from `PackagesFit`.

| Theorem | Property |
| --- | --- |
| `VaultTypeCorrect` | |
| `NothingAfterLockHolds` | `NothingAfterLock` |
| `SealedIsWhatWasShown` | `SealedAsShown` |
| `CodecsAreShownTheExpected` | `CodecsSeeExpected` |
| `OpenedIsExpected` | `OpenedAsExpected` |
| `WhatIsSealedOpens` | `SealedOpens` |

### Storage layouts

`StorageLayoutProofs`, for any records, buckets, limits, targets, number of calls and
caller-made manifests, and whatever the store loses or changes. `LayoutInv` (end of
`StorageLayout`): every seal is of an earlier call and has one content for good, so that
a later call cannot reuse it (`SealsHold`); the envelopes a revision names, those it took over
from its parent included, were sealed under the bucket's record id with just the records the
revision has in that bucket (`RevisionHolds`); the extents of a packing say where in its packs each
envelope of the revision is, once (`PackingHolds`); a store that lost nothing has every
envelope and pack under its hash (`StoreHolds`). It is strong enough whatever manifests the
caller seals, because they are under seals of their own.

Four lemmas carry the rest. `OpensAs`: what a reader opens under a hash and a record
id is the content sealed there, or nothing. `LoopKeeps`: between two buckets the loop of
`packShards` has what it took so far in its buffer or in a pack, once, at the offset its
extent says (`LoopInv`; that the loop is well defined for every set of buckets is
`LoopExists`). `SliceIs`: the bytes read at such an offset are the envelope.
`LaidOutIsValid`: no two extents of a packing overlap, because a byte belongs to one
seal, so that a reader accepts every manifest `packShards` seals. `PartsAgree` needs no
invariant: it is about the readers alone, under any manifest and any store.

| Theorem | Property |
| --- | --- |
| `PartsAgree` | `PartsAgreeWithWhole` |
| `RestoresAreWhole` | `RestoresWhole` |
| `CommitsCanBeRestored` | `CommittedRestores` |

### Private states

`PrivateStatesProofs`, for any contracts, ids, values, passwords, levels and slots and
any number of calls, and whatever rotates, clears, migrates or changes the contract when.
`IInv` (end of `PrivateStates`) says why the key of a call that was not crossed is
still the key of the level when the call writes: entries that are not astray open
with the metadata's salt and the level's password (`EntriesOpen`), the application knows
that password but for the end of a rotation (`PasswordKnown`), one call at a time makes a
salt and the others join it (`SaltKnown`), where a crossed one is about to replace a
salt no other call relies on it (`NewSaltAlone`), a key once taken is of that salt and
password (`KeyKnown`), and while a rotation holds the lock every call but its own rests,
waits, or was crossed by it (`RotatesAlone`, which also says that what its batch will not
replace is astray); what a set or an import has left to write are values
(`SetsValues`). `RotationShutsOthersOut` needs little of it: who looks at the lock and
finds it taken waits. The refinement needs `RInv` besides: a call works on the key of
its request (`WorksOnRequest`). Each action of `PrivateStates` is then shown to be a step
of `PrivateStore` or a stutter: the store sees of a call what it asks, what it was answered
and what it has yet to put back (`Seen`), and the actions differ in which of the three
they change.

| Theorem | Property |
| --- | --- |
| `ProviderTypeCorrect` | |
| `RotationShutsOthersOut` | `RotationShutsOut` |
| `OneKeyOpensEverything` | `OneKeyOpensAll` |
| `ProviderImplementsStore` | `StoreSpec` |

### How the proofs reach sets, sums and loops

The provers cannot instantiate an induction scheme. Where a statement is
about every finite set, `Facts` derives it from a first-order theorem of the library, that the
finite subsets of a set are well founded under inclusion: `Least` (a set of numbers has
a least element), from it `Induct` (a *set* of numbers that has 0 and all successors is
all numbers) and `GrowSet`. A sum over a function is the size of a set of pairs
(`Weight`, `SumIsWeight`), and a recursive function is shown to exist, and to keep an
invariant, by `Induct` over the sizes of its arguments.

A theorem without a property states a type invariant, which no
run needs to repeat, or a fact about constants (`CoverIsExact`).

What is not proved, and why: `CallsReturn`, `FlowSettles`, `NothingLeftBehind` and
`PutsReturn` are liveness under fairness, which these provers do not reach; they
are model-checked only. `ReadTimesOut` and `MigratesSafely` do not hold: their violations
are the findings.

What the proofs rest on besides the modelling choices of Section 2 are the named
assumptions on constants, which TLC evaluates in every run: sizes and limits are
numbers, sets of records and revisions are finite, routing is a function.

## 5. Not modelled, and the plan

Done so far, in this order: journal, planner and cover check, revision reader,
acyclicity and reconciliation, OAuth flow, Drive put, vault with expectations
and claims, storage layouts, private-state provider. Next:

1. `Backup`, a composition of vault, OAuth flow, Drive put and journal along
   `scripts/google-drive-smoke.mjs` (seal, authorize, put, open what was read
   back, lock): what a receipt implies for a later restore from a recovery pack.
2. For the liveness properties, the safety part: an invariant which says that a call
   that has not returned has a step enabled, stated without `ENABLED`, and a measure
   that bounds the retries of the journal's put.
3. A run for the observation on `WPP_LOCKED` above.

Not modelled for good:

* encodings and cryptography: pure data; digests are taken as injective,
  authenticated encryption as ideal;
* the grammar of single fields in `catalog/validation.ts`: one record at a time,
  without state;
* set-up scripts, format vectors, and `benchmark.mjs` of the layout experiment, which
  times the operations `StorageLayout` models: sequential, no state of their own;
* the other sources kept under `research/midnight-docs/` (contracts, provers,
  wallets, and the duplicates under `pinned-source/`): nothing of the program
  calls them.
