------------------------------- MODULE Vault -------------------------------
(***************************************************************************)
(* UnlockedVault of src/src/kernel/vault.ts: handles that seal packages    *)
(* under the active epoch of a root record and open packages of any epoch  *)
(* it lists.  One thread runs everything, but sealSnapshot and             *)
(* openSnapshot call code of the caller: the accessors of the objects they *)
(* are given, and the validator of a codec.  From there any call may be    *)
(* made, lock among them, before the one in progress goes on.              *)
(*                                                                         *)
(* Encryption is ideal: a package opens under the secret and the header it *)
(* was sealed with and no others.  The epochs of a vault have one secret   *)
(* each, in all its root records.                                          *)
(***************************************************************************)
EXTENDS Checks, Functions

CONSTANTS
  Handles,
  Roots, VaultOf, EpochsOf, ActiveOf,   \* root records, and what they say
  Locked,                               \* in place of a root record
  Slots, CatalogSlot,   \* pairs of scope and record; those of each vault's catalog
  Codecs, Registered, Native,
  Leaves, Required,     \* lists of records, for shards; sets of epochs, for roots
  Locators, MaxLocators,   \* where a shard is said to be stored
  MaxPackages, MaxCalls   \* bounds: packages there may be, calls inside calls

ASSUME RootsAssumption ==
  /\ \A r \in Roots : ActiveOf[r] \in EpochsOf[r] /\ CatalogSlot[VaultOf[r]] \in Slots
  /\ Locked \notin Roots
ASSUME CodecsAssumption == Registered \subseteq Codecs
ASSUME BoundsAssumption == MaxLocators \in Nat \ {0} /\ MaxPackages \in Nat

VARIABLES
  root,      \* what each handle has been opened with, unless it is locked
  stack,     \* calls in progress, the innermost last
  packages,  \* all that have been sealed; one's place is its generation
  last       \* what the last call to end has returned or thrown

vars == <<root, stack, packages, last>>

Vaults == {VaultOf[r] : r \in Roots}
Epochs == UNION {EpochsOf[r] : r \in Roots}

(* A payload is of one of the four formats.                                *)
Snapshot(c) == [role |-> "snapshot", codec |-> c]
Catalog     == [role |-> "catalog"]
RootNode(E) == [role |-> "root", requiredEpochs |-> E]
Shard(l)    == [role |-> "shard", records |-> l]

Snapshots == {Snapshot(c) : c \in Codecs \cup {Native}}
Payloads  == Snapshots \cup {Catalog} \cup {RootNode(E) : E \in Required}
               \cup {Shard(l) : l \in Leaves}

(* A new shard is given a record of its own.                               *)
ShardSlot(gen) == <<gen>>

(* A wire is a header and the ciphertext of some package.                  *)
Wire(n) == [header |-> packages[n].header, box |-> n]
Wires == {[header |-> packages[n].header, box |-> m] : n, m \in 1..Len(packages)}

Nothing == [code |-> "none"]

Init ==
  /\ root = [h \in Handles |-> Locked]
  /\ stack = <<>> /\ packages = <<>> /\ last = Nothing

-----------------------------------------------------------------------------
Open(h) == root[h] # Locked

(* The innermost call, while the caller's code runs in it.                 *)
Top == stack[Len(stack)]
Running(op, stage) == stack # <<>> /\ Top.op = op /\ Top.stage = stage
Becomes(call) == stack' = [stack EXCEPT ![Len(stack)] = call]
Ends == stack' = SubSeq(stack, 1, Len(stack) - 1)

Throws(code) == last' = [code |-> code] /\ UNCHANGED <<root, packages>>
Returns(op, h, result) == last' = [code |-> "OK", op |-> op, h |-> h, result |-> result]

(* fromRootRecord, and fromRecoveryPack, which finds a root record in the  *)
(* pack.  The name is one no call in progress uses.                        *)
Unlock(h, r) ==
  /\ ~Open(h) /\ \A i \in 1..Len(stack) : stack[i].h # h
  /\ root' = [root EXCEPT ![h] = r] /\ last' = Nothing /\ UNCHANGED <<stack, packages>>

(* Drops the root record with its secrets.                                 *)
Lock(h) == root' = [root EXCEPT ![h] = Locked] /\ last' = Nothing /\ UNCHANGED <<stack, packages>>

(* In a locked handle a call throws LOCKED and changes nothing.            *)
Begin(h, call) ==
  /\ Open(h) /\ Len(stack) < MaxCalls
  /\ stack' = Append(stack, call) /\ last' = Nothing /\ UNCHANGED <<root, packages>>

-----------------------------------------------------------------------------
(* lookupCodec, after requireCodecs.                                       *)
CodecCode(h, c) == FirstFailing(<<
  Check(~Open(h), "LOCKED"), Check(c = Native, "UNSUPPORTED"),
  Check(c \notin Registered, "CODEC_UNKNOWN")>>)

(* A validator returns undefined, or throws or returns something.          *)
Verdicts == {"good", "bad"}

(* Bug: a lock is noticed on entry only.                                   *)
AfterCodecUnlocked(h, verdict) == <<Check(verdict = "bad", "CODEC")>>

(* What follows the validator in runCodec, and again in openSnapshot: it   *)
(* may have locked the handle.                                             *)
AfterCodec(h, verdict) == <<Check(verdict = "bad", "CODEC"), Check(~Open(h), "LOCKED")>>

(* sealJson looks for the lock once more.  The new package is the last one.*)
SealCode(h, verdict) == FirstFailing(AfterCodec(h, verdict) \o <<Check(~Open(h), "LOCKED")>>)

Seal(h, payload, slot, kind) ==
  /\ Len(packages) < MaxPackages
  /\ packages' = Append(packages,
       [header |-> [vault |-> VaultOf[root[h]], epoch |-> ActiveOf[root[h]], slot |-> slot,
                    gen |-> Len(packages) + 1, kind |-> kind],
        payload |-> payload])
  /\ UNCHANGED root

SealSnapshot(h) == Begin(h, [op |-> "sealSnapshot", h |-> h, stage |-> "reading"])

(* The identifiers and the payload have been read from the input and the   *)
(* payload parsed.  The caller's bytes, which its code may change from now *)
(* on, are not looked at again.                                            *)
SealParsed ==
  /\ Running("sealSnapshot", "reading")
  /\ \E slot \in Slots, payload \in Snapshots :
       LET code == CodecCode(Top.h, payload.codec) IN
       IF code = "accepted"
       THEN /\ Becomes([op |-> "sealSnapshot", h |-> Top.h, stage |-> "validating",
                        slot |-> slot, payload |-> payload])
            /\ last' = Nothing /\ UNCHANGED <<root, packages>>
       ELSE Ends /\ Throws(code)

(* Bug: the bytes are parsed again after they have been validated.         *)
SealValidatedAgain ==
  /\ Running("sealSnapshot", "validating") /\ Ends
  /\ \E verdict \in Verdicts, bytes \in Snapshots :
       LET code == SealCode(Top.h, verdict) IN
       IF code = "accepted"
       THEN /\ Seal(Top.h, bytes, Top.slot, "snapshot")
            /\ Returns("sealSnapshot", Top.h, [slot |-> Top.slot, shown |-> Top.payload])
       ELSE Throws(code)

SealValidated ==
  /\ Running("sealSnapshot", "validating") /\ Ends
  /\ \E verdict \in Verdicts :
       LET code == SealCode(Top.h, verdict) IN
       IF code = "accepted"
       THEN /\ Seal(Top.h, Top.payload, Top.slot, "snapshot")
            /\ Returns("sealSnapshot", Top.h, [slot |-> Top.slot, shown |-> Top.payload])
       ELSE Throws(code)

(* Bug: the epochs a root requires need only be known.                     *)
SealRootCodeKnown(h, payload) ==
  IF payload.requiredEpochs \cap EpochsOf[root[h]] = {} THEN "REFERENCE" ELSE "accepted"

(* A root must require the epoch it is sealed under.                       *)
SealRootCode(h, payload) ==
  IF ActiveOf[root[h]] \notin payload.requiredEpochs THEN "REFERENCE" ELSE "accepted"

(* sealCatalog and sealCatalogNode call no code of the caller; when they   *)
(* throw they change nothing.                                              *)
SealCatalog(h, payload) ==
  LET slot == IF payload.role = "shard" THEN ShardSlot(Len(packages) + 1)
                                        ELSE CatalogSlot[VaultOf[root[h]]] IN
  /\ Open(h)
  /\ payload.role = "root" => SealRootCode(h, payload) = "accepted"
  /\ Seal(h, payload, slot, "catalog")
  /\ Returns("sealCatalog", h, [slot |-> slot, shown |-> payload])
  /\ UNCHANGED stack

CreateRecoveryPack(h) ==
  /\ Open(h) /\ Returns("createRecoveryPack", h, root[h])
  /\ UNCHANGED <<root, stack, packages>>

-----------------------------------------------------------------------------
(* decryptPack.                                                            *)
Decrypting(h, w) == <<
  Check(~Open(h), "LOCKED"),
  Check(Open(h) /\ w.header.vault # VaultOf[root[h]], "ROOT"),
  Check(Open(h) /\ w.header.epoch \notin EpochsOf[root[h]], "EPOCH"),
  Check(w # Wire(w.box), "AUTH")>>
Payload(w) == packages[w.box].payload

(* Bug: the metadata is left to the caller to compare.                     *)
SameRecord(w, expected) == expected.slot = w.header.slot

(* assertExpectedBinding.                                                  *)
ExpectedBinding(w, expected) == expected.slot = w.header.slot /\ expected.about = Payload(w)

(* openSnapshot up to the codec.                                           *)
OpenSnapshotCode(h, w, expected) == FirstFailing(
  <<Check(w.header.kind # "snapshot", "UNSUPPORTED")>> \o Decrypting(h, w) \o
  <<Check(~ExpectedBinding(w, expected), "BINDING")>>)

OpenSnapshot(h, w) == Begin(h, [op |-> "openSnapshot", h |-> h, stage |-> "reading", wire |-> w])

OpenParsed ==
  /\ Running("openSnapshot", "reading")
  /\ \E slot \in Slots, about \in Snapshots :
       LET expected == [slot |-> slot, about |-> about]
           bound == OpenSnapshotCode(Top.h, Top.wire, expected)
           code == IF bound # "accepted" THEN bound
                   ELSE CodecCode(Top.h, Payload(Top.wire).codec) IN
       IF code = "accepted"
       THEN /\ Becomes([op |-> "openSnapshot", h |-> Top.h, stage |-> "validating",
                        wire |-> Top.wire, expected |-> expected])
            /\ last' = Nothing /\ UNCHANGED <<root, packages>>
       ELSE Ends /\ Throws(code)

OpenValidated ==
  /\ Running("openSnapshot", "validating") /\ Ends
  /\ \E verdict \in Verdicts :
       LET code == FirstFailing(AfterCodec(Top.h, verdict)) IN
       IF code = "accepted"
       THEN /\ Returns("openSnapshot", Top.h, [wire |-> Top.wire, expected |-> Top.expected])
            /\ UNCHANGED <<root, packages>>
       ELSE Throws(code)

(* openCatalog.                                                            *)
OpenCatalogCode(h, w) == FirstFailing(
  <<Check(~Open(h), "LOCKED"), Check(w.header.kind # "catalog", "UNSUPPORTED"),
    Check(Open(h) /\ w.header.slot # CatalogSlot[VaultOf[root[h]]], "BINDING")>>
  \o Decrypting(h, w) \o <<Check(Payload(w).role # "catalog", "SCHEMA")>>)

OpenCatalog(h, w) ==
  /\ Open(h) /\ OpenCatalogCode(h, w) = "accepted" /\ Returns("openCatalog", h, [wire |-> w])
  /\ UNCHANGED <<root, stack, packages>>

(* What a caller expects of a node: a root by its wire only, a shard as a  *)
(* root refers to it.  The object it says so in has one of four forms:     *)
(* plain data of the right fields and ranges; a proxy, accessors or a      *)
(* prototype, which may run code; other fields, as in the reference to an  *)
(* empty prefix; a field of another type or out of its range.              *)
Forms == {"data", "live", "fields", "range"}
Expecting(n) ==
  [role |-> packages[n].payload.role, form |-> "data", wire |-> Wire(n),
   slot |-> packages[n].header.slot, gen |-> packages[n].header.gen,
   epoch |-> packages[n].header.epoch, payload |-> packages[n].payload,
   locators |-> <<CHOOSE l \in Locators : TRUE>>]

(* ownEnumerableData: looks at descriptors and never calls an accessor.    *)
OwnEnumerableData(form) == form \notin {"live", "fields"}

(* copyLowerHex, copyBoundedInt, copyIdString, copyPatternString.          *)
InRange(form) == form # "range"

(* copyLocators.                                                           *)
CopyLocators(ls) == Len(ls) \in 1..MaxLocators /\ IsInjective(ls)

(* copyExpectedCatalogNode with copyNonemptyReference.                     *)
CopyExpected(expected) ==
  /\ OwnEnumerableData(expected.form) /\ expected.role \in {"root", "shard"}
  /\ InRange(expected.form)
  /\ expected.role = "shard" => CopyLocators(expected.locators)

NodeBound(h, w, expected) ==
  /\ w.header.slot = IF expected.role = "root" THEN CatalogSlot[VaultOf[root[h]]] ELSE expected.slot
  /\ expected.role = "shard" => w.header.gen = expected.gen /\ w.header.epoch = expected.epoch

NodeMatches(w, expected) ==
  /\ Payload(w).role = "root" => w.header.epoch \in Payload(w).requiredEpochs
  /\ Payload(w).role = "shard" => Payload(w) = expected.payload

(* Bug: the record tells which node is meant.                              *)
SelectedRecord(w, expected) == w.header.slot = expected.wire.header.slot

(* Length and digest of the whole wire are as expected.                    *)
SelectedWire(w, expected) == w = expected.wire

(* openCatalogNode.                                                        *)
OpenNodeCode(h, w, expected) == FirstFailing(
  <<Check(~Open(h), "LOCKED"), Check(~CopyExpected(expected), "SCHEMA"),
    Check(~SelectedWire(w, expected), "BINDING"),
    Check(w.header.kind # "catalog", "UNSUPPORTED"),
    Check(Open(h) /\ w.header.vault # VaultOf[root[h]], "ROOT"),
    Check(Open(h) /\ ~NodeBound(h, w, expected), "BINDING")>>
  \o Decrypting(h, w) \o
  <<Check(Payload(w).role # expected.role, "ROLE"), Check(~NodeMatches(w, expected), "REFERENCE")>>)

(* Expectations a coordinator can hold, mistaken ones among them: the      *)
(* wire of one package with what is known of another, a shard with the     *)
(* records of another, and objects that are no expectations.               *)
MistakenExpectations(w) ==
  {[Expecting(n) EXCEPT !.wire = Wire(m)] : n, m \in 1..Len(packages)} \cup
  {[Expecting(w.box) EXCEPT !.payload = packages[m].payload] : m \in 1..Len(packages)}
MalformedExpectations(n) ==
  {[Expecting(n) EXCEPT !.form = f] : f \in Forms} \cup
  {[Expecting(n) EXCEPT !.locators = ls] :
     ls \in UNION {[1..k -> Locators] : k \in 0..MaxLocators + 1}}
Expectations(w) ==
  MistakenExpectations(w) \cup IF w = Wire(w.box) THEN MalformedExpectations(w.box) ELSE {}

OpenCatalogNode(h, w) ==
  /\ Open(h)
  /\ \E expected \in Expectations(w) :
       /\ OpenNodeCode(h, w, expected) = "accepted"
       /\ Returns("openCatalogNode", h, [wire |-> w, expected |-> expected])
  /\ UNCHANGED <<root, stack, packages>>

-----------------------------------------------------------------------------
(* A snapshot entry of a catalog claims what the package is that it refers *)
(* to.  Claims may mix up packages, and the vault they are checked for.    *)
Claim(n) ==
  [wire |-> Wire(n), epoch |-> packages[n].header.epoch, slot |-> packages[n].header.slot,
   gen |-> packages[n].header.gen, metadata |-> packages[n].payload]
Claims ==
  {[Claim(n) EXCEPT !.wire = Wire(m)] : n, m \in 1..Len(packages)} \cup
  {[Claim(n) EXCEPT !.slot = s] : n \in 1..Len(packages), s \in Slots} \cup
  {[Claim(n) EXCEPT !.metadata = packages[m].payload] : n, m \in 1..Len(packages)}

(* ownedOpenResult: what openSnapshot has returned, by the caller's copy.  *)
Opened == [wire |-> last.result.wire, header |-> last.result.wire.header,
           metadata |-> Payload(last.result.wire)]

Mismatch(claim, vault) ==
  \/ Opened.wire # claim.wire \/ Opened.header.vault # vault
  \/ Opened.header.epoch # claim.epoch \/ Opened.header.slot # claim.slot
  \/ Opened.header.gen # claim.gen \/ Opened.header.kind # "snapshot"
  \/ Opened.metadata # claim.metadata

(* verifySnapshotClaim, of validation.ts, straight after openSnapshot.     *)
VerifySnapshotClaim ==
  /\ last.code = "OK" /\ last.op = "openSnapshot"
  /\ \E claim \in Claims, vault \in Vaults :
       /\ ~Mismatch(claim, vault)
       /\ Returns("verifySnapshotClaim", last.h,
                  [wire |-> last.result.wire, claim |-> claim, vault |-> vault])
  /\ UNCHANGED <<root, stack, packages>>

-----------------------------------------------------------------------------
Call(h) ==
  \/ \E r \in Roots : Unlock(h, r)
  \/ Lock(h) \/ SealSnapshot(h) \/ CreateRecoveryPack(h)
  \/ \E payload \in Payloads \ Snapshots : SealCatalog(h, payload)
  \/ \E w \in Wires : OpenSnapshot(h, w) \/ OpenCatalog(h, w) \/ OpenCatalogNode(h, w)

GoOn == SealParsed \/ SealValidated \/ OpenParsed \/ OpenValidated

Next == (\E h \in Handles : Call(h)) \/ GoOn \/ VerifySnapshotClaim

Spec == Init /\ [][Next]_vars

-----------------------------------------------------------------------------
(***************************************************************************)
(* Properties.                                                             *)
(***************************************************************************)
(* Once a handle is locked no call of it gives anything, neither a package *)
(* nor a plaintext nor a recovery pack: not even one that had begun        *)
(* before, when the lock came from its own validator or from a call inside *)
(* a call.                                                                 *)
NothingAfterLock == last.code = "OK" => Open(last.h)

(* What is sealed is what the validator of this call was shown, or what    *)
(* the catalog checks have passed, in the record the caller named: not     *)
(* what the caller's code has put there meanwhile, and not what a call     *)
(* inside this one has sealed.                                             *)
SealedAsShown ==
  last.code = "OK" /\ last.op \in {"sealSnapshot", "sealCatalog"} =>
    LET p == packages[Len(packages)] IN
    p.payload = last.result.shown /\ p.header.slot = last.result.slot

(* A validator is called in openSnapshot only for a package of this vault  *)
(* that is authentic and the one expected, of a codec it is for.  (The     *)
(* vault is the one the handle is of until the validator locks it.)        *)
CodecsSeeExpected ==
  \A i \in 1..Len(stack) :
    LET call == stack[i] IN
    call.op = "openSnapshot" /\ call.stage = "validating" =>
      /\ Open(call.h) => call.wire.header.vault = VaultOf[root[call.h]]
      /\ call.wire = Wire(call.wire.box) /\ call.wire.header.kind = "snapshot"
      /\ call.wire.header.slot = call.expected.slot
      /\ Payload(call.wire) = call.expected.about /\ Payload(call.wire).codec \in Registered

(* Headers and ciphertexts of packages may be mixed up, and so may what a  *)
(* caller expects: what an open call returns has been sealed as it is, by  *)
(* this vault and for this kind of call, and is what the caller expected,  *)
(* a root by its wire and a shard as its root describes it, with a list of *)
(* places to find it at and no code behind the description.  A catalog's   *)
(* claim that has been verified is true of the package in every field.     *)
OpenedAsExpected ==
  last.code = "OK" /\ last.op \in {"openSnapshot", "openCatalog", "openCatalogNode",
                                   "verifySnapshotClaim"} =>
    LET w == last.result.wire
        expected == last.result.expected
    IN  /\ w = Wire(w.box) /\ w.header.vault = VaultOf[root[last.h]]
        /\ last.op = "openSnapshot" => Payload(w) \in Snapshots /\ expected.slot = w.header.slot
                                        /\ expected.about = Payload(w)
        /\ last.op = "openCatalog" => Payload(w) = Catalog
        /\ last.op = "openCatalogNode" =>
             /\ w = expected.wire /\ Payload(w).role = expected.role
             /\ expected.role = "shard" => Payload(w) = expected.payload
                                           /\ w.header.slot = expected.slot
                                           /\ expected.locators # <<>>
             /\ expected.form = "data"
        /\ last.op = "verifySnapshotClaim" =>
             last.result.claim = Claim(w.box) /\ last.result.vault = packages[w.box].header.vault

(* What a handle has sealed every unlocked handle of the vault opens whose *)
(* root record lists the epoch, also after a rotation that has retired it: *)
(* sealing passes nothing that opening refuses.                            *)
OpenCode(h, n) ==
  LET role == packages[n].payload.role IN
  IF role = "snapshot"
  THEN OpenSnapshotCode(h, Wire(n), [slot |-> packages[n].header.slot, about |-> packages[n].payload])
  ELSE IF role = "catalog" THEN OpenCatalogCode(h, Wire(n))
  ELSE OpenNodeCode(h, Wire(n), Expecting(n))

SealedOpens ==
  \A h \in Handles, n \in 1..Len(packages) :
    /\ Open(h)
    /\ VaultOf[root[h]] = packages[n].header.vault
    /\ packages[n].header.epoch \in EpochsOf[root[h]]
    => OpenCode(h, n) = "accepted"

-----------------------------------------------------------------------------
(***************************************************************************)
(* The invariant the proofs go by.                                         *)
(***************************************************************************)
Header  == [vault : Vaults, epoch : Epochs, slot : Slots \cup {ShardSlot(n) : n \in 1..MaxPackages},
            gen : 1..MaxPackages, kind : {"snapshot", "catalog"}]
Package == [header : Header, payload : Payloads]
AnyWire == [header : Header, box : 1..MaxPackages]
InProgress ==
  [op : {"sealSnapshot"}, h : Handles, stage : {"reading"}] \cup
  [op : {"sealSnapshot"}, h : Handles, stage : {"validating"}, slot : Slots, payload : Snapshots] \cup
  [op : {"openSnapshot"}, h : Handles, stage : {"reading"}, wire : AnyWire] \cup
  [op : {"openSnapshot"}, h : Handles, stage : {"validating"}, wire : AnyWire,
   expected : [slot : Slots, about : Snapshots]]

TypeOK ==
  /\ root \in [Handles -> Roots \cup {Locked}]
  /\ packages \in Seq(Package) /\ Len(packages) <= MaxPackages
  /\ stack \in Seq(InProgress)

(* A package is what its header says: snapshots are of their own kind, a   *)
(* catalog and a root are in the record of their vault, and a root lists   *)
(* the epoch it is sealed under.                                           *)
PackagesFit ==
  \A n \in 1..Len(packages) :
    LET p == packages[n] IN
    /\ p.header.kind = "snapshot" <=> p.payload \in Snapshots
    /\ p.payload.role \in {"catalog", "root"} => p.header.slot = CatalogSlot[p.header.vault]
    /\ p.payload.role = "root" => p.header.epoch \in p.payload.requiredEpochs

(* The wire of an open call is of packages there are.                      *)
CallsKnowTheirPackage ==
  \A i \in 1..Len(stack) :
    stack[i].op = "openSnapshot" => stack[i].wire.box \in 1..Len(packages)

(* What has been returned is of a handle and, if opened, of a package.     *)
LastIsOfPackage ==
  last.code = "OK" =>
    /\ last.h \in Handles
    /\ last.op \in {"openSnapshot", "openCatalog", "openCatalogNode", "verifySnapshotClaim"} =>
         last.result.wire.box \in 1..Len(packages)
    /\ last.op \in {"sealSnapshot", "sealCatalog"} => Len(packages) > 0

IInv ==
  /\ TypeOK /\ PackagesFit /\ CallsKnowTheirPackage /\ LastIsOfPackage
  /\ NothingAfterLock /\ SealedAsShown /\ CodecsSeeExpected /\ OpenedAsExpected
=============================================================================
