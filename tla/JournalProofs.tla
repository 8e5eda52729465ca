--------------------------- MODULE JournalProofs ---------------------------
(***************************************************************************)
(* Proofs about Journal: whatever the numbers of clients, records and      *)
(* files, whatever fails and whenever the power is lost.                   *)
(***************************************************************************)
EXTENDS Journal, TLAPS

USE JournalAssumption

LEMMA AnyDigestIsDigest == AnyDigest \in Digests
  BY DEF AnyDigest

LEMMA NoScanIsScan == NoScan \in Scan
  BY DEF NoScan, Scan

LEMMA ScanDrop ==
  ASSUME NEW s \in Scan, NEW i
  PROVE  LET t == [s EXCEPT !.seen = @ \ {i}, !.due = @ \ {i}]
         IN  t \in Scan /\ t.seen = s.seen \ {i} /\ t.due = s.due \ {i}
  BY DEF Scan

LEMMA ScanTakes ==
  ASSUME NEW s \in Scan, NEW e \in Entry, ~(s.count + 1 > ListBound)
  PROVE  [s EXCEPT !.seen = @ \cup {e}, !.count = @ + 1] \in Scan
<1>1. s.count + 1 \in 0..ListBound /\ s.seen \cup {e} \in SUBSET Entry
  BY DEF Scan
<1> QED
  BY <1>1 DEF Scan

-----------------------------------------------------------------------------
(* Type correctness, one action at a time.                                 *)

LEMMA TypeInit == Init => TypeOK
<1> SUFFICES ASSUME Init PROVE TypeOK
  OBVIOUS
<1>1. pub \in [Digests -> Inodes \cup {NoInode}]
  BY DEF Init, NoRecord
<1>2. arg \in [Clients -> Digests]
  BY AnyDigestIsDigest DEF Init
<1>3. scan \in [Clients -> Scan]
  BY NoScanIsScan DEF Init
<1>4. tries \in [Clients -> 0..(TempTries - 1)]
  BY DEF Init
<1> QED
  BY <1>1, <1>2, <1>3, <1>4 DEF Init, TypeOK, Codes

LEMMA TypeStep == TypeOK /\ [Next]_vars => TypeOK'
<1> SUFFICES ASSUME TypeOK, [Next]_vars PROVE TypeOK'
  OBVIOUS
<1> USE DEF TypeOK, fs, kernelView, medium, call, Go, Return, PutThrow
<1>1. CASE UNCHANGED vars
  BY <1>1 DEF vars
<1>2. CASE PowerLoss
  BY <1>2 DEF PowerLoss, Forget, Codes, NoScan, NoRecord, Entry, Scan
<1>3. CASE Writeback
  BY <1>3 DEF Writeback
<1>4. ASSUME NEW c \in Clients, Crash(c) PROVE TypeOK'
  BY <1>4 DEF Crash, Forget, Codes, NoScan, Entry, Scan
<1>5. ASSUME NEW c \in Clients, Begin(c) PROVE TypeOK'
  <2>1. CASE OpenLstat(c)
    BY <2>1 DEF OpenLstat, OpenPC
  <2>2. ASSUME NEW d \in Digests, PutBegin(c, d) PROVE TypeOK'
    BY <2>2 DEF PutBegin, Codes, NoScan, CallPC, PutPC, Entry, Scan
  <2>3. ASSUME NEW d \in Digests, GetOpen(c, d) PROVE TypeOK'
    <3>1. /\ pc' \in {[pc EXCEPT ![c] = "ready"], [pc EXCEPT ![c] = "g_read"]}
          /\ out' \in {[out EXCEPT ![c] = "NOT_FOUND"], [out EXCEPT ![c] = "none"]}
          /\ fd' \in {fd, [fd EXCEPT ![c] = pub[d]]}
      BY <2>3 DEF GetOpen
    <3>2. UNCHANGED <<fs, ino, tries, acked>>
      BY <2>3 DEF GetOpen
    <3>3. arg' = [arg EXCEPT ![c] = d] /\ owed' = [owed EXCEPT ![c] = acked]
      BY <2>3 DEF GetOpen
    <3>4. scan' \in [Clients -> Scan]
      BY <2>3, NoScanIsScan DEF GetOpen
    <3>5. pc' \in [Clients -> {"closed", "ready"} \cup OpenPC \cup CallPC] /\ out' \in [Clients -> Codes]
      BY <3>1 DEF Codes, CallPC
    <3>6. fd' \in [Clients -> Inodes \cup {NoInode}]
      BY <3>1
    <3> QED
      BY <3>2, <3>3, <3>4, <3>5, <3>6
  <2>4. CASE ListOpen(c)
    BY <2>4 DEF ListOpen, Codes, NoScan, CallPC, Entry, Present, Committed, Scan
  <2> QED
    BY <1>5, <2>1, <2>2, <2>3, <2>4 DEF Begin
<1>6. ASSUME NEW c \in Clients, Step(c) PROVE TypeOK'
  <2>1. CASE OpenMkdir(c) \/ OpenSyncParent(c) \/ OpenFail(c)
    BY <2>1 DEF OpenMkdir, OpenSyncParent, OpenFail, OpenPC
  <2>2. ASSUME NEW i \in Inodes, PutCreate(c, i) \/ PutCreateFstatFails(c, i) PROVE TypeOK'
    <3>1. NewTemp(c, i)
      BY <2>2 DEF PutCreate, PutCreateFstatFails
    <3>2. scan' \in [Clients -> Scan]
      <4>1. ASSUME NEW l \in Clients
            PROVE  [scan[l] EXCEPT !.seen = @ \ {i}, !.due = @ \ {i}] \in Scan
        BY ScanDrop
      <4> QED
        BY <3>1, <4>1 DEF NewTemp
    <3>3. tries' \in [Clients -> 0..(TempTries - 1)]
      <4>1. 0 \in 0..(TempTries - 1)
        OBVIOUS
      <4>2. tries' = [tries EXCEPT ![c] = 0]
        BY <3>1 DEF NewTemp
      <4> QED
        BY <4>1, <4>2
    <3>4. pc' \in [Clients -> {"closed", "ready"} \cup OpenPC \cup CallPC] /\ out' \in [Clients -> Codes]
      BY <2>2 DEF PutCreate, PutCreateFstatFails, CallPC, PutPC, Codes
    <3> QED
      BY <3>1, <3>2, <3>3, <3>4 DEF NewTemp, Contents
  <2>3. CASE PutCreateTaken(c)
    <3>1. tries' \in [Clients -> 0..(TempTries - 1)]
      <4>1. tries[c] \in 0..(TempTries - 1) /\ 0 \in 0..(TempTries - 1)
        OBVIOUS
      <4>2. tries' = [tries EXCEPT ![c] = IF tries[c] + 1 < TempTries THEN tries[c] + 1 ELSE 0]
        BY <2>3 DEF PutCreateTaken
      <4> QED
        BY <4>1, <4>2
    <3>2. pc' \in {pc, [pc EXCEPT ![c] = "ready"]} /\ out' \in {out, [out EXCEPT ![c] = "IO"]}
      BY <2>3 DEF PutCreateTaken
    <3>3. UNCHANGED <<fs, arg, ino, fd, scan, owed, acked>>
      BY <2>3 DEF PutCreateTaken
    <3> QED
      BY <3>1, <3>2, <3>3 DEF Codes
  <2>4. CASE PutCreateFails(c) \/ PutFail(c)
    BY <2>4 DEF PutCreateFails, PutFail, Codes, CallPC, PutPC
  <2>5. CASE PutWrite(c) \/ PutSyncTemp(c)
    BY <2>5 DEF PutWrite, PutSyncTemp, CallPC, PutPC, Contents
  <2>6. CASE PutLink(c)
    BY <2>6 DEF PutLink, CallPC, PutPC
  <2>12. CASE PutOpen(c)
    <3>1. /\ pc' \in {[pc EXCEPT ![c] = "p_clean"], [pc EXCEPT ![c] = "p_verify"]}
          /\ out' \in {[out EXCEPT ![c] = "IO"], out}
          /\ fd' \in {fd, [fd EXCEPT ![c] = pub[arg[c]]]}
      BY <2>12 DEF PutOpen
    <3> QED
      BY <2>12, <3>1 DEF PutOpen, CallPC, PutPC, Codes
  <2>7. CASE PutVerify(c) \/ PutSyncRecord(c)
    BY <2>7 DEF PutVerify, PutSyncRecord, CallPC, PutPC, Codes
  <2>8. CASE PutSyncDirectory(c)
    BY <2>8 DEF PutSyncDirectory, CallPC, PutPC, Codes
  <2>13. CASE PutCleanup(c)
    BY <2>13 DEF PutCleanup
  <2>9. CASE GetRead(c) \/ GetFail(c)
    BY <2>9 DEF GetRead, GetFail, Codes
  <2>10. ASSUME NEW e \in Entry, ListEntry(c, e) PROVE TypeOK'
    <3>1. scan' \in [Clients -> Scan]
      <4>1. CASE scan[c].count + 1 > ListBound
        BY <2>10, <4>1 DEF ListEntry
      <4>2. CASE ~(scan[c].count + 1 > ListBound)
        <5>1. [scan[c] EXCEPT !.seen = @ \cup {e}, !.count = @ + 1] \in Scan
          BY <4>2, ScanTakes
        <5>2. scan' = [scan EXCEPT ![c] = [scan[c] EXCEPT !.seen = @ \cup {e}, !.count = @ + 1]]
          BY <2>10, <4>2 DEF ListEntry
        <5> QED
          BY <5>1, <5>2
      <4> QED
        BY <4>1, <4>2
    <3>2. /\ pc' \in {pc, [pc EXCEPT ![c] = "ready"]}
          /\ \/ out' = out
             \/ \E code \in {"INCOMPLETE", "INTEGRITY"} : out' = [out EXCEPT ![c] = code]
      BY <2>10 DEF ListEntry
    <3>3. UNCHANGED <<fs, arg, ino, fd, tries, owed, acked>>
      BY <2>10 DEF ListEntry
    <3> QED
      BY <3>1, <3>2, <3>3 DEF Codes
  <2>11. CASE ListEnd(c) \/ ListFail(c)
    BY <2>11 DEF ListEnd, ListFail, Codes
  <2> QED
    BY <1>6, <2>1, <2>2, <2>3, <2>4, <2>5, <2>6, <2>7, <2>8, <2>9,
       <2>10, <2>11, <2>12, <2>13 DEF Step
<1> QED
  BY <1>1, <1>2, <1>3, <1>4, <1>5, <1>6 DEF Next, Environment

(* Every state of the journal and its file system has the shape TypeOK     *)
(* gives, whatever the constants.                                          *)
THEOREM TypeCorrect == Spec => []TypeOK
  BY TypeInit, TypeStep, PTL DEF Spec

-----------------------------------------------------------------------------
(* Durability.  IInv is inductive: an acknowledged record stays on the     *)
(* medium because each barrier of put was passed before the next step, and *)
(* because nothing that a later call, crash or power loss does can undo    *)
(* what the medium holds.                                                  *)

LEMMA IInvInit == Init => IInv
<1> SUFFICES ASSUME Init PROVE IInv
  OBVIOUS
<1>1. TypeOK
  BY TypeInit
<1>2. MediumLags
  <2>1. djdir => jdir
    BY Zenon DEF Init
  <2> QED
    BY <2>1 DEF Init, MediumLags
<1>3. RecordsWhole
  BY DEF Init, RecordsWhole, NoRecord
<1> QED
  BY <1>1, <1>2, <1>3
     DEF Init, IInv, OpenIsDurable, TempPrivate, RecordOpen, AckPending, AckedDurable, CallPC, PutPC

(* A step that leaves the files and acked alone.                           *)
LEMMA QuietStep ==
  ASSUME IInv, TypeOK', UNCHANGED <<fs, acked>>,
         OpenIsDurable', TempPrivate', RecordOpen', AckPending'
  PROVE  IInv'
  BY DEF IInv, MediumLags, RecordsWhole, AckedDurable, fs, kernelView, medium

LEMMA QuietSteps ==
  ASSUME IInv, TypeOK', NEW c \in Clients,
         \/ Crash(c) \/ Begin(c) \/ OpenFail(c) \/ PutCreateTaken(c) \/ PutCreateFails(c)
         \/ PutOpen(c) \/ PutVerify(c) \/ PutFail(c) \/ GetRead(c) \/ GetFail(c)
         \/ (\E e \in Entry : ListEntry(c, e)) \/ ListEnd(c) \/ ListFail(c)
  PROVE  IInv'
<1> USE DEF IInv, TypeOK, fs, kernelView, medium, call, Go, Return, PutThrow
<1> DEFINE Keeps == OpenIsDurable' /\ TempPrivate' /\ RecordOpen' /\ AckPending'
<1>1. CASE Crash(c)
  <2>1. UNCHANGED <<fs, acked>> /\ Keeps
    BY <1>1 DEF Crash, Forget, OpenIsDurable, TempPrivate, RecordOpen, AckPending, durable, CallPC, PutPC
  <2> QED
    BY <2>1, QuietStep
<1>2. CASE Begin(c)
  <2>1. CASE OpenLstat(c)
    BY <2>1, QuietStep
       DEF OpenLstat, OpenIsDurable, TempPrivate, RecordOpen, AckPending, durable, CallPC, PutPC
  <2>2. ASSUME NEW d \in Digests, PutBegin(c, d) PROVE IInv'
    BY <2>2, QuietStep
       DEF PutBegin, OpenIsDurable, TempPrivate, RecordOpen, AckPending, durable, CallPC, PutPC
  <2>3. ASSUME NEW d \in Digests, GetOpen(c, d) PROVE IInv'
    <3>1. CASE pub[d] = NoInode
      BY <2>3, <3>1, QuietStep
         DEF GetOpen, OpenIsDurable, TempPrivate, RecordOpen, AckPending, durable, CallPC, PutPC
    <3>2. CASE pub[d] # NoInode
      BY <2>3, <3>2, QuietStep
         DEF GetOpen, OpenIsDurable, TempPrivate, RecordOpen, AckPending, durable, CallPC, PutPC
    <3> QED
      BY <3>1, <3>2
  <2>4. CASE ListOpen(c)
    BY <2>4, QuietStep
       DEF ListOpen, OpenIsDurable, TempPrivate, RecordOpen, AckPending, durable, CallPC, PutPC
  <2> QED
    BY <1>2, <2>1, <2>2, <2>3, <2>4 DEF Begin
<1>3. CASE OpenFail(c)
  BY <1>3, QuietStep
     DEF OpenFail, OpenIsDurable, TempPrivate, RecordOpen, AckPending, durable, OpenPC, CallPC, PutPC
<1>4. CASE PutCreateTaken(c)
  <2>1. \/ UNCHANGED <<pc, out>>
        \/ pc' = [pc EXCEPT ![c] = "ready"] /\ out' = [out EXCEPT ![c] = "IO"]
    BY <1>4 DEF PutCreateTaken
  <2> QED
    BY <1>4, <2>1, QuietStep
       DEF PutCreateTaken, OpenIsDurable, TempPrivate, RecordOpen, AckPending, durable, CallPC, PutPC
<1>5. CASE PutCreateFails(c)
  BY <1>5, QuietStep
     DEF PutCreateFails, OpenIsDurable, TempPrivate, RecordOpen, AckPending, durable, CallPC, PutPC
<1>6. CASE PutOpen(c)
  <2>1. CASE pub[arg[c]] = NoInode
    BY <1>6, <2>1, QuietStep
       DEF PutOpen, OpenIsDurable, TempPrivate, RecordOpen, AckPending, durable, CallPC, PutPC
  <2>2. CASE pub[arg[c]] # NoInode
    <3>1. /\ pc[c] = "p_open" /\ pc' = [pc EXCEPT ![c] = "p_verify"]
          /\ fd' = [fd EXCEPT ![c] = pub[arg[c]]]
          /\ UNCHANGED <<fs, arg, ino, out, acked>>
      BY <1>6, <2>2 DEF PutOpen
    <3>2. OpenIsDurable' /\ AckPending'
      BY <3>1 DEF OpenIsDurable, AckPending, durable, CallPC, PutPC
    <3>3. TempPrivate' /\ RecordOpen'
      BY <3>1, <2>2 DEF TempPrivate, RecordOpen
    <3> QED
      BY <3>1, <3>2, <3>3, QuietStep
  <2> QED
    BY <2>1, <2>2
<1>7. CASE PutVerify(c)
  <2>1. CASE data[fd[c]] = arg[c]
    BY <1>7, <2>1, QuietStep
       DEF PutVerify, OpenIsDurable, TempPrivate, RecordOpen, AckPending, durable, CallPC, PutPC
  <2>2. CASE data[fd[c]] # arg[c]
    BY <1>7, <2>2, QuietStep
       DEF PutVerify, OpenIsDurable, TempPrivate, RecordOpen, AckPending, durable, CallPC, PutPC
  <2> QED
    BY <2>1, <2>2
<1>8. CASE PutFail(c)
  BY <1>8, QuietStep
     DEF PutFail, OpenIsDurable, TempPrivate, RecordOpen, AckPending, durable, CallPC, PutPC
<1>9. CASE GetRead(c) \/ GetFail(c)
  <2>1. /\ pc[c] = "g_read" /\ pc' = [pc EXCEPT ![c] = "ready"]
        /\ \E code \in {"bytes", "INTEGRITY", "IO"} : out' = [out EXCEPT ![c] = code]
        /\ fd' = [fd EXCEPT ![c] = NoInode]
        /\ UNCHANGED <<fs, arg, ino, acked>>
    BY <1>9 DEF GetRead, GetFail
  <2> QED
    BY <2>1, QuietStep DEF OpenIsDurable, TempPrivate, RecordOpen, AckPending, durable, CallPC, PutPC
<1>10. CASE (\E e \in Entry : ListEntry(c, e)) \/ ListEnd(c) \/ ListFail(c)
  <2>1. /\ pc[c] = "l_scan" /\ pc' \in {pc, [pc EXCEPT ![c] = "ready"]}
        /\ \/ out' = out
           \/ \E code \in {"digests", "INCOMPLETE", "INTEGRITY", "IO"} : out' = [out EXCEPT ![c] = code]
        /\ UNCHANGED <<fs, arg, ino, fd, acked>>
    BY <1>10 DEF ListEntry, ListEnd, ListFail
  <2> QED
    BY <2>1, QuietStep DEF OpenIsDurable, TempPrivate, RecordOpen, AckPending, durable, CallPC, PutPC
<1> QED
  BY <1>1, <1>2, <1>3, <1>4, <1>5, <1>6, <1>7, <1>8, <1>9, <1>10

(* The steps that change the file system, or acknowledge.                  *)

LEMMA OpenSteps ==
  ASSUME IInv, TypeOK', NEW c \in Clients, OpenMkdir(c) \/ OpenSyncParent(c)
  PROVE  IInv'
<1> USE DEF IInv, TypeOK, fs, kernelView, medium, call, Go
<1>1. CASE OpenMkdir(c)
  BY <1>1 DEF OpenMkdir, MediumLags, OpenIsDurable, TempPrivate, RecordOpen, RecordsWhole,
              AckPending, AckedDurable, durable, CallPC, PutPC
<1>2. CASE OpenSyncParent(c)
  <2>1. jdir
    BY <1>2 DEF OpenSyncParent, OpenIsDurable
  <2>2. djdir' /\ jdir'
    BY <1>2, <2>1, Zenon DEF OpenSyncParent
  <2> QED
    BY <1>2, <2>1, <2>2
       DEF OpenSyncParent, MediumLags, OpenIsDurable, TempPrivate, RecordOpen, RecordsWhole,
           AckPending, AckedDurable, durable, CallPC, PutPC
<1> QED
  BY <1>1, <1>2

LEMMA CreateSteps ==
  ASSUME IInv, TypeOK', NEW c \in Clients, NEW i \in Inodes,
         PutCreate(c, i) \/ PutCreateFstatFails(c, i)
  PROVE  IInv'
<1> USE DEF IInv, TypeOK
<1>1. /\ Free(i) /\ pc[c] = "p_create"
      /\ data' = [data EXCEPT ![i] = Torn] /\ ddata' = [ddata EXCEPT ![i] = Torn]
      /\ ino' = [ino EXCEPT ![c] = i]
      /\ UNCHANGED <<jdir, pub, djdir, dpub, arg, fd, acked>>
  BY DEF PutCreate, PutCreateFstatFails, NewTemp, Go
<1>2. \/ pc' = [pc EXCEPT ![c] = "p_write"] /\ out' = out
      \/ pc' = [pc EXCEPT ![c] = "p_clean"] /\ out' = [out EXCEPT ![c] = "IO"]
  BY DEF PutCreate, PutCreateFstatFails, PutThrow, Go
<1>3. /\ \A d \in Digests : pub[d] # i /\ dpub[d] # i
      /\ \A b \in Clients : ino[b] # i /\ fd[b] # i
  BY <1>1 DEF Free
<1>4. MediumLags'
  BY <1>1 DEF MediumLags
<1>5. OpenIsDurable'
  BY <1>1, <1>2 DEF OpenIsDurable, CallPC, PutPC
<1>6. TempPrivate'
  BY <1>1, <1>2, <1>3 DEF TempPrivate
<1>7. RecordOpen'
  BY <1>1, <1>2, <1>3 DEF RecordOpen
<1>8. RecordsWhole'
  BY <1>1, <1>3 DEF RecordsWhole
<1>9. AckPending' /\ AckedDurable'
  BY <1>1, <1>2, <1>3 DEF AckPending, AckedDurable, durable
<1> QED
  BY <1>4, <1>5, <1>6, <1>7, <1>8, <1>9

LEMMA WriteSteps ==
  ASSUME IInv, TypeOK', NEW c \in Clients, PutWrite(c) \/ PutSyncTemp(c) \/ PutSyncRecord(c)
  PROVE  IInv'
<1> USE DEF IInv, TypeOK, fs, kernelView, medium, call, Go
<1>1. CASE PutWrite(c)
  <2>1. /\ ino[c] \in Inodes /\ data[ino[c]] = Torn
        /\ \A d \in Digests : pub[d] # ino[c] /\ dpub[d] # ino[c]
        /\ \A b \in Clients : b # c => ino[b] # ino[c]
    BY <1>1 DEF PutWrite, TempPrivate, MediumLags
  <2>2. MediumLags'
    BY <1>1, <2>1 DEF PutWrite, MediumLags
  <2>3. OpenIsDurable'
    BY <1>1 DEF PutWrite, OpenIsDurable, CallPC, PutPC
  <2>5. TempPrivate'
    BY <1>1, <2>1 DEF PutWrite, TempPrivate
  <2>4. RecordOpen' /\ RecordsWhole'
    BY <1>1, <2>1 DEF PutWrite, RecordOpen, RecordsWhole
  <2> QED
    BY <1>1, <2>1, <2>2, <2>3, <2>4, <2>5 DEF PutWrite, AckPending, AckedDurable, durable
<1>2. CASE PutSyncTemp(c)
  <2>1. ino[c] \in Inodes /\ data[ino[c]] = arg[c] /\ \A d \in Digests : pub[d] # ino[c] /\ dpub[d] # ino[c]
    BY <1>2 DEF PutSyncTemp, TempPrivate, MediumLags
  <2>2. MediumLags'
    BY <1>2, <2>1 DEF PutSyncTemp, MediumLags
  <2>3. OpenIsDurable' /\ TempPrivate'
    BY <1>2, <2>1 DEF PutSyncTemp, OpenIsDurable, TempPrivate, CallPC, PutPC
  <2>4. RecordOpen' /\ RecordsWhole'
    BY <1>2, <2>1 DEF PutSyncTemp, RecordOpen, RecordsWhole
  <2> QED
    BY <1>2, <2>1, <2>2, <2>3, <2>4 DEF PutSyncTemp, AckPending, AckedDurable, durable
<1>3. CASE PutSyncRecord(c)
  <2>1. fd[c] \in Inodes /\ data[fd[c]] = arg[c] /\ pub[arg[c]] = fd[c]
    BY <1>3 DEF PutSyncRecord, RecordOpen
  <2>2. MediumLags'
    BY <1>3, <2>1 DEF PutSyncRecord, MediumLags
  <2>3. OpenIsDurable' /\ TempPrivate'
    BY <1>3, <2>1 DEF PutSyncRecord, OpenIsDurable, TempPrivate, CallPC, PutPC
  <2>4. RecordOpen' /\ RecordsWhole'
    BY <1>3, <2>1 DEF PutSyncRecord, RecordOpen, RecordsWhole
  <2>5. \A d \in Digests : d \in durable => ddata[dpub[d]] = data[dpub[d]]
    BY DEF durable, MediumLags
  <2> QED
    BY <1>3, <2>1, <2>2, <2>3, <2>4, <2>5 DEF PutSyncRecord, AckPending, AckedDurable, durable, MediumLags
<1> QED
  BY <1>1, <1>2, <1>3

LEMMA LinkStep ==
  ASSUME IInv, TypeOK', NEW c \in Clients, PutLink(c)
  PROVE  IInv'
<1> USE DEF IInv, TypeOK, fs, kernelView, medium, call, Go
<1>1. /\ pc[c] = "p_link" /\ pc' = [pc EXCEPT ![c] = "p_open"]
      /\ pub' = [pub EXCEPT ![arg[c]] = IF pub[arg[c]] = NoInode THEN ino[c] ELSE pub[arg[c]]]
      /\ UNCHANGED <<jdir, tmp, data, djdir, dpub, dtmp, ddata, arg, ino, fd, out, acked>>
  BY DEF PutLink
<1>2. /\ ino[c] \in Inodes /\ data[ino[c]] = arg[c] /\ ddata[ino[c]] = arg[c]
      /\ \A b \in Clients : b # c => ino[b] # ino[c]
  BY <1>1 DEF TempPrivate
<1>3. \A d \in Digests : pub[d] # NoInode => pub'[d] = pub[d]
  BY <1>1
<1>4. \A d \in Digests : pub'[d] # pub[d] => d = arg[c] /\ pub'[d] = ino[c]
  BY <1>1
<1>5. MediumLags'
  BY <1>1, <1>3 DEF MediumLags
<1>6. OpenIsDurable'
  BY <1>1 DEF OpenIsDurable, CallPC, PutPC
<1>7. TempPrivate'
  BY <1>1, <1>2, <1>4 DEF TempPrivate
<1>8. RecordOpen'
  BY <1>1, <1>3 DEF RecordOpen
<1>9. RecordsWhole'
  BY <1>1, <1>2, <1>4 DEF RecordsWhole
<1> QED
  BY <1>1, <1>5, <1>6, <1>7, <1>8, <1>9 DEF AckPending, AckedDurable, durable

LEMMA AcknowledgeSteps ==
  ASSUME IInv, TypeOK', NEW c \in Clients, PutSyncDirectory(c) \/ PutCleanup(c)
  PROVE  IInv'
<1> USE DEF IInv, TypeOK, fs, kernelView, medium, call, Go
<1>1. CASE PutSyncDirectory(c)
  <2>1. /\ djdir /\ pub[arg[c]] = fd[c] /\ fd[c] \in Inodes
        /\ data[fd[c]] = arg[c] /\ ddata[fd[c]] = arg[c]
    BY <1>1 DEF PutSyncDirectory, RecordOpen, OpenIsDurable, CallPC, PutPC
  <2>2. arg[c] \in durable'
    BY <1>1, <2>1 DEF PutSyncDirectory, durable
  <2>3. durable \subseteq durable'
    BY <1>1 DEF PutSyncDirectory, durable, MediumLags
  <2>4. MediumLags' /\ OpenIsDurable' /\ TempPrivate' /\ RecordOpen' /\ RecordsWhole'
    BY <1>1 DEF PutSyncDirectory, MediumLags, OpenIsDurable, TempPrivate, RecordOpen, RecordsWhole, CallPC, PutPC
  <2>5. AckPending'
    BY <1>1, <2>2, <2>3 DEF PutSyncDirectory, AckPending
  <2>6. AckedDurable'
    BY <1>1, <2>3 DEF PutSyncDirectory, AckedDurable, durable
  <2> QED
    BY <2>4, <2>5, <2>6
<1>2. CASE PutCleanup(c)
  <2>1. /\ pc[c] = "p_clean" /\ pc' = [pc EXCEPT ![c] = "ready"]
        /\ ino' = [ino EXCEPT ![c] = NoInode] /\ fd' = [fd EXCEPT ![c] = NoInode]
        /\ UNCHANGED <<jdir, pub, data, djdir, dpub, ddata, arg, out>>
    BY <1>2 DEF PutCleanup
  <2>2. acked' \subseteq acked \cup {arg[c]} /\ (out[c] # "local-durable" => acked' = acked)
    BY <1>2 DEF PutCleanup
  <2>3. MediumLags' /\ OpenIsDurable' /\ TempPrivate' /\ RecordOpen' /\ RecordsWhole' /\ AckPending'
    BY <2>1 DEF MediumLags, OpenIsDurable, TempPrivate, RecordOpen, RecordsWhole, AckPending, durable, CallPC, PutPC
  <2>4. AckedDurable'
    BY <2>1, <2>2 DEF AckPending, AckedDurable, durable
  <2> QED
    BY <2>3, <2>4
<1> QED
  BY <1>1, <1>2

LEMMA PowerSteps ==
  ASSUME IInv, TypeOK', PowerLoss \/ Writeback
  PROVE  IInv'
<1> USE DEF IInv, TypeOK, fs, kernelView, medium, call
<1>1. CASE PowerLoss
  <2>1. /\ \A c \in Clients : pc'[c] = "closed" /\ ino'[c] = NoInode /\ out'[c] = "none"
        /\ jdir' = djdir /\ data' = ddata /\ dpub' = pub'
        /\ pub' = (IF djdir THEN dpub ELSE NoRecord)
        /\ UNCHANGED <<djdir, ddata, acked>>
    BY <1>1 DEF PowerLoss, Forget
  <2>2. MediumLags' /\ OpenIsDurable' /\ TempPrivate' /\ RecordOpen' /\ AckPending'
    BY <2>1 DEF MediumLags, OpenIsDurable, TempPrivate, RecordOpen, AckPending, CallPC, PutPC
  <2>3. RecordsWhole'
    BY <2>1 DEF RecordsWhole, MediumLags, NoRecord
  <2>4. AckedDurable'
    BY <2>1 DEF AckedDurable
  <2> QED
    BY <2>2, <2>3, <2>4
<1>2. CASE Writeback
  <2>1. UNCHANGED <<jdir, pub, tmp, data, pc, arg, ino, fd, out, acked>>
    BY <1>2 DEF Writeback
  <2>2. MediumLags'
    BY <1>2 DEF Writeback, MediumLags
  <2>3. /\ djdir => djdir'
        /\ \A d \in Digests : dpub[d] # NoInode => dpub'[d] = dpub[d]
        /\ \A i \in Inodes : ddata[i] # Torn => ddata'[i] = ddata[i]
    BY <1>2 DEF Writeback, MediumLags
  <2>4. durable \subseteq durable'
    BY <2>3 DEF durable
  <2>5. OpenIsDurable' /\ TempPrivate' /\ RecordOpen' /\ RecordsWhole'
    BY <2>1, <2>3 DEF OpenIsDurable, TempPrivate, RecordOpen, RecordsWhole
  <2>6. AckPending' /\ AckedDurable'
    BY <2>1, <2>4 DEF AckPending, AckedDurable, durable
  <2> QED
    BY <2>2, <2>5, <2>6
<1> QED
  BY <1>1, <1>2

LEMMA IInvStep == IInv /\ [Next]_vars => IInv'
<1> SUFFICES ASSUME IInv, [Next]_vars PROVE IInv'
  OBVIOUS
<1>1. TypeOK'
  BY TypeStep DEF IInv
<1>2. CASE UNCHANGED vars
  BY <1>2 DEF vars, fs, kernelView, medium, call, IInv, TypeOK, MediumLags, OpenIsDurable, TempPrivate,
              RecordOpen, RecordsWhole, AckPending, AckedDurable, durable
<1>3. CASE PowerLoss \/ Writeback
  BY <1>1, <1>3, PowerSteps
<1>4. ASSUME NEW c \in Clients, Crash(c) \/ Begin(c) \/ Step(c) PROVE IInv'
  BY <1>1, <1>4, QuietSteps, OpenSteps, CreateSteps, WriteSteps, LinkStep, AcknowledgeSteps DEF Step
<1> QED
  BY <1>2, <1>3, <1>4 DEF Next, Environment

LEMMA IInvAlways == Spec => []IInv
  BY IInvInit, IInvStep, PTL DEF Spec

(* No crash, power loss, failing system call or concurrent call ever loses *)
(* a record that some put acknowledged as local-durable.                   *)
THEOREM AcknowledgedIsDurable == Spec => []AckedDurable
<1>1. IInv => AckedDurable
  BY DEF IInv
<1> QED
  BY <1>1, IInvAlways, PTL

(* No name the journal made ever refers to a partial record, in memory or  *)
(* on the medium.                                                          *)
THEOREM RecordsNeverTorn == Spec => []NoTornRecord
<1>1. IInv => NoTornRecord
  BY DEF IInv, NoTornRecord, RecordsWhole, MediumLags
<1> QED
  BY <1>1, IInvAlways, PTL

-----------------------------------------------------------------------------
(* Refinement: Journal implements DurableStore.                            *)

LEMMA DurableIsVisible == IInv => durable \subseteq visible
  BY DEF IInv, TypeOK, AckedDurable, MediumLags, durable, visible

LEMMA DiskStepRefines ==
  ASSUME IInv, IInv', UNCHANGED <<pub, data, acked>>, durable \subseteq durable'
  PROVE  Store!Persist
<1>1. visible' = visible
  BY DEF visible
<1>2. durable' \subseteq visible'
  BY DurableIsVisible DEF IInv, TypeOK, AckedDurable, MediumLags, durable, visible
<1> QED
  BY <1>1, <1>2 DEF Store!Persist

LEMMA StoreInit == Init => Store!Init
<1> SUFFICES ASSUME Init PROVE Store!Init
  OBVIOUS
<1>1. IInv
  BY IInvInit
<1> QED
  BY <1>1, DurableIsVisible DEF Init, Store!Init, visible

LEMMA StoreStep == IInv /\ IInv' /\ [Next]_vars => [Store!Next]_(Store!vars)
<1> SUFFICES ASSUME IInv, IInv', [Next]_vars PROVE [Store!Next]_(Store!vars)
  OBVIOUS
<1> USE DEF IInv, TypeOK, fs, kernelView, medium, call
<1> DEFINE Quiet == UNCHANGED <<pub, data, djdir, dpub, ddata, acked>>
<1>1. Quiet => UNCHANGED Store!vars
  BY DEF Store!vars, visible, durable
<1>2. CASE UNCHANGED vars
  BY <1>1, <1>2 DEF vars
<1>3. CASE PowerLoss
  <2>1. visible' = durable /\ durable' = durable
    BY <1>3 DEF PowerLoss, visible, durable, NoRecord
  <2>2. acked' = acked
    BY <1>3 DEF PowerLoss, Forget
  <2> QED
    BY <2>1, <2>2 DEF Store!Next, Store!PowerLoss
<1>4. CASE Writeback
  <2>1. UNCHANGED <<pub, data, acked>>
    BY <1>4 DEF Writeback
  <2>2. durable \subseteq durable'
    BY <1>4 DEF Writeback, durable, MediumLags
  <2> QED
    BY <2>1, <2>2, DiskStepRefines DEF Store!Next
<1>5. ASSUME NEW c \in Clients, Begin(c) \/ Crash(c) PROVE Quiet
  BY <1>5 DEF Begin, OpenLstat, PutBegin, GetOpen, ListOpen, Crash, Forget
<1>6. ASSUME NEW c \in Clients, Step(c) PROVE [Store!Next]_(Store!vars)
  <2>1. CASE \/ OpenMkdir(c) \/ OpenFail(c) \/ PutCreateTaken(c) \/ PutCreateFails(c)
             \/ PutOpen(c) \/ PutVerify(c) \/ PutFail(c) \/ GetRead(c) \/ GetFail(c)
             \/ (\E e \in Entry : ListEntry(c, e)) \/ ListEnd(c) \/ ListFail(c)
    <3>1. Quiet
      BY <2>1 DEF OpenMkdir, OpenFail, PutCreateTaken, PutCreateFails, PutOpen, PutVerify,
                  PutFail, GetRead, GetFail, ListEntry, ListEnd, ListFail
    <3> QED
      BY <1>1, <3>1
  <2>2. CASE OpenSyncParent(c)
    <3>1. durable \subseteq durable'
      BY <2>2 DEF OpenSyncParent, durable, MediumLags
    <3> QED
      BY <2>2, <3>1, DiskStepRefines DEF OpenSyncParent, Store!Next
  <2>3. ASSUME NEW i \in Inodes, PutCreate(c, i) \/ PutCreateFstatFails(c, i)
        PROVE  UNCHANGED Store!vars
    <3>1. /\ \A d \in Digests : pub[d] # i /\ dpub[d] # i
          /\ data' = [data EXCEPT ![i] = Torn] /\ ddata' = [ddata EXCEPT ![i] = Torn]
          /\ UNCHANGED <<pub, djdir, dpub, acked>>
      BY <2>3 DEF PutCreate, PutCreateFstatFails, NewTemp, Free
    <3> QED
      BY <3>1 DEF Store!vars, visible, durable
  <2>4. CASE PutWrite(c)
    <3>1. \A d \in Digests : pub[d] # ino[c]
      BY <2>4 DEF PutWrite, Go, TempPrivate
    <3> QED
      BY <2>4, <3>1 DEF PutWrite, Store!vars, visible, durable
  <2>5. CASE PutSyncTemp(c) \/ PutSyncRecord(c) \/ PutSyncDirectory(c)
    <3>1. UNCHANGED <<pub, data, acked>>
      BY <2>5 DEF PutSyncTemp, PutSyncRecord, PutSyncDirectory
    <3>2. durable \subseteq durable'
      BY <2>5 DEF PutSyncTemp, PutSyncRecord, PutSyncDirectory, Go, durable, MediumLags,
                  TempPrivate, RecordOpen
    <3> QED
      BY <3>1, <3>2, DiskStepRefines DEF Store!Next
  <2>6. CASE PutLink(c)
    <3>1. data[ino[c]] = arg[c] /\ ino[c] \in Inodes
      BY <2>6 DEF PutLink, Go, TempPrivate
    <3>2. durable' = durable /\ acked' = acked
      BY <2>6 DEF PutLink, durable
    <3>3. visible' = visible \/ visible' = visible \cup {arg[c]}
      <4>1. CASE pub[arg[c]] = NoInode
        BY <2>6, <3>1, <4>1 DEF PutLink, visible
      <4>2. CASE pub[arg[c]] # NoInode
        BY <2>6, <4>2 DEF PutLink, visible
      <4> QED
        BY <4>1, <4>2
    <3> QED
      BY <3>2, <3>3 DEF Store!Next, Store!Publish, Store!vars
  <2>7. CASE PutCleanup(c)
    <3>1. visible' = visible /\ durable' = durable
      BY <2>7 DEF PutCleanup, visible, durable
    <3>2. acked' = acked \/ (arg[c] \in durable /\ acked' = acked \cup {arg[c]})
      BY <2>7 DEF PutCleanup, AckPending
    <3> QED
      BY <3>1, <3>2 DEF Store!Next, Store!Acknowledge, Store!vars
  <2> QED
    BY <1>6, <2>1, <2>2, <2>3, <2>4, <2>5, <2>6, <2>7 DEF Step
<1> QED
  BY <1>1, <1>2, <1>3, <1>4, <1>5, <1>6 DEF Next, Environment

(* Callers of the journal may reason with the store of promises: every     *)
(* behaviour of the journal on its files is one of DurableStore.           *)
THEOREM JournalImplementsStore == Spec => StoreSpec
<1>1. Spec => Store!Init /\ [][Store!Next]_(Store!vars)
  BY StoreInit, StoreStep, IInvAlways, PTL DEF Spec
<1> QED
  BY <1>1 DEF StoreSpec, Store!Spec

-----------------------------------------------------------------------------
(* What readers are told.                                                  *)

LEMMA ReaderInit == Init => ReaderInv
  BY DEF Init, ReaderInv, ReadersKeepPromises, NoFalseIntegrity, NoScan, CallPC, PutPC

(* A step that reports nothing a reader could mind.                        *)
LEMMA ReaderQuietStep ==
  ASSUME IInv, IInv', ReaderInv,
         acked \subseteq acked', Committed \subseteq Committed', UNCHANGED <<arg, owed, scan>>,
         \A b \in Clients : pc'[b] \in PutPC => pc[b] \in PutPC,
         \A b \in Clients : pc'[b] = "l_scan" => pc[b] = "l_scan",
         \A b \in Clients : out'[b] = out[b] \/ out'[b] \notin {"NOT_FOUND", "INTEGRITY", "digests"}
  PROVE  ReaderInv'
  BY DEF ReaderInv, ReadersKeepPromises, NoFalseIntegrity, Listed

LEMMA CommittedStays ==
  ASSUME IInv, IInv', NEW c \in Clients, Begin(c) \/ Step(c) \/ Crash(c)
  PROVE  acked \subseteq acked' /\ Committed \subseteq Committed'
<1> USE DEF IInv, TypeOK, fs, kernelView, medium, call
<1>1. \A d \in Digests : pub[d] # NoInode => pub'[d] # NoInode
  <2>1. CASE PutLink(c)
    BY <2>1 DEF PutLink
  <2>2. CASE ~PutLink(c)
    <3>1. pub' = pub
      BY <2>2 DEF Begin, Step, Crash, OpenLstat, PutBegin, GetOpen, ListOpen, OpenMkdir, OpenSyncParent,
           OpenFail, PutCreate, PutCreateFstatFails, NewTemp, PutCreateTaken, PutCreateFails, PutWrite,
           PutSyncTemp, PutOpen, PutVerify, PutSyncRecord, PutSyncDirectory, PutFail, PutCleanup,
           GetRead, GetFail, ListEntry, ListEnd, ListFail
    <3> QED
      BY <3>1
  <2> QED
    BY <2>1, <2>2
<1>2. acked \subseteq acked'
  <2>1. CASE PutCleanup(c)
    BY <2>1 DEF PutCleanup
  <2>2. CASE ~PutCleanup(c)
    BY <2>2 DEF Begin, Step, Crash, Forget, OpenLstat, PutBegin, GetOpen, ListOpen, OpenMkdir, OpenSyncParent,
         OpenFail, PutCreate, PutCreateFstatFails, NewTemp, PutCreateTaken, PutCreateFails, PutWrite,
         PutSyncTemp, PutLink, PutOpen, PutVerify, PutSyncRecord, PutSyncDirectory, PutFail,
         GetRead, GetFail, ListEntry, ListEnd, ListFail
  <2> QED
    BY <2>1, <2>2
<1> QED
  BY <1>1, <1>2 DEF Committed

LEMMA ReaderCallSteps ==
  ASSUME IInv, IInv', ReaderInv, NEW c \in Clients,
         acked \subseteq acked', Committed \subseteq Committed',
         Begin(c) \/ Crash(c) \/ GetRead(c) \/ GetFail(c) \/ ListEnd(c) \/ ListFail(c)
         \/ (\E e \in Entry : ListEntry(c, e))
  PROVE  ReaderInv'
<1> USE DEF IInv, TypeOK, fs, kernelView, medium, call, Go, Return
<1>1. CASE OpenLstat(c)
  BY <1>1, ReaderQuietStep DEF OpenLstat, CallPC, PutPC
<1>2. ASSUME NEW d \in Digests, PutBegin(c, d) PROVE ReaderInv'
  BY <1>2 DEF PutBegin, ReaderInv, ReadersKeepPromises, NoFalseIntegrity, Listed, NoScan, CallPC, PutPC
<1>3. ASSUME NEW d \in Digests, GetOpen(c, d) PROVE ReaderInv'
  <2>1. /\ pc[c] = "ready" /\ pc' \in {[pc EXCEPT ![c] = "ready"], [pc EXCEPT ![c] = "g_read"]}
        /\ \/ out' = [out EXCEPT ![c] = "none"]
           \/ out' = [out EXCEPT ![c] = "NOT_FOUND"] /\ d \notin acked
        /\ arg' = [arg EXCEPT ![c] = d] /\ owed' = [owed EXCEPT ![c] = acked]
        /\ scan' = [scan EXCEPT ![c] = NoScan] /\ acked' = acked
    BY <1>3 DEF GetOpen, AckedDurable, MediumLags
  <2> QED
    BY <2>1 DEF ReaderInv, ReadersKeepPromises, NoFalseIntegrity, Listed, NoScan, PutPC
<1>4. CASE ListOpen(c)
  <2>1. acked \subseteq Committed
    BY DEF AckedDurable, MediumLags, Committed
  <2>2. scan' = [scan EXCEPT ![c] = [seen |-> {}, due |-> Present, count |-> 0]]
    BY <1>4 DEF ListOpen
  <2>3. Committed \subseteq Present /\ Present \cap Digests \subseteq Committed /\ (Alien \in Present => HasAlien)
    BY DEF Present, Committed
  <2>4. /\ c \in Listers /\ pc' = [pc EXCEPT ![c] = "l_scan"] /\ owed' = [owed EXCEPT ![c] = acked]
        /\ out' = [out EXCEPT ![c] = "none"] /\ UNCHANGED <<arg, acked>>
    BY <1>4 DEF ListOpen
  <2> QED
    BY <2>1, <2>2, <2>3, <2>4 DEF ReaderInv, ReadersKeepPromises, NoFalseIntegrity, Listed, PutPC
<1>5. CASE Crash(c)
  <2>1. /\ \A b \in Clients \ {c} : /\ pc'[b] = pc[b] /\ out'[b] = out[b]
                                    /\ scan'[b] = scan[b] /\ owed'[b] = owed[b]
        /\ pc'[c] = "closed" /\ out'[c] = "none" /\ owed'[c] = {}
        /\ scan'[c].seen = {} /\ scan'[c].due = {} /\ UNCHANGED <<arg, acked>>
    BY <1>5 DEF Crash, Forget, NoScan
  <2> QED
    BY <2>1 DEF ReaderInv, ReadersKeepPromises, NoFalseIntegrity, Listed, PutPC
<1>6. CASE GetRead(c) \/ GetFail(c)
  <2>1. /\ pc[c] = "g_read" /\ pc' = [pc EXCEPT ![c] = "ready"]
        /\ \/ out' = [out EXCEPT ![c] = "bytes"]
           \/ out' = [out EXCEPT ![c] = "IO"]
           \/ out' = [out EXCEPT ![c] = "INTEGRITY"] /\ data[fd[c]] # arg[c]
        /\ UNCHANGED <<arg, owed, scan, acked>>
    BY <1>6 DEF GetRead, GetFail
  <2>2. data[fd[c]] # arg[c] => arg[c] \notin acked /\ arg[c] \in Foreign
    BY <2>1 DEF AckedDurable, MediumLags, RecordOpen, RecordsWhole
  <2>3. \A b \in Clients : \/ out'[b] = out[b]
                           \/ b = c /\ out'[b] \in {"bytes", "IO"}
                           \/ b = c /\ out'[b] = "INTEGRITY" /\ data[fd[c]] # arg[c]
    BY <2>1
  <2>4. ReadersKeepPromises' /\ NoFalseIntegrity'
    BY <2>1, <2>2, <2>3 DEF ReaderInv, ReadersKeepPromises, NoFalseIntegrity, Listed
  <2> QED
    BY <2>1, <2>4 DEF ReaderInv, PutPC
<1>7. CASE ListEnd(c) \/ ListFail(c)
  <2>1. /\ pc[c] = "l_scan" /\ pc' = [pc EXCEPT ![c] = "ready"]
        /\ \/ out' = [out EXCEPT ![c] = "IO"]
           \/ out' = [out EXCEPT ![c] = "digests"] /\ scan[c].due \cap Present \subseteq scan[c].seen
        /\ UNCHANGED <<arg, owed, scan, acked>>
    BY <1>7 DEF ListEnd, ListFail
  <2>2. owed[c] \subseteq scan[c].due \cap Present \cap Digests
    BY <2>1 DEF ReaderInv, AckedDurable, MediumLags, Committed, Present
  <2> QED
    BY <2>1, <2>2 DEF ReaderInv, ReadersKeepPromises, NoFalseIntegrity, Listed, PutPC
<1>8. ASSUME NEW e \in Entry, ListEntry(c, e) PROVE ReaderInv'
  <2>1. /\ pc[c] = "l_scan" /\ pc' \in {pc, [pc EXCEPT ![c] = "ready"]}
        /\ \/ out' = out
           \/ out' = [out EXCEPT ![c] = "INCOMPLETE"]
           \/ out' = [out EXCEPT ![c] = "INTEGRITY"] /\ e = Alien
        /\ e \in Present \cup scan[c].due
        /\ UNCHANGED <<arg, owed, acked, pub>>
    BY <1>8 DEF ListEntry
  <2>2. e = Alien => c \in Listers /\ HasAlien
    BY <2>1 DEF ReaderInv, Present, Committed
  <2>3. e \in Digests => e \in Committed
    BY <2>1 DEF ReaderInv, Present
  <2>4. /\ \A b \in Clients \ {c} : scan'[b] = scan[b]
        /\ scan'[c].due = scan[c].due /\ scan'[c].seen \subseteq scan[c].seen \cup {e}
        /\ scan[c].seen \subseteq scan'[c].seen
    BY <1>8 DEF ListEntry, Scan
  <2>5. c \in Listers
    BY <2>1 DEF ReaderInv
  <2>6. Committed' = Committed
    BY <2>1 DEF Committed
  <2>7. \A b \in Clients : /\ owed'[b] \subseteq acked'
                           /\ pc'[b] \in PutPC => owed'[b] = {}
                           /\ pc'[b] = "l_scan" => b \in Listers /\ owed'[b] \subseteq scan'[b].due
                           /\ Alien \in scan'[b].due => HasAlien
    <3>1. \A b \in Clients : /\ scan'[b].due = scan[b].due
                             /\ pc'[b] \in {pc[b], "ready"}
      BY <2>1, <2>4
    <3> QED
      BY <2>1, <3>1 DEF ReaderInv, PutPC
  <2>8. \A b \in Clients : /\ scan'[b].seen \cap Digests \subseteq Committed'
                           /\ scan'[b].due \cap Digests \subseteq Committed'
    <3>1. \A b \in Clients : /\ scan'[b].due = scan[b].due
                             /\ scan'[b].seen \subseteq scan[b].seen \cup {e}
      BY <2>4
    <3> QED
      BY <2>3, <2>6, <3>1 DEF ReaderInv
  <2>11. out' = [out EXCEPT ![c] = "INTEGRITY"] => Alien \in scan'[c].seen
    BY <1>8 DEF ListEntry, Scan
  <2>9. ReadersKeepPromises'
    <3>1. ASSUME NEW b \in Clients, out'[b] = "digests"
          PROVE  out[b] = "digests" /\ scan[b].seen \subseteq scan'[b].seen
      BY <2>1, <2>4, <3>1
    <3>2. ASSUME NEW b \in Clients, \/ out'[b] = "NOT_FOUND"
                                    \/ out'[b] = "INTEGRITY" /\ Alien \notin scan'[b].seen
          PROVE  out'[b] = out[b] /\ scan[b].seen \subseteq scan'[b].seen
      BY <2>1, <2>4, <2>11, <3>2
    <3>3. \A b \in Clients : arg'[b] = arg[b] /\ owed'[b] = owed[b]
      BY <2>1
    <3>4. \A b \in Clients : \/ out'[b] = "NOT_FOUND"
                             \/ out'[b] = "INTEGRITY" /\ Alien \notin scan'[b].seen
                             => arg'[b] \notin owed'[b]
      BY <3>2, <3>3 DEF ReaderInv, ReadersKeepPromises
    <3>5. \A b \in Clients : out'[b] = "digests" => owed'[b] \subseteq Listed(b)'
      BY <3>1, <3>3 DEF ReaderInv, ReadersKeepPromises, Listed
    <3> QED
      BY <2>8, <3>4, <3>5 DEF ReadersKeepPromises, Listed
  <2>10. NoFalseIntegrity'
    BY <2>1, <2>2, <2>5 DEF ReaderInv, NoFalseIntegrity
  <2> QED
    BY <2>7, <2>8, <2>9, <2>10 DEF ReaderInv
<1> QED
  BY <1>1, <1>2, <1>3, <1>4, <1>5, <1>6, <1>7, <1>8 DEF Begin

LEMMA ReaderPutSteps ==
  ASSUME IInv, IInv', ReaderInv, NEW c \in Clients,
         acked \subseteq acked', Committed \subseteq Committed', Step(c)
  PROVE  ReaderInv'
<1> USE DEF IInv, TypeOK, fs, kernelView, medium, call, Go, Return, PutThrow
<1>1. CASE GetRead(c) \/ GetFail(c) \/ ListEnd(c) \/ ListFail(c) \/ (\E e \in Entry : ListEntry(c, e))
  BY <1>1, ReaderCallSteps
<1>2. CASE OpenMkdir(c) \/ OpenSyncParent(c) \/ OpenFail(c)
  BY <1>2, ReaderQuietStep DEF OpenMkdir, OpenSyncParent, OpenFail, OpenPC, PutPC
<1>3. ASSUME NEW i \in Inodes, PutCreate(c, i) \/ PutCreateFstatFails(c, i) PROVE ReaderInv'
  <2>1. /\ pc[c] = "p_create"
        /\ pc' \in {[pc EXCEPT ![c] = "p_write"], [pc EXCEPT ![c] = "p_clean"]}
        /\ out' \in {out, [out EXCEPT ![c] = "IO"]}
        /\ UNCHANGED <<arg, owed, acked, pub>>
    BY <1>3 DEF PutCreate, PutCreateFstatFails, NewTemp
  <2>2. \A b \in Clients : /\ scan'[b].seen = scan[b].seen \ {i}
                           /\ scan'[b].due = scan[b].due \ {i}
    <3>1. scan' = [b \in Clients |-> [scan[b] EXCEPT !.seen = @ \ {i}, !.due = @ \ {i}]]
      BY <1>3 DEF PutCreate, PutCreateFstatFails, NewTemp
    <3> QED
      BY <3>1, ScanDrop
  <2>3. i \notin Digests
    OBVIOUS
  <2>4. \A b \in Clients : Listed(b)' = Listed(b) /\ scan'[b].due \cap Digests = scan[b].due \cap Digests
    BY <2>2, <2>3 DEF Listed
  <2>10. \A b \in Clients : Alien \in scan[b].seen => Alien \in scan'[b].seen
    BY <2>2, JournalAssumption
  <2>11. \A b \in Clients : out'[b] \in {out[b], "IO"} /\ arg'[b] = arg[b] /\ owed'[b] = owed[b]
    BY <2>1
  <2>12. Committed' = Committed
    BY <2>1 DEF Committed
  <2>13. \A b \in Clients : out'[b] # "IO" => out'[b] = out[b]
    BY <2>11
  <2>14. ReadersKeepPromises'
    <3>1. ASSUME NEW b \in Clients, out'[b] = "NOT_FOUND" PROVE arg'[b] \notin owed'[b]
      BY <2>11, <2>13, <3>1 DEF ReaderInv, ReadersKeepPromises
    <3>2. ASSUME NEW b \in Clients, out'[b] = "INTEGRITY", Alien \notin scan'[b].seen
          PROVE  arg'[b] \notin owed'[b]
      BY <2>10, <2>11, <2>13, <3>2 DEF ReaderInv, ReadersKeepPromises
    <3>3. ASSUME NEW b \in Clients, out'[b] = "digests"
          PROVE  owed'[b] \subseteq Listed(b)' /\ Listed(b)' \subseteq Committed'
      BY <2>4, <2>11, <2>12, <2>13, <3>3 DEF ReaderInv, ReadersKeepPromises
    <3> QED
      BY <3>1, <3>2, <3>3 DEF ReadersKeepPromises
  <2>5. ReadersKeepPromises' /\ NoFalseIntegrity'
    BY <2>11, <2>13, <2>14 DEF ReaderInv, NoFalseIntegrity
  <2>6. \A b \in Clients : /\ pc'[b] \in PutPC => pc[b] \in PutPC
                           /\ pc'[b] = "l_scan" => pc[b] = "l_scan"
    BY <2>1 DEF PutPC
  <2>7. \A b \in Clients : scan'[b].seen \cap Digests \subseteq Committed' /\ scan'[b].due \cap Digests \subseteq Committed'
    BY <2>4 DEF ReaderInv, Listed
  <2>8. \A b \in Clients : owed[b] \subseteq scan[b].due => owed'[b] \subseteq scan'[b].due
    BY <2>1, <2>2, <2>3
  <2>9. \A b \in Clients : Alien \in scan'[b].due => Alien \in scan[b].due
    BY <2>2
  <2> QED
    BY <2>1, <2>5, <2>6, <2>7, <2>8, <2>9 DEF ReaderInv
<1>4. CASE PutCreateTaken(c) \/ PutCreateFails(c) \/ PutFail(c) \/ PutOpen(c)
  <2>1. /\ pc[c] \in PutPC
        /\ \E p \in PutPC \cup {"ready"} : pc' = [pc EXCEPT ![c] = p]
        /\ out' \in {out, [out EXCEPT ![c] = "IO"]}
        /\ UNCHANGED <<arg, owed, scan>>
    <3>1. CASE PutCreateTaken(c)
      <4>1. pc' \in {pc, [pc EXCEPT ![c] = "ready"]}
        BY <3>1 DEF PutCreateTaken
      <4> QED
        BY <3>1, <4>1 DEF PutCreateTaken, PutPC
    <3>2. CASE PutCreateFails(c) \/ PutFail(c)
      BY <3>2 DEF PutCreateFails, PutFail, PutPC
    <3>3. CASE PutOpen(c)
      BY <3>3 DEF PutOpen, PutPC
    <3> QED
      BY <1>4, <3>1, <3>2, <3>3
  <2> QED
    BY <2>1, ReaderQuietStep DEF PutPC
<1>5. CASE PutVerify(c)
  <2>1. data[fd[c]] # arg[c] => arg[c] \in Foreign
    BY <1>5 DEF PutVerify, RecordOpen, RecordsWhole
  <2>2. /\ pc[c] = "p_verify"
        /\ pc' \in {[pc EXCEPT ![c] = "p_fsync"], [pc EXCEPT ![c] = "p_clean"]}
        /\ \/ out' = out
           \/ out' = [out EXCEPT ![c] = "INTEGRITY"] /\ data[fd[c]] # arg[c]
        /\ UNCHANGED <<arg, owed, scan, acked, pub>>
    BY <1>5 DEF PutVerify
  <2>3. owed[c] = {}
    BY <2>2 DEF ReaderInv, PutPC
  <2> QED
    <3>1. ReadersKeepPromises'
      BY <2>2, <2>3 DEF ReaderInv, ReadersKeepPromises, Listed, Committed
    <3>2. NoFalseIntegrity'
      BY <2>1, <2>2 DEF ReaderInv, NoFalseIntegrity
    <3> QED
      BY <2>2, <3>1, <3>2 DEF ReaderInv, Committed, PutPC
<1>6. CASE PutWrite(c) \/ PutSyncTemp(c) \/ PutLink(c)
  BY <1>6, ReaderQuietStep DEF PutWrite, PutSyncTemp, PutLink, PutPC
<1>7. CASE PutSyncRecord(c) \/ PutSyncDirectory(c) \/ PutCleanup(c)
  BY <1>7, ReaderQuietStep DEF PutSyncRecord, PutSyncDirectory, PutCleanup, PutPC
<1> QED
  BY <1>1, <1>2, <1>3, <1>4, <1>5, <1>6, <1>7 DEF Step

LEMMA ReaderStep == IInv /\ IInv' /\ ReaderInv /\ [Next]_vars => ReaderInv'
<1> SUFFICES ASSUME IInv, IInv', ReaderInv, [Next]_vars PROVE ReaderInv'
  OBVIOUS
<1>1. CASE UNCHANGED vars
  BY <1>1, ReaderQuietStep DEF vars, fs, kernelView, call, Committed
<1>2. CASE PowerLoss
  <2>1. /\ \A c \in Clients : /\ pc'[c] = "closed" /\ out'[c] = "none" /\ owed'[c] = {}
                              /\ scan'[c].seen = {} /\ scan'[c].due = {}
    BY <1>2 DEF PowerLoss, Forget, NoScan
  <2> QED
    BY <2>1 DEF ReaderInv, ReadersKeepPromises, NoFalseIntegrity, PutPC
<1>3. CASE Writeback
  BY <1>3, ReaderQuietStep DEF Writeback, kernelView, call, Committed
<1>4. ASSUME NEW c \in Clients, Crash(c) \/ Begin(c) \/ Step(c) PROVE ReaderInv'
  BY <1>4, CommittedStays, ReaderCallSteps, ReaderPutSteps
<1> QED
  BY <1>1, <1>2, <1>3, <1>4 DEF Next, Environment

LEMMA ReaderAlways == Spec => []ReaderInv
  BY ReaderInit, ReaderStep, IInvAlways, PTL DEF Spec

(* A get or list never contradicts an earlier acknowledgement, across any  *)
(* number of concurrent calls and power losses.                            *)
THEOREM ReadersSeeAcknowledged == Spec => []ReadersKeepPromises
<1>1. ReaderInv => ReadersKeepPromises
  BY DEF ReaderInv
<1> QED
  BY <1>1, ReaderAlways, PTL

(* INTEGRITY is never reported of a record the journal itself published.   *)
THEOREM IntegrityIsNeverFalse == Spec => []NoFalseIntegrity
<1>1. ReaderInv => NoFalseIntegrity
  BY DEF ReaderInv
<1> QED
  BY <1>1, ReaderAlways, PTL

(* A record is never relinked, unlinked or rewritten by any step but a     *)
(* power loss, and by that only if nobody was told it is durable.          *)
THEOREM RecordsAreImmutable == Spec => RecordsImmutable
<1> DEFINE Kept(d) ==
      pub[d] # NoInode =>
        \/ pub'[d] = pub[d] /\ (data[pub[d]] = d => data'[pub[d]] = d)
        \/ /\ d \notin acked
           /\ pub'[d] \in {NoInode, pub[d]}
           /\ \A c \in Clients : pc'[c] = "closed"
<1>1. ASSUME IInv, [Next]_vars PROVE \A d \in Digests : Kept(d)
  <2> SUFFICES ASSUME NEW d \in Digests, pub[d] # NoInode PROVE Kept(d)
    OBVIOUS
  <2> USE <1>1 DEF IInv, TypeOK, fs, kernelView, medium, call
  <2>1. CASE UNCHANGED <<pub, data>>
    BY <2>1
  <2>2. CASE PowerLoss
    BY <2>2 DEF PowerLoss, Forget, AckedDurable, MediumLags, NoRecord
  <2>3. ASSUME NEW c \in Clients, NEW i \in Inodes, PutCreate(c, i) \/ PutCreateFstatFails(c, i)
        PROVE  Kept(d)
    BY <2>3 DEF PutCreate, PutCreateFstatFails, NewTemp, Free
  <2>4. ASSUME NEW c \in Clients, PutWrite(c) PROVE Kept(d)
    BY <2>4 DEF PutWrite, Go, TempPrivate
  <2>5. ASSUME NEW c \in Clients, PutLink(c) PROVE Kept(d)
    BY <2>5 DEF PutLink
  <2>6. ASSUME NEW c \in Clients, Begin(c) \/ Crash(c) PROVE UNCHANGED <<pub, data>>
    BY <2>6 DEF Begin, OpenLstat, PutBegin, GetOpen, ListOpen, Crash
  <2>7. ASSUME NEW c \in Clients, Step(c), ~PutWrite(c), ~PutLink(c),
               \A i \in Inodes : ~PutCreate(c, i) /\ ~PutCreateFstatFails(c, i)
        PROVE  UNCHANGED <<pub, data>>
    BY <2>7 DEF Step, OpenMkdir, OpenSyncParent, OpenFail, PutCreateTaken, PutCreateFails, PutSyncTemp,
         PutOpen, PutVerify, PutSyncRecord, PutSyncDirectory, PutFail, PutCleanup, GetRead, GetFail,
         ListEntry, ListEnd, ListFail
  <2>8. CASE Writeback \/ UNCHANGED vars
    BY <2>1, <2>8 DEF Writeback, vars
  <2> QED
    BY <2>1, <2>2, <2>3, <2>4, <2>5, <2>6, <2>7, <2>8 DEF Next, Environment
<1> QED
  BY <1>1, IInvAlways, PTL DEF Spec, RecordsImmutable

-----------------------------------------------------------------------------
(* No temp stays behind.                                                   *)

LEMMA TempInit == Init => TempInv
  BY DEF Init, TempInv, NoStrayTemp, PutPC

(* A step that neither makes nor forgets a temp.                           *)
LEMMA TempQuietStep ==
  ASSUME TempInv, UNCHANGED <<tmp, ino>>,
         \A c \in Clients : pc[c] \in PutPC \ {"p_create"} => pc'[c] \in PutPC \ {"p_create"}
                                                        \/ ino[c] = NoInode
  PROVE  TempInv'
  BY DEF TempInv, NoStrayTemp

LEMMA TempCreateSteps ==
  ASSUME TypeOK, TempInv, NEW c \in Clients, NEW i \in Inodes,
         PutCreate(c, i) \/ PutCreateFstatFails(c, i)
  PROVE  TempInv'
<1> USE DEF TypeOK
<1>1. /\ pc[c] = "p_create" /\ pc'[c] \in {"p_write", "p_clean"}
      /\ \A b \in Clients \ {c} : pc'[b] = pc[b] /\ ino'[b] = ino[b]
      /\ ino'[c] = i /\ tmp' = tmp \cup {i}
  BY DEF PutCreate, PutCreateFstatFails, NewTemp, Go, PutThrow
<1> SUFFICES ASSUME Faults \subseteq {"io"}
             PROVE  /\ tmp' \subseteq {ino'[b] : b \in Clients}
                    /\ \A b \in Clients : pc'[b] \notin PutPC \ {"p_create"} => ino'[b] = NoInode
  BY DEF TempInv, NoStrayTemp
<1>2. ino[c] = NoInode /\ tmp \subseteq {ino[b] : b \in Clients} /\ NoInode \notin tmp
  BY <1>1, JournalAssumption DEF TempInv, NoStrayTemp
<1>3. ASSUME NEW j \in tmp PROVE j \in {ino'[b] : b \in Clients}
  BY <1>1, <1>2, <1>3
<1>4. \A b \in Clients : pc'[b] \notin PutPC \ {"p_create"} => ino'[b] = NoInode
  BY <1>1 DEF TempInv, PutPC
<1> QED
  BY <1>1, <1>3, <1>4

LEMMA TempCleanupStep ==
  ASSUME TypeOK, TempInv, NEW c \in Clients, PutCleanup(c)
  PROVE  TempInv'
<1> USE DEF TypeOK
<1>1. /\ pc'[c] = "ready" /\ ino'[c] = NoInode
      /\ \A b \in Clients \ {c} : pc'[b] = pc[b] /\ ino'[b] = ino[b]
      /\ tmp' = tmp \ {ino[c]} \/ "unlink" \in Faults
  BY DEF PutCleanup, Go
<1> SUFFICES ASSUME Faults \subseteq {"io"}
             PROVE  /\ tmp' \subseteq {ino'[b] : b \in Clients}
                    /\ \A b \in Clients : pc'[b] \notin PutPC \ {"p_create"} => ino'[b] = NoInode
  BY DEF TempInv, NoStrayTemp
<1>2. tmp' = tmp \ {ino[c]} /\ tmp \subseteq {ino[b] : b \in Clients}
  BY <1>1 DEF TempInv, NoStrayTemp
<1>3. ASSUME NEW j \in tmp' PROVE j \in {ino'[b] : b \in Clients}
  BY <1>1, <1>2, <1>3
<1>4. \A b \in Clients : pc'[b] \notin PutPC \ {"p_create"} => ino'[b] = NoInode
  BY <1>1 DEF TempInv
<1> QED
  BY <1>3, <1>4

(* Crashes and power losses are no input or output errors.                 *)
LEMMA TempStep == IInv /\ TempInv /\ [Next]_vars => TempInv'
<1> SUFFICES ASSUME IInv, TempInv, [Next]_vars PROVE TempInv'
  OBVIOUS
<1> USE DEF fs, kernelView, medium, call, Go, Return, PutThrow
<1>0. TypeOK
  BY DEF IInv
<1>1. CASE UNCHANGED vars \/ Writeback
  BY <1>1, TempQuietStep DEF vars, Writeback
<1>2. ASSUME PowerLoss \/ \E c \in Clients : Crash(c) PROVE TempInv'
  BY <1>0, <1>2 DEF TypeOK, PowerLoss, Crash, TempInv, NoStrayTemp
<1>3. ASSUME NEW c \in Clients, Begin(c) PROVE TempInv'
  <2>1. UNCHANGED <<tmp, ino>> /\ pc[c] \in {"closed", "ready"}
        /\ \A b \in Clients \ {c} : pc'[b] = pc[b]
    BY <1>0, <1>3 DEF TypeOK, Begin, OpenLstat, PutBegin, GetOpen, ListOpen
  <2> QED
    BY <2>1, TempQuietStep DEF PutPC
<1>4. ASSUME NEW c \in Clients, Step(c), ~PutCleanup(c),
             \A i \in Inodes : ~PutCreate(c, i) /\ ~PutCreateFstatFails(c, i)
      PROVE  TempInv'
  <2>1. UNCHANGED <<tmp, ino>> /\ \A b \in Clients \ {c} : pc'[b] = pc[b]
    BY <1>0, <1>4 DEF TypeOK, Step, OpenMkdir, OpenSyncParent, OpenFail, PutCreateTaken, PutCreateFails, PutWrite,
         PutSyncTemp, PutLink, PutOpen, PutVerify, PutSyncRecord, PutSyncDirectory, PutFail, GetRead,
         GetFail, ListEntry, ListEnd, ListFail
  <2>2. pc[c] \in PutPC \ {"p_create"} => pc'[c] \in PutPC \ {"p_create"}
    <3>1. CASE PutWrite(c) \/ PutSyncTemp(c) \/ PutLink(c) \/ PutSyncRecord(c) \/ PutSyncDirectory(c)
      BY <1>0, <3>1 DEF TypeOK, PutWrite, PutSyncTemp, PutLink, PutSyncRecord, PutSyncDirectory, PutPC
    <3>2. CASE PutOpen(c) \/ PutVerify(c) \/ PutFail(c)
      BY <1>0, <3>2 DEF TypeOK, PutOpen, PutVerify, PutFail, PutPC
    <3> QED
      BY <1>4, <3>1, <3>2
         DEF Step, OpenMkdir, OpenSyncParent, OpenFail, PutCreateTaken, PutCreateFails, GetRead, GetFail,
             ListEntry, ListEnd, ListFail, PutPC, OpenPC
  <2> QED
    BY <2>1, <2>2, TempQuietStep
<1>5. ASSUME NEW c \in Clients, Step(c) PROVE TempInv'
  <2>1. CASE PutCleanup(c)
    BY <1>0, <2>1, TempCleanupStep
  <2>2. ASSUME NEW i \in Inodes, PutCreate(c, i) \/ PutCreateFstatFails(c, i) PROVE TempInv'
    BY <1>0, <2>2, TempCreateSteps
  <2> QED
    BY <1>4, <1>5, <2>1, <2>2
<1>6. UNCHANGED vars \/ Writeback \/ PowerLoss \/ (\E c \in Clients : Crash(c) \/ Begin(c) \/ Step(c))
  BY Zenon DEF Next, Environment
<1> QED
  BY <1>1, <1>2, <1>3, <1>5, <1>6, Zenon

(* Whatever else fails, put removes its temp file: none is left that no    *)
(* put in progress knows of, for any number of calls and errors.           *)
THEOREM NoTempStaysBehind == Spec => []NoStrayTemp
<1>1. TempInv => NoStrayTemp
  BY DEF TempInv
<1> QED
  BY <1>1, TempInit, TempStep, IInvAlways, PTL DEF Spec
=============================================================================
