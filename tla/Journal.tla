------------------------------ MODULE Journal ------------------------------
(***************************************************************************)
(* The local ciphertext journal: src/src/journal/index.ts and fs.ts over a *)
(* POSIX file system.  Every system call a put, get, list or open awaits   *)
(* is an action, so calls of several clients interleave between any two.   *)
(*                                                                         *)
(* A client is one strand of awaits in one process: it opens the journal   *)
(* and then makes calls one after the other.  The file system has a view   *)
(* in the kernel's memory (jdir, pub, tmp, data) and one on the medium     *)
(* (djdir, dpub, dtmp, ddata).  fsync copies the first to the second, the  *)
(* kernel may copy any part of it at any time, and a power loss forgets    *)
(* what was not copied.                                                    *)
(*                                                                         *)
(* A record's bytes are abstracted to the digest they hash to, or Torn for *)
(* bytes that hash to no digest of the model: an empty file, a prefix, or  *)
(* damage.  A temp file's random name is abstracted to its inode.          *)
(***************************************************************************)
EXTENDS Naturals, FiniteSets

CONSTANTS
  Putters, Getters, Listers,   \* the clients that put, get and list
  Digests,                     \* record digests, the names <digest>.wpp
  Inodes,                      \* file bodies; also names a temp file
  Foreign,                     \* digests whose file something else put there
  HasAlien,                    \* a name that is no record and no temp exists
  Faults,                      \* what may go wrong: "io", "unlink", "crash", "power"
  TempTries,                   \* TEMP_CREATE_TRIES
  ListBound,                   \* LIST_BOUND
  NoInode, Torn, Alien

Clients == Putters \cup Getters \cup Listers

ASSUME JournalAssumption ==
  /\ Digests # {} /\ Foreign \subseteq Digests
  /\ NoInode \notin Inodes
  /\ Digests \cap Inodes = {} /\ Alien \notin Digests \cup Inodes
  /\ Torn \notin Digests
  /\ TempTries \in Nat \ {0}
  /\ ListBound \in Nat
  /\ HasAlien \in BOOLEAN

VARIABLES
  jdir, djdir,   \* does the journal directory exist, in memory and on disk
  pub, dpub,     \* the inode each record name is linked to, or NoInode
  tmp, dtmp,     \* the inodes that have a temp name
  data, ddata,   \* what each inode contains
  pc,            \* where each client is
  arg,           \* the digest of the client's call
  ino,           \* the temp file of a put in progress
  fd,            \* the record file a put or get has open
  tries,         \* temp names a put has found taken
  out,           \* how the client's last call ended, or is about to end
  scan,          \* what a list has read of the directory
  owed,          \* history: what was acknowledged when the call began
  acked          \* history: the digests some put returned local-durable for

kernelView == <<jdir, pub, tmp, data>>
medium     == <<djdir, dpub, dtmp, ddata>>
fs         == <<kernelView, medium>>
call       == <<arg, ino, fd, tries, scan, owed>>
vars       == <<fs, pc, call, out, acked>>

Contents == Digests \cup {Torn}
Entry    == Digests \cup Inodes \cup {Alien}

OpenPC == {"o_mkdir", "o_sync"}
PutPC  == {"p_create", "p_write", "p_sync", "p_link", "p_open", "p_verify",
           "p_fsync", "p_syncdir", "p_clean"}
CallPC == PutPC \cup {"g_read", "l_scan"}

Codes == {"none", "local-durable", "bytes", "digests",
          "INTEGRITY", "NOT_FOUND", "INCOMPLETE", "IO"}

Scan     == [seen : SUBSET Entry, due : SUBSET Entry, count : 0..ListBound]
NoScan   == [seen |-> {}, due |-> {}, count |-> 0]
NoRecord == [d \in Digests |-> NoInode]
AnyDigest == CHOOSE d \in Digests : TRUE

(* The type invariant: the shape of the file system and of every call.     *)
TypeOK ==
  /\ jdir \in BOOLEAN /\ djdir \in BOOLEAN
  /\ pub \in [Digests -> Inodes \cup {NoInode}]
  /\ dpub \in [Digests -> Inodes \cup {NoInode}]
  /\ tmp \subseteq Inodes /\ dtmp \subseteq Inodes
  /\ data \in [Inodes -> Contents] /\ ddata \in [Inodes -> Contents]
  /\ pc \in [Clients -> {"closed", "ready"} \cup OpenPC \cup CallPC]
  /\ arg \in [Clients -> Digests]
  /\ ino \in [Clients -> Inodes \cup {NoInode}]
  /\ fd \in [Clients -> Inodes \cup {NoInode}]
  /\ tries \in [Clients -> 0..(TempTries - 1)]
  /\ out \in [Clients -> Codes]
  /\ scan \in [Clients -> Scan]
  /\ owed \in [Clients -> SUBSET Digests]
  /\ acked \subseteq Digests

-----------------------------------------------------------------------------
(* A foreign record may hold the right bytes or any others, and need not   *)
(* have reached the medium: cp does not fsync.                             *)
Init ==
  /\ jdir \in BOOLEAN /\ djdir \in {jdir, FALSE}
  /\ IF jdir
     THEN /\ pub \in [Digests -> Inodes \cup {NoInode}]
          /\ \A d \in Digests : pub[d] # NoInode <=> d \in Foreign
          /\ \A d, e \in Foreign : d # e => pub[d] # pub[e]
     ELSE pub = NoRecord
  /\ dpub \in [Digests -> Inodes \cup {NoInode}]
  /\ \A d \in Digests : dpub[d] \in {pub[d], NoInode}
  /\ tmp = {} /\ dtmp = {}
  /\ data \in [Inodes -> Contents]
  /\ \A i \in Inodes : data[i] = Torn \/ \E d \in Foreign : pub[d] = i /\ data[i] = d
  /\ ddata \in [Inodes -> Contents]
  /\ \A i \in Inodes : ddata[i] \in {data[i], Torn}
  /\ pc = [c \in Clients |-> "closed"]
  /\ arg = [c \in Clients |-> AnyDigest]
  /\ ino = [c \in Clients |-> NoInode]
  /\ fd = [c \in Clients |-> NoInode]
  /\ tries = [c \in Clients |-> 0]
  /\ out = [c \in Clients |-> "none"]
  /\ scan = [c \in Clients |-> NoScan]
  /\ owed = [c \in Clients |-> {}]
  /\ acked = {}

Go(c, from, to) == pc[c] = from /\ pc' = [pc EXCEPT ![c] = to]

Return(c, code) ==
  /\ pc'  = [pc EXCEPT ![c] = "ready"]
  /\ out' = [out EXCEPT ![c] = code]

-----------------------------------------------------------------------------
(* CiphertextJournal.open.  The parent directory and its checks are outside *)
(* the model; a failed check ends the open like any other failure.          *)

(* Bug: trust a directory that is already there without the parent fsync.  *)
OpenLstatTrusts(c) ==
  /\ pc[c] = "closed"
  /\ pc' = [pc EXCEPT ![c] = IF jdir THEN "ready" ELSE "o_mkdir"]
  /\ UNCHANGED <<fs, call, out, acked>>

OpenLstat(c) ==
  /\ pc[c] = "closed"
  /\ pc' = [pc EXCEPT ![c] = IF jdir THEN "o_sync" ELSE "o_mkdir"]
  /\ UNCHANGED <<fs, call, out, acked>>

(* EEXIST is tolerated: another client may have made the leaf meanwhile.   *)
OpenMkdir(c) ==
  /\ Go(c, "o_mkdir", "o_sync")
  /\ jdir' = TRUE
  /\ UNCHANGED <<pub, tmp, data, medium, call, out, acked>>

(* The parent is fsynced whether or not this client made the leaf.         *)
OpenSyncParent(c) ==
  /\ Go(c, "o_sync", "ready")
  /\ djdir' = jdir
  /\ UNCHANGED <<kernelView, dpub, dtmp, ddata, call, out, acked>>

OpenFail(c) ==
  /\ "io" \in Faults
  /\ pc[c] \in OpenPC
  /\ pc' = [pc EXCEPT ![c] = "closed"]
  /\ UNCHANGED <<fs, call, out, acked>>

-----------------------------------------------------------------------------
(* CiphertextJournal.put.                                                  *)

(* cloneAndValidate has accepted the wire bytes, which hash to d.          *)
PutBegin(c, d) ==
  /\ c \in Putters
  /\ Go(c, "ready", "p_create")
  /\ arg'   = [arg EXCEPT ![c] = d]
  /\ tries' = [tries EXCEPT ![c] = 0]
  /\ out'   = [out EXCEPT ![c] = "none"]
  /\ scan'  = [scan EXCEPT ![c] = NoScan]
  /\ owed'  = [owed EXCEPT ![c] = {}]
  /\ UNCHANGED <<fs, ino, fd, acked>>

(* An error inside put's try block: the finally block runs next.           *)
PutThrow(c, code) ==
  /\ pc'  = [pc EXCEPT ![c] = "p_clean"]
  /\ out' = [out EXCEPT ![c] = code]

(* An inode no name, no open file and no block of the medium refers to.    *)
Free(i) ==
  /\ i \notin tmp \cup dtmp
  /\ \A d \in Digests : pub[d] # i /\ dpub[d] # i
  /\ \A c \in Clients : ino[c] # i /\ fd[c] # i

(* A new temp name is one no scan has met or was bound to meet.            *)
NewTemp(c, i) ==
  /\ Free(i)
  /\ tmp'   = tmp \cup {i}
  /\ data'  = [data EXCEPT ![i] = Torn]
  /\ ddata' = [ddata EXCEPT ![i] = Torn]
  /\ ino'   = [ino EXCEPT ![c] = i]
  /\ scan'  = [l \in Clients |-> [scan[l] EXCEPT !.seen = @ \ {i}, !.due = @ \ {i}]]
  /\ tries' = [tries EXCEPT ![c] = 0]
  /\ UNCHANGED <<jdir, pub, djdir, dpub, dtmp, arg, fd, owed, acked>>

PutCreate(c, i) ==
  /\ Go(c, "p_create", "p_write")
  /\ NewTemp(c, i)
  /\ UNCHANGED out

(* open(2) made the file but fstat failed: createExclusiveTemp unlinks it. *)
PutCreateFstatFails(c, i) ==
  /\ "io" \in Faults
  /\ pc[c] = "p_create"
  /\ NewTemp(c, i)
  /\ PutThrow(c, "IO")

(* The random name is taken: createExclusiveTemp tries TempTries names.    *)
PutCreateTaken(c) ==
  /\ pc[c] = "p_create"
  /\ tmp # {}
  /\ IF tries[c] + 1 < TempTries
     THEN tries' = [tries EXCEPT ![c] = @ + 1] /\ UNCHANGED <<pc, out>>
     ELSE tries' = [tries EXCEPT ![c] = 0] /\ Return(c, "IO")
  /\ UNCHANGED <<fs, arg, ino, fd, scan, owed, acked>>

PutCreateFails(c) ==
  /\ pc[c] = "p_create"
  /\ "io" \in Faults \/ \A i \in Inodes : ~Free(i)
  /\ Return(c, "IO")
  /\ UNCHANGED <<fs, call, acked>>

(* Bug: one write(2) is taken for the whole, however short.                *)
PutWriteShort(c) == Go(c, "p_write", "p_sync") /\ UNCHANGED <<fs, call, out, acked>>

(* writeFully has written the last byte; until then the file is Torn.      *)
PutWrite(c) ==
  /\ Go(c, "p_write", "p_sync")
  /\ data' = [data EXCEPT ![ino[c]] = arg[c]]
  /\ UNCHANGED <<jdir, pub, tmp, medium, call, out, acked>>

(* Bug: the temp is published without an fsync.                            *)
PutSyncTempSkipped(c) == Go(c, "p_sync", "p_link") /\ UNCHANGED <<fs, call, out, acked>>

PutSyncTemp(c) ==
  /\ Go(c, "p_sync", "p_link")
  /\ ddata' = [ddata EXCEPT ![ino[c]] = data[ino[c]]]
  /\ UNCHANGED <<kernelView, djdir, dpub, dtmp, call, out, acked>>

(* Bug: publish with rename, which replaces an existing record.            *)
PutLinkRename(c) ==
  /\ Go(c, "p_link", "p_open")
  /\ pub' = [pub EXCEPT ![arg[c]] = ino[c]]
  /\ UNCHANGED <<jdir, tmp, data, medium, call, out, acked>>

(* link(2) creates the record name or fails with EEXIST; put goes on alike.*)
PutLink(c) ==
  /\ Go(c, "p_link", "p_open")
  /\ pub' = [pub EXCEPT ![arg[c]] = IF @ = NoInode THEN ino[c] ELSE @]
  /\ UNCHANGED <<jdir, tmp, data, medium, call, out, acked>>

PutOpen(c) ==
  /\ pc[c] = "p_open"
  /\ IF pub[arg[c]] = NoInode
     THEN PutThrow(c, "IO") /\ UNCHANGED fd
     ELSE Go(c, "p_open", "p_verify") /\ fd' = [fd EXCEPT ![c] = pub[arg[c]]]
          /\ UNCHANGED out
  /\ UNCHANGED <<fs, arg, ino, tries, scan, owed, acked>>

(* Bug: the error path returns without put's finally block.                *)
PutVerifyLeaks(c) ==
  /\ pc[c] = "p_verify"
  /\ IF data[fd[c]] = arg[c]
     THEN Go(c, "p_verify", "p_fsync") /\ UNCHANGED <<out, ino>>
     ELSE Return(c, "INTEGRITY") /\ ino' = [ino EXCEPT ![c] = NoInode]
  /\ UNCHANGED <<fs, arg, fd, tries, scan, owed, acked>>

PutVerify(c) ==
  /\ pc[c] = "p_verify"
  /\ IF data[fd[c]] = arg[c]
     THEN Go(c, "p_verify", "p_fsync") /\ UNCHANGED out
     ELSE PutThrow(c, "INTEGRITY")
  /\ UNCHANGED <<fs, call, acked>>

PutSyncRecord(c) ==
  /\ Go(c, "p_fsync", "p_syncdir")
  /\ ddata' = [ddata EXCEPT ![fd[c]] = data[fd[c]]]
  /\ UNCHANGED <<kernelView, djdir, dpub, dtmp, call, out, acked>>

(* Bug: acknowledge without the fsync of the journal directory.            *)
PutSyncDirectorySkipped(c) ==
  /\ Go(c, "p_syncdir", "p_clean")
  /\ out' = [out EXCEPT ![c] = "local-durable"]
  /\ UNCHANGED <<fs, call, acked>>

PutSyncDirectory(c) ==
  /\ Go(c, "p_syncdir", "p_clean")
  /\ out' = [out EXCEPT ![c] = "local-durable"]
  /\ dpub' = pub /\ dtmp' = tmp
  /\ UNCHANGED <<kernelView, djdir, ddata, call, acked>>

PutFail(c) ==
  /\ "io" \in Faults
  /\ pc[c] \in PutPC \ {"p_create", "p_clean"}
  /\ PutThrow(c, "IO")
  /\ UNCHANGED <<fs, call, acked>>

(* The finally block: unlinkQuiet swallows a failure, then put returns.    *)
PutCleanup(c) ==
  /\ Go(c, "p_clean", "ready")
  /\ \/ tmp' = tmp \ {ino[c]}
     \/ "unlink" \in Faults /\ UNCHANGED tmp
  /\ ino' = [ino EXCEPT ![c] = NoInode]
  /\ fd'  = [fd EXCEPT ![c] = NoInode]
  /\ acked' = IF out[c] = "local-durable" THEN acked \cup {arg[c]} ELSE acked
  /\ UNCHANGED <<jdir, pub, data, medium, arg, tries, scan, owed, out>>

-----------------------------------------------------------------------------
(* CiphertextJournal.get.                                                  *)

GetOpen(c, d) ==
  /\ c \in Getters
  /\ pc[c] = "ready"
  /\ arg'  = [arg EXCEPT ![c] = d]
  /\ owed' = [owed EXCEPT ![c] = acked]
  /\ scan' = [scan EXCEPT ![c] = NoScan]
  /\ IF pub[d] = NoInode
     THEN Return(c, "NOT_FOUND") /\ UNCHANGED fd
     ELSE /\ Go(c, "ready", "g_read")
          /\ out' = [out EXCEPT ![c] = "none"]
          /\ fd'  = [fd EXCEPT ![c] = pub[d]]
  /\ UNCHANGED <<fs, ino, tries, acked>>

(* Bug: one read(2) is taken for the whole file, however short.            *)
GetReadShort(c) ==
  /\ pc[c] = "g_read"
  /\ \/ data[fd[c]] = arg[c] /\ Return(c, "bytes")
     \/ Return(c, "INTEGRITY")
  /\ fd' = [fd EXCEPT ![c] = NoInode]
  /\ UNCHANGED <<fs, arg, ino, tries, scan, owed, acked>>

GetRead(c) ==
  /\ pc[c] = "g_read"
  /\ Return(c, IF data[fd[c]] = arg[c] THEN "bytes" ELSE "INTEGRITY")
  /\ fd' = [fd EXCEPT ![c] = NoInode]
  /\ UNCHANGED <<fs, arg, ino, tries, scan, owed, acked>>

GetFail(c) ==
  /\ "io" \in Faults
  /\ pc[c] = "g_read"
  /\ Return(c, "IO")
  /\ fd' = [fd EXCEPT ![c] = NoInode]
  /\ UNCHANGED <<fs, arg, ino, tries, scan, owed, acked>>

-----------------------------------------------------------------------------
(* CiphertextJournal.list.  readdir reports every name that is there for   *)
(* the whole scan, and may or may not report one added or removed during   *)
(* it; a name already buffered may be reported after its removal.          *)

Committed == {d \in Digests : pub[d] # NoInode}
Present   == Committed \cup tmp \cup (IF HasAlien THEN {Alien} ELSE {})

ListOpen(c) ==
  /\ c \in Listers
  /\ Go(c, "ready", "l_scan")
  /\ scan' = [scan EXCEPT ![c] = [seen |-> {}, due |-> Present, count |-> 0]]
  /\ owed' = [owed EXCEPT ![c] = acked]
  /\ out'  = [out EXCEPT ![c] = "none"]
  /\ UNCHANGED <<fs, arg, ino, fd, tries, acked>>

(* Bug: temps are skipped before they are counted.                         *)
ListEntrySkipsTemps(c, e) ==
  /\ pc[c] = "l_scan"
  /\ e \in (Present \cup scan[c].due) \ scan[c].seen
  /\ UNCHANGED <<pc, out>>
  /\ scan' = [scan EXCEPT ![c].seen = @ \cup {e}]
  /\ UNCHANGED <<fs, arg, ino, fd, tries, owed, acked>>

(* Every entry counts against the bound, temps and foreign names too.      *)
ListEntry(c, e) ==
  /\ pc[c] = "l_scan"
  /\ e \in (Present \cup scan[c].due) \ scan[c].seen
  /\ IF scan[c].count + 1 > ListBound
     THEN Return(c, "INCOMPLETE") /\ UNCHANGED scan
     ELSE /\ IF e = Alien THEN Return(c, "INTEGRITY") ELSE UNCHANGED <<pc, out>>
          /\ scan' = [scan EXCEPT ![c].seen = @ \cup {e}, ![c].count = @ + 1]
  /\ UNCHANGED <<fs, arg, ino, fd, tries, owed, acked>>

ListEnd(c) ==
  /\ pc[c] = "l_scan"
  /\ scan[c].due \cap Present \subseteq scan[c].seen
  /\ Return(c, "digests")
  /\ UNCHANGED <<fs, call, acked>>

ListFail(c) ==
  /\ "io" \in Faults
  /\ pc[c] = "l_scan"
  /\ Return(c, "IO")
  /\ UNCHANGED <<fs, call, acked>>

Listed(c) == scan[c].seen \cap Digests

-----------------------------------------------------------------------------
(* The environment.                                                        *)

Forget(C) ==
  /\ pc'    = [c \in Clients |-> IF c \in C THEN "closed" ELSE pc[c]]
  /\ ino'   = [c \in Clients |-> IF c \in C THEN NoInode ELSE ino[c]]
  /\ fd'    = [c \in Clients |-> IF c \in C THEN NoInode ELSE fd[c]]
  /\ tries' = [c \in Clients |-> IF c \in C THEN 0 ELSE tries[c]]
  /\ out'   = [c \in Clients |-> IF c \in C THEN "none" ELSE out[c]]
  /\ scan'  = [c \in Clients |-> IF c \in C THEN NoScan ELSE scan[c]]
  /\ owed'  = [c \in Clients |-> IF c \in C THEN {} ELSE owed[c]]
  /\ UNCHANGED <<arg, acked>>

(* The process dies: its temp file stays behind.                           *)
Crash(c) ==
  /\ "crash" \in Faults
  /\ pc[c] # "closed"
  /\ Forget({c})
  /\ UNCHANGED fs

(* What is not on the medium is lost, and with the directory all its names.*)
PowerLoss ==
  /\ "power" \in Faults
  /\ jdir' = djdir
  /\ pub'  = IF djdir THEN dpub ELSE NoRecord
  /\ tmp'  = IF djdir THEN dtmp ELSE {}
  /\ data' = ddata
  /\ dpub' = pub' /\ dtmp' = tmp'
  /\ Forget(Clients)
  /\ UNCHANGED <<djdir, ddata>>

(* The kernel writes back what it likes, when it likes.                    *)
Writeback ==
  /\ \/ djdir' = jdir /\ UNCHANGED <<dpub, dtmp, ddata>>
     \/ \E d \in Digests : /\ dpub' = [dpub EXCEPT ![d] = pub[d]]
                           /\ UNCHANGED <<djdir, dtmp, ddata>>
     \/ \E i \in Inodes : /\ dtmp' = IF i \in tmp THEN dtmp \cup {i} ELSE dtmp \ {i}
                          /\ UNCHANGED <<djdir, dpub, ddata>>
     \/ \E i \in Inodes : /\ ddata' = [ddata EXCEPT ![i] = data[i]]
                          /\ UNCHANGED <<djdir, dpub, dtmp>>
  /\ UNCHANGED <<kernelView, pc, call, out, acked>>

-----------------------------------------------------------------------------
(* What a client's event loop runs once a call has begun.                  *)
Step(c) ==
  \/ OpenMkdir(c) \/ OpenSyncParent(c) \/ OpenFail(c)
  \/ \E i \in Inodes : PutCreate(c, i) \/ PutCreateFstatFails(c, i)
  \/ PutCreateTaken(c) \/ PutCreateFails(c)
  \/ PutWrite(c) \/ PutSyncTemp(c) \/ PutLink(c)
  \/ PutOpen(c) \/ PutVerify(c) \/ PutSyncRecord(c) \/ PutSyncDirectory(c)
  \/ PutFail(c) \/ PutCleanup(c)
  \/ GetRead(c) \/ GetFail(c)
  \/ \E e \in Entry : ListEntry(c, e)
  \/ ListEnd(c) \/ ListFail(c)

Begin(c) ==
  \/ OpenLstat(c)
  \/ \E d \in Digests : PutBegin(c, d) \/ GetOpen(c, d)
  \/ ListOpen(c)

Environment == PowerLoss \/ Writeback \/ \E c \in Clients : Crash(c)

Next == Environment \/ \E c \in Clients : Begin(c) \/ Step(c)

Spec == Init /\ [][Next]_vars

(* The event loop gets to run every call that has begun.                   *)
FairSpec == Spec /\ \A c \in Clients : WF_vars(Step(c))

-----------------------------------------------------------------------------
(***************************************************************************)
(* Properties.                                                             *)
(***************************************************************************)

(* A digest some put returned local-durable for is, at every later moment, *)
(* on the medium under its own name with its own bytes, in a directory     *)
(* that is itself on the medium: a power loss now would not lose it.  This *)
(* is what the fsync of the parent (open), of the temp, of the published   *)
(* file and of the directory (put) are for together.                       *)
AckedDurable ==
  \A d \in acked : djdir /\ dpub[d] # NoInode /\ ddata[dpub[d]] = d

(* A record name that the journal itself made never refers to a partial    *)
(* file, neither in memory, where another call could read it, nor on the   *)
(* medium, where a power loss would leave it.                              *)
NoTornRecord ==
  \A d \in Digests \ Foreign :
    /\ pub[d] # NoInode => data[pub[d]] = d
    /\ djdir /\ dpub[d] # NoInode => ddata[dpub[d]] = d

(* What a get or list tells its caller never contradicts an earlier        *)
(* acknowledgement: a get of an acknowledged digest does not fail with     *)
(* NOT_FOUND or INTEGRITY (only a get says the first, and a list says the  *)
(* second only after it has met the alien name), and a list that succeeds  *)
(* names every digest acknowledged before it began and no digest without a *)
(* record.                                                                 *)
ReadersKeepPromises ==
  \A c \in Clients :
    /\ out[c] = "NOT_FOUND" => arg[c] \notin owed[c]
    /\ out[c] = "INTEGRITY" /\ Alien \notin scan[c].seen => arg[c] \notin owed[c]
    /\ out[c] = "digests" => /\ owed[c] \subseteq Listed(c)
                             /\ Listed(c) \subseteq Committed

(* A put or get reports INTEGRITY only for a name something else made: the *)
(* loser of a race to publish never sees the winner's file half written.   *)
NoFalseIntegrity ==
  \A c \in Clients :
    out[c] = "INTEGRITY" /\ arg[c] \notin Foreign => c \in Listers /\ HasAlien

(* Unless unlink itself fails or the process dies, a temp file exists only *)
(* as long as the put that made it: every error path of put removes it.    *)
(* (Nothing else ever does: list skips temps but counts them.)             *)
NoStrayTemp ==
  Faults \subseteq {"io"} => tmp \subseteq {ino[c] : c \in Clients}

(* A record is never relinked, unlinked or rewritten: only a power loss,   *)
(* which ends every client, may take its name or its bytes, and only if no *)
(* put was acknowledged for it.                                            *)
RecordsImmutable ==
  [][\A d \in Digests :
       pub[d] # NoInode =>
         \/ pub'[d] = pub[d] /\ (data[pub[d]] = d => data'[pub[d]] = d)
         \/ /\ d \notin acked
            /\ pub'[d] \in {NoInode, pub[d]}
            /\ \A c \in Clients : pc'[c] = "closed"]_vars

(* The journal implements the store of promises: put's link publishes, its *)
(* barriers and the kernel persist, its return acknowledges.               *)
visible == {d \in Digests : pub[d] # NoInode /\ data[pub[d]] = d}
durable == {d \in Digests : djdir /\ dpub[d] # NoInode /\ ddata[dpub[d]] = d}
Store   == INSTANCE DurableStore
StoreSpec == Store!Spec

(* Every call that has begun returns, whatever else the clients, the disk  *)
(* and the directory do meanwhile: put's retries are bounded, and a list   *)
(* is not kept busy for ever by temp files that come and go.               *)
CallsReturn == \A c \in Clients : pc[c] \in CallPC \cup OpenPC ~> pc[c] \in {"ready", "closed"}

-----------------------------------------------------------------------------
(***************************************************************************)
(* The inductive invariant JournalProofs uses: why AckedDurable holds.     *)
(***************************************************************************)

(* The medium is never ahead of memory and never disagrees with it.        *)
MediumLags ==
  /\ djdir => jdir
  /\ \A d \in Digests : dpub[d] \in {pub[d], NoInode}
  /\ \A i \in Inodes : ddata[i] \in {data[i], Torn}

(* A client that holds an open journal has fsynced the parent.             *)
OpenIsDurable ==
  \A c \in Clients :
    /\ pc[c] = "o_sync" => jdir
    /\ pc[c] \in {"ready"} \cup CallPC => djdir

(* Until it is linked, a temp belongs to one put and holds what the put    *)
(* wrote; when put links it, its bytes are on the medium.                  *)
TempPrivate ==
  /\ \A b, c \in Clients : b # c => ino[c] = NoInode \/ ino[b] # ino[c]
  /\ \A c \in Clients :
       pc[c] \in {"p_write", "p_sync", "p_link"} =>
         /\ ino[c] \in Inodes
         /\ \A d \in Digests : pub[d] # ino[c]
         /\ data[ino[c]] = IF pc[c] = "p_write" THEN Torn ELSE arg[c]
         /\ pc[c] = "p_link" => ddata[ino[c]] = arg[c]

(* An open record file is the one the record name is linked to.            *)
RecordOpen ==
  \A c \in Clients :
    pc[c] \in {"p_verify", "p_fsync", "p_syncdir", "g_read"} =>
      /\ fd[c] \in Inodes
      /\ pub[arg[c]] = fd[c]
      /\ pc[c] \in {"p_fsync", "p_syncdir"} => data[fd[c]] = arg[c]
      /\ pc[c] = "p_syncdir" => ddata[fd[c]] = arg[c]

(* A record the journal made was on the medium before it had a name.       *)
RecordsWhole ==
  \A d \in Digests \ Foreign :
    pub[d] # NoInode => data[pub[d]] = d /\ ddata[pub[d]] = d

AckPending == \A c \in Clients : out[c] = "local-durable" => arg[c] \in durable

IInv ==
  /\ TypeOK /\ MediumLags /\ OpenIsDurable /\ TempPrivate /\ RecordOpen
  /\ RecordsWhole /\ AckPending /\ AckedDurable

(* What a reader knows while it works, and so what it may report.          *)
ReaderInv ==
  /\ \A c \in Clients :
       /\ owed[c] \subseteq acked
       /\ pc[c] \in PutPC => owed[c] = {}
       /\ pc[c] = "l_scan" => c \in Listers /\ owed[c] \subseteq scan[c].due
       /\ scan[c].seen \cap Digests \subseteq Committed
       /\ scan[c].due \cap Digests \subseteq Committed
       /\ Alien \in scan[c].due => HasAlien
  /\ ReadersKeepPromises /\ NoFalseIntegrity

(* Why no temp stays behind: a put remembers its temp until the finally    *)
(* block, and a client that is not past its creation remembers none.       *)
TempInv ==
  /\ NoStrayTemp
  /\ Faults \subseteq {"io"} =>
       \A c \in Clients : pc[c] \notin PutPC \ {"p_create"} => ino[c] = NoInode
=============================================================================
