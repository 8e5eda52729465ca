---------------------------- MODULE PrivateStates ---------------------------
(***************************************************************************)
(* One level of the LevelDB private-state provider of midnight-js: private *)
(* states under <<contract, id>>, each encrypted under a key derived from  *)
(* the password and the salt in the level's metadata.  Calls interleave at *)
(* their awaits: they wait for a password rotation, read or create the     *)
(* salt, take their key, then read or write in a section of their own.     *)
(* clear(), a migration and a change of contract may come at any moment,   *)
(* and a rotation while other calls are past the lock; a call it comes to  *)
(* while past the lock was crossed.  What it then leaves unreadable is      *)
(* astray.                                                                 *)
(*                                                                         *)
(* Passwords and salts are names; what is encrypted under one opens under  *)
(* that one only.  The password provider answers the password the level is *)
(* under, and the application changes it when a rotation that migrated     *)
(* entries returns; after a crash, or an error of a rotation, it uses the  *)
(* password that opens the level.                                          *)
(***************************************************************************)
EXTENDS Naturals, FiniteSets

CONSTANTS
  Contracts, Ids, Vals,
  Slots,       \* calls in flight at once
  Passwords,
  Levels,      \* what the level may hold at first: [entries, salt, password]
  Files,       \* exports there are already: id -> value
  OldLevel,    \* the unscoped level that migration copies, likewise
  MaxEntries,  \* maxEntries of a rotation
  MaxStates,   \* maxStates of an export or an import
  MaxCalls,    \* bound: calls made, clear, migration and setContractAddress included
  Absent, None, Done

Keys == Contracts \X Ids

VARIABLES
  level,     \* key -> entry, or None
  salt,      \* the salt in the metadata, 0 when there is none
  nextSalt,  \* a salt never used
  cache,     \* encryptionCache of the level: a set of at most one key
  salting,   \* the call whose promise is in encryptionInitPromises, or None
  lock,      \* the call that holds the rotation lock, or None
  call,      \* what each slot is doing
  contract,  \* contractAddress of the provider
  password,  \* what the password provider answers
  opens,     \* the password the level is under
  file,      \* the exports at hand, the last one once there is one: maps id -> value
  calls,     \* calls made
  astray     \* history: keys whose entry was written, or outlived, where a rotation,
             \* clear() or a migration came between a call's salt and its write

vars == <<level, salt, nextSalt, cache, salting, lock, call, contract, password,
          opens, file, calls, astray>>

-----------------------------------------------------------------------------
Entry(s, p, v) == [fmt |-> "v2", salt |-> s, password |-> p, val |-> v]

\* A call's fields: op is the primitive it runs, at where in it; under is the
\* contract selected when it began; key its scoped key; salt and password its
\* encryption key; todo the legacy values it read and has left to re-encrypt; seen what
\* it read; crossed (history) whether a rotation took the lock, or clear() or a migration
\* ran, since it was past the lock.
Unread == [k \in Keys |-> Absent]

Idle == [job |-> "none", op |-> "none", at |-> "idle", under |-> None, id |-> None,
         val |-> Absent, key |-> None, salt |-> 0, password |-> None, late |-> FALSE,
         todo |-> Unread, seen |-> None, phase |-> "none", mode |-> "none", ids |-> {},
         states |-> None, crossed |-> FALSE]

Resting  == {"idle", "returned"}
Resumed  == {"wait", "check"}
InFlight == {"past", "salt", "newsalt", "salted", "doomed", "key", "read", "reput", "write",
             "close", "scan", "batch", "rotated"}
Inside   == {c \in Slots : call[c].at \in InFlight \cup {"join"}}
Crossed  == [c \in Slots |-> [call[c] EXCEPT !.crossed = @ \/ c \in Inside]]

Plain == [k \in Keys |-> IF level[k] = None THEN Absent ELSE level[k].val]

Set(c, r) == call' = [call EXCEPT ![c] = r]
Go(c, at) == Set(c, [call[c] EXCEPT !.at = at])
Throws(c) == Set(c, Idle)
Closing(r) == [r EXCEPT !.at = "close", !.salt = 0, !.password = None]

\* Bug: the lock is not waited for.
EnteredUnlocked(r) == [r EXCEPT !.at = "past"]
\* waitForRotationLock, on entry: checked before the first await.
Entered(r) == [r EXCEPT !.at = IF lock = None THEN "past" ELSE "wait"]

\* A primitive of a call: this.get and this.set of an import, or the call's own.
Primitive(r, op, id) ==
  Entered([r EXCEPT !.op = op, !.id = id, !.under = contract, !.key = None, !.salt = 0,
                    !.password = None, !.late = FALSE, !.todo = Unread, !.seen = None,
                    !.crossed = FALSE])

\* Entries of an older format are re-encrypted by whoever reads them.
Outdated == {k \in Keys : level[k] # None /\ level[k].fmt # "v2"}

Begin(c, r) ==
  /\ call[c] = Idle /\ calls < MaxCalls
  /\ calls' = calls + 1
  /\ Set(c, r)

Get(c) ==
  /\ \E id \in Ids : Begin(c, Primitive([Idle EXCEPT !.job = "get"], "get", id))
  /\ UNCHANGED <<level, salt, nextSalt, cache, salting, lock, contract, password, opens, file, astray>>

SetState(c) ==
  /\ \E id \in Ids, v \in Vals :
       Begin(c, Primitive([Idle EXCEPT !.job = "set", !.val = v], "set", id))
  /\ UNCHANGED <<level, salt, nextSalt, cache, salting, lock, contract, password, opens, file, astray>>

Remove(c) ==
  /\ \E id \in Ids : Begin(c, Primitive([Idle EXCEPT !.job = "remove"], "remove", id))
  /\ UNCHANGED <<level, salt, nextSalt, cache, salting, lock, contract, password, opens, file, astray>>

Export(c) ==
  /\ Begin(c, Primitive([Idle EXCEPT !.job = "export"], "scan", None))
  /\ UNCHANGED <<level, salt, nextSalt, cache, salting, lock, contract, password, opens, file, astray>>

\* importPrivateStates, up to its first get: with strategy "error" every id is
\* asked for before any is written.
Import(c) ==
  /\ \E f \in file, mode \in {"skip", "overwrite", "error"} :
       LET ids   == {id \in Ids : f[id] # Absent}
           phase == IF mode = "error" THEN "precheck" ELSE "import"
       IN  /\ Cardinality(ids) <= MaxStates
           /\ \E id \in ids :
                Begin(c, Primitive([Idle EXCEPT !.job = "import", !.mode = mode, !.phase = phase,
                                                !.states = f, !.ids = ids \ {id}], "get", id))
  /\ UNCHANGED <<level, salt, nextSalt, cache, salting, lock, contract, password, opens, file, astray>>

\* withPasswordRotationLock takes a free lock without an await; it does not wait for
\* the calls that are past it.
Locks(c, r) ==
  IF lock = None
    THEN lock' = c /\ call' = [Crossed EXCEPT ![c] = [r EXCEPT !.at = "past", !.late = FALSE]]
    ELSE UNCHANGED lock /\ Set(c, [r EXCEPT !.at = "wait"])

\* changePassword(old, new); r.password is the new one.
ChangePassword(c) ==
  /\ call[c] = Idle /\ calls < MaxCalls
  /\ calls' = calls + 1
  /\ \E p \in Passwords \ {password} :
       Locks(c, [Idle EXCEPT !.job = "rotate", !.op = "rotate", !.under = contract, !.password = p])
  /\ UNCHANGED <<level, salt, nextSalt, cache, salting, contract, password, opens, file, astray>>

-----------------------------------------------------------------------------
(* Waiting for a rotation.                                                  *)

\* The clock passes the timeout of a wait; nothing runs.
Expire(c) ==
  /\ call[c].at = "wait" /\ ~call[c].late
  /\ Set(c, [call[c] EXCEPT !.late = TRUE])
  /\ UNCHANGED <<level, salt, nextSalt, cache, salting, lock, contract, password, opens, file, calls, astray>>

\* The awaited promise resolved: the loop tests the lock, then the clock.
Recheck(c) ==
  /\ call[c].at = "check"
  /\ IF lock # None
       THEN (IF call[c].late THEN Throws(c) ELSE Go(c, "wait")) /\ UNCHANGED lock
       ELSE IF call[c].op = "rotate" THEN Locks(c, call[c]) ELSE Set(c, [call[c] EXCEPT !.at = "past", !.late = FALSE]) /\ UNCHANGED lock
  /\ UNCHANGED <<level, salt, nextSalt, cache, salting, contract, password, opens, file, calls, astray>>

-----------------------------------------------------------------------------
(* The salt and the key.                                                    *)

\* Past the lock: set and remove scope their key now, get did when it was called.
\* Bug: get scopes its key there as well.
KeyOfSelected(r) == IF r.op \in {"get", "set", "remove"} THEN <<contract, r.id>> ELSE None
KeyOf(r) ==
  IF r.op \in {"set", "remove"} THEN <<contract, r.id>>
  ELSE IF r.op = "get" THEN <<r.under, r.id>> ELSE None

\* getOrCreateSalt joins the promise there is, or becomes it; remove needs none.
Past(c) ==
  LET r == [call[c] EXCEPT !.key = KeyOf(call[c])]
  IN  /\ r.at = "past"
      /\ IF r.op = "remove" THEN Set(c, [r EXCEPT !.at = "write"]) /\ UNCHANGED salting
         ELSE IF salting # None THEN Set(c, [r EXCEPT !.at = "join"]) /\ UNCHANGED salting
         ELSE Set(c, [r EXCEPT !.at = "salt"]) /\ salting' = c
  /\ UNCHANGED <<level, salt, nextSalt, cache, lock, contract, password, opens, file, calls, astray>>

ReadSalt(c) ==
  /\ call[c].at = "salt"
  /\ Set(c, [call[c] EXCEPT !.salt = salt, !.at = IF salt # 0 THEN "salted" ELSE "newsalt"])
  /\ UNCHANGED <<level, salt, nextSalt, cache, salting, lock, contract, password, opens, file, calls, astray>>

PutSalt(c) ==
  /\ call[c].at = "newsalt"
  /\ salt' = nextSalt /\ nextSalt' = nextSalt + 1
  /\ astray' = IF salt # 0 THEN Keys ELSE astray
  /\ Set(c, [call[c] EXCEPT !.salt = nextSalt, !.at = "salted"])
  /\ UNCHANGED <<level, cache, salting, lock, contract, password, opens, file, calls>>

\* The promise resolves, for the call that made it and for those that joined it.
Salted(c) ==
  /\ call[c].at = "salted"
  /\ salting' = None
  /\ call' = [d \in Slots |-> IF d = c \/ call[d].at = "join"
                                THEN [call[d] EXCEPT !.salt = call[c].salt, !.at = "key",
                                                     !.crossed = @ \/ call[c].crossed]
                                ELSE call[d]]
  /\ UNCHANGED <<level, salt, nextSalt, cache, lock, contract, password, opens, file, calls, astray>>

\* getOrCreateEncryption: the cached key if it has this salt and verifies against the
\* password answered now; a new one, cached, otherwise.  A rotation derives its own.
\* Bug: the salt the cached key was derived from is not compared.
CachedAnySalt(s, p) == {e \in cache : e.password = p}
Cached(s, p) == {e \in cache : e.salt = s /\ e.password = p}

TakeKey(c) ==
  /\ call[c].at = "key"
  /\ IF call[c].op = "rotate"
       THEN Go(c, "scan") /\ UNCHANGED cache
       ELSE LET hit == Cached(call[c].salt, password)
                enc == IF hit # {} THEN CHOOSE e \in hit : TRUE
                       ELSE [salt |-> call[c].salt, password |-> password]
            IN  /\ cache' = {enc}
                /\ Set(c, [call[c] EXCEPT !.salt = enc.salt, !.password = enc.password,
                                          !.at = IF call[c].op = "set" THEN "write" ELSE "read"])
  /\ UNCHANGED <<level, salt, nextSalt, salting, lock, contract, password, opens, file, calls, astray>>

-----------------------------------------------------------------------------
(* Reading and writing, in a section of withSubLevel that closes at the end. *)

\* decrypt and decryptWithPassword: the salt must match, and the key must open; the
\* key of an entry of version 1 is derived from the password answered now.
Decrypts(r, e) ==
  /\ e.salt = r.salt
  /\ IF e.fmt = "v1" THEN e.password = password ELSE e.password = r.password

Readable(r, e) == e.fmt = "plain" \/ Decrypts(r, e)

Asked(r) == {k \in (IF r.op = "get" THEN {r.key} ELSE Keys) : level[k] # None}
Legacy(ks) == [k \in Keys |-> IF k \in ks /\ level[k].fmt # "v2" THEN level[k].val ELSE Absent]

\* subLevelMaybeGet and getAllEntries: what is read, all of it or, when an entry does
\* not open, nothing, after some of the legacy entries before it were re-encrypted.
Read(c) ==
  LET r == call[c]
  IN  /\ r.at = "read"
      /\ IF \A k \in Asked(r) : Readable(r, level[k])
           THEN Set(c, [r EXCEPT !.seen = IF r.op = "get" THEN Plain[r.key] ELSE Plain,
                                 !.todo = Legacy(Asked(r)), !.at = "reput"])
           ELSE \E some \in SUBSET {k \in Asked(r) : Readable(r, level[k])} :
                  Set(c, [r EXCEPT !.todo = Legacy(some), !.at = "reput"])
      /\ UNCHANGED <<level, salt, nextSalt, cache, salting, lock, contract, password, opens,
                     file, calls, astray>>

\* An entry written by a call that was crossed may be under a salt that is gone.
Strayed(r, k) == IF r.crossed /\ level'[k] # None THEN astray \cup {k} ELSE astray \ {k}

\* The value put back is the one that was read.
Reencrypt(c) ==
  LET r == call[c]
  IN  /\ r.at = "reput"
      /\ IF r.todo = Unread
           THEN Set(c, IF r.seen = None THEN Idle ELSE Closing(r)) /\ UNCHANGED <<level, astray>>
           ELSE \E k \in {j \in Keys : r.todo[j] # Absent} :
                  /\ level' = [level EXCEPT ![k] = Entry(r.salt, r.password, r.todo[k])]
                  /\ Set(c, [r EXCEPT !.todo[k] = Absent])
                  /\ astray' = Strayed(r, k)
      /\ UNCHANGED <<salt, nextSalt, cache, salting, lock, contract, password, opens, file, calls>>

Write(c) ==
  LET r == call[c]
  IN  /\ r.at = "write"
      /\ level' = [level EXCEPT ![r.key] =
                     IF r.op = "set" THEN Entry(r.salt, r.password, r.val) ELSE None]
      /\ Set(c, Closing(r))
      /\ astray' = Strayed(r, r.key)
      /\ UNCHANGED <<salt, nextSalt, cache, salting, lock, contract, password, opens, file, calls>>

\* The states of an export: those of the contract selected when the entries are in.
Exported(seen) == [id \in Ids |-> seen[<<contract, id>>]]

\* The primitive is over, and with it the call, or an import goes on.
Close(c) ==
  LET r == call[c]
      f == Exported(r.seen)
      n == Cardinality({id \in Ids : f[id] # Absent})
  IN  /\ r.at = "close" /\ r.job \in {"get", "set", "remove", "export"}
      /\ IF r.job = "export"
           THEN IF n \in 1..MaxStates THEN Go(c, "returned") /\ file' = {f}
                                      ELSE Throws(c) /\ UNCHANGED file
           ELSE Go(c, "returned") /\ UNCHANGED file
      /\ UNCHANGED <<level, salt, nextSalt, cache, salting, lock, contract, password, opens, calls, astray>>

\* Import, after a get: the next id is asked for, or the state is set; an id in
\* conflict is passed over by "skip", and by "error" only before anything is written.
Returned(r) == [r EXCEPT !.at = "returned", !.phase = "none", !.mode = "none", !.states = None]

Ask(r, ids) == {Primitive([r EXCEPT !.ids = ids \ {id}], "get", id) : id \in ids}

AfterAsked(r) ==
  IF r.phase \in {"precheck", "conflict"}
    THEN LET found == [r EXCEPT !.phase = IF r.seen # Absent THEN "conflict" ELSE @]
         IN  IF r.ids # {} THEN Ask(found, r.ids)
             ELSE IF found.phase = "conflict" THEN {Idle}
             ELSE Ask([r EXCEPT !.phase = "import"], {id \in Ids : r.states[id] # Absent})
  ELSE IF r.seen # Absent /\ r.mode = "skip"
    THEN IF r.ids = {} THEN {Returned(r)} ELSE Ask(r, r.ids)
  ELSE {Primitive([r EXCEPT !.val = r.states[r.id]], "set", r.id)}

AfterSet(r) == IF r.ids = {} THEN {Returned(r)} ELSE Ask(r, r.ids)

ImportGoesOn(c) ==
  /\ call[c].at = "close" /\ call[c].job = "import"
  /\ \E r \in (IF call[c].op = "get" THEN AfterAsked(call[c]) ELSE AfterSet(call[c])) : Set(c, r)
  /\ UNCHANGED <<level, salt, nextSalt, cache, salting, lock, contract, password, opens, file, calls, astray>>

-----------------------------------------------------------------------------
(* Rotation.                                                                *)

Entries == {k \in Keys : level[k] # None}

\* Releasing the lock resolves the promise that its waiters await.
Released(c) ==
  call' = [d \in Slots |-> IF d = c THEN Idle
                            ELSE IF call[d].at = "wait" THEN [call[d] EXCEPT !.at = "check"]
                            ELSE call[d]]

\* Every entry decrypted under the old password; one that does not open, or too
\* many, and the rotation throws; with none, or none of this contract, nothing is migrated.
RotationScan(c) ==
  LET r   == call[c]
      own == {k \in Entries : k[1] = r.under}
      key == [r EXCEPT !.password = password]
  IN  /\ r.at = "scan"
      /\ IF /\ Cardinality(Entries) <= MaxEntries
            /\ \A k \in Entries : level[k].fmt # "plain" /\ Decrypts(key, level[k])
           THEN /\ Set(c, IF own = {} THEN [r EXCEPT !.at = "rotated"]
                                     ELSE [r EXCEPT !.seen = Plain, !.at = "batch"])
                /\ UNCHANGED lock
           ELSE Released(c) /\ lock' = None
      /\ UNCHANGED <<level, salt, nextSalt, cache, salting, contract, password, opens,
                     file, calls, astray>>

\* All the entries, and the metadata, in one batch.
RotationBatch(c) ==
  LET r == call[c]
  IN  /\ r.at = "batch"
      /\ level' = [k \in Keys |-> IF r.seen[k] = Absent THEN level[k]
                                   ELSE Entry(nextSalt, r.password, r.seen[k])]
      /\ salt' = nextSalt /\ nextSalt' = nextSalt + 1
      /\ opens' = r.password
      /\ astray' = {k \in astray : r.seen[k] = Absent}
      /\ Go(c, "rotated")
      /\ UNCHANGED <<cache, salting, lock, contract, password, file, calls>>

\* The cache is emptied, the lock released, and the caller told.
RotationReturns(c) ==
  /\ call[c].at = "rotated"
  /\ cache' = {}
  /\ lock' = None
  /\ Released(c)
  /\ password' = IF call[c].seen = None THEN password ELSE call[c].password
  /\ UNCHANGED <<level, salt, nextSalt, salting, contract, opens, file, calls, astray>>

-----------------------------------------------------------------------------
(* Failures and the application.                                            *)

\* An await rejects: the level does not open, or a read, a write or the closing
\* fails.  Who joined a salt promise fails with it; a rotation releases the lock.
Throw(c) ==
  LET rotates == call[c].op = "rotate"
  IN  /\ call[c].at \in InFlight
      /\ call' = [d \in Slots |->
                    IF d = c THEN Idle
                    ELSE IF salting = c /\ call[d].at = "join" THEN [call[d] EXCEPT !.at = "doomed"]
                    ELSE IF rotates /\ call[d].at = "wait" THEN [call[d] EXCEPT !.at = "check"]
                    ELSE call[d]]
      /\ salting' = IF salting = c THEN None ELSE salting
      /\ lock' = IF rotates THEN None ELSE lock
      /\ password' = IF rotates THEN opens ELSE password
      /\ UNCHANGED <<level, salt, nextSalt, cache, contract, opens, file, calls, astray>>

\* The caller has its answer.
Take(c) ==
  /\ call[c].at = "returned"
  /\ Set(c, Idle)
  /\ UNCHANGED <<level, salt, nextSalt, cache, salting, lock, contract, password, opens, file, calls, astray>>

\* clear() waits for no rotation, and deletes the metadata as well.
Clear ==
  /\ calls < MaxCalls /\ calls' = calls + 1
  /\ level' = [k \in Keys |-> None] /\ salt' = 0
  /\ call' = Crossed /\ astray' = {}
  /\ UNCHANGED <<nextSalt, cache, salting, lock, contract, password, opens, file>>

SetContractAddress ==
  /\ calls < MaxCalls /\ calls' = calls + 1
  /\ contract' \in Contracts \ {contract}
  /\ UNCHANGED <<level, salt, nextSalt, cache, salting, lock, call, password, opens, file, astray>>

InvalidateEncryptionCache ==
  /\ cache # {} /\ cache' = {}
  /\ UNCHANGED <<level, salt, nextSalt, salting, lock, call, contract, password, opens, file, calls, astray>>

\* migrateToAccountScoped: a batch of every pair of the old level, its metadata too,
\* however often it ran before and whatever the level holds by now.
Migrate ==
  LET copied == {k \in Keys : OldLevel.entries[k] # None}
      kept   == IF salt \in {0, salt'} THEN astray ELSE Keys
  IN  /\ calls < MaxCalls /\ calls' = calls + 1
      /\ level' = [k \in Keys |-> IF k \in copied THEN OldLevel.entries[k] ELSE level[k]]
      /\ salt' = IF OldLevel.salt = 0 THEN salt ELSE OldLevel.salt
      /\ call' = Crossed
      /\ astray' = IF lock = None /\ OldLevel.password = opens THEN kept \ copied
                   ELSE kept \cup copied
      /\ UNCHANGED <<nextSalt, cache, salting, lock, contract, password, opens, file>>

\* The process ends; the database and an export stay.
Crash ==
  /\ call # [c \in Slots |-> Idle]
  /\ call' = [c \in Slots |-> Idle]
  /\ cache' = {} /\ salting' = None /\ lock' = None
  /\ password' = opens
  /\ UNCHANGED <<level, salt, nextSalt, contract, opens, file, calls, astray>>

-----------------------------------------------------------------------------
Init ==
  /\ \E l \in Levels : level = l.entries /\ salt = l.salt /\ password = l.password
                        /\ opens = l.password
  /\ nextSalt = 2
  /\ cache = {} /\ salting = None /\ lock = None
  /\ call = [c \in Slots |-> Idle]
  /\ contract \in Contracts
  /\ file = Files
  /\ calls = 0 /\ astray = {}

\* What a call does when nothing holds it up and nothing fails.
Proceeds(c) ==
  \/ Recheck(c) \/ Past(c) \/ ReadSalt(c) \/ PutSalt(c) \/ Salted(c) \/ TakeKey(c)
  \/ Read(c) \/ Reencrypt(c) \/ Write(c) \/ Close(c) \/ ImportGoesOn(c)

Rotates(c) == RotationScan(c) \/ RotationBatch(c) \/ RotationReturns(c)

Starts(c) ==
  Get(c) \/ SetState(c) \/ Remove(c) \/ Export(c) \/ Import(c) \/ ChangePassword(c)

Next ==
  \/ \E c \in Slots : Starts(c) \/ Expire(c) \/ Proceeds(c) \/ Rotates(c) \/ Throw(c) \/ Take(c)
  \/ Clear
  \/ SetContractAddress
  \/ InvalidateEncryptionCache
  \/ Migrate
  \/ Crash

Spec == Init /\ [][Next]_vars

-----------------------------------------------------------------------------
(* What the provider promises.                                              *)

\* What a call asks of the store.  A set and a remove have no key before they are past
\* the lock.
Request(r) ==
  IF r.at = "idle" THEN None
  ELSE IF r.op \in {"scan", "rotate"} THEN [kind |-> r.op]
  ELSE IF r.op = "get" THEN [kind |-> "get", key |-> <<r.under, r.id>>]
  ELSE [kind |-> "set", id |-> r.id, key |-> r.key, val |-> IF r.op = "set" THEN r.val ELSE Absent]

Answer(r) ==
  IF r.at = "idle" \/ r.op = "rotate" THEN None
  ELSE IF r.op \in {"get", "scan"} THEN r.seen
  ELSE IF r.at \in {"close", "returned"} THEN Done ELSE None

Held(r) == IF r.at = "reput" THEN r.todo ELSE IF r.at = "batch" THEN r.seen ELSE Unread

Store == INSTANCE PrivateStore WITH
  Nothing <- None, Unanswered <- None,
  Old <- [k \in Keys |-> IF OldLevel.entries[k] = None THEN Absent ELSE OldLevel.entries[k].val],
  content <- Plain,
  outdated <- Outdated,
  asked <- [c \in Slots |-> Request(call[c])],
  answer <- [c \in Slots |-> Answer(call[c])],
  held <- [c \in Slots |-> Held(call[c])]

\* The provider is a store whose gets and exports answer what it held at one moment of
\* the call, the get under the contract selected when it was called; whose sets and
\* removes write once, under a contract selected between their call and their write;
\* where a reader may put back what it read, once, only of an entry in an older format,
\* and a rotation what it read, all at once; and where nothing else changes a value:
\* no new salt, no failure and no crash.
StoreSpec == Store!Spec

\* While a rotation holds the lock no other call gets past it: not a call that begins,
\* not one that waits, not the next get or set of an import.
Outside == Resting \cup Resumed \cup {"close"}

NoneEnters ==
  \A c \in Slots \ {lock} :
    lock # None /\ lock' = lock /\ call[c].at \in Outside => call'[c].at \in Outside

RotationShutsOut == [][NoneEnters]_vars

\* The salt of the metadata and the password the level is under open every entry but
\* those astray: what no crossed call wrote, no crossed call's new salt left behind, and
\* no migration put out of reach, can be read.  A call that was not crossed holds the
\* key of the level from when it has it to its last write, and makes a salt only when
\* there is none.
OneKeyOpensAll ==
  /\ \A k \in Entries \ astray : level[k].fmt # "plain" =>
        level[k].salt = salt /\ level[k].password = opens
  /\ \A c \in Slots : ~call[c].crossed =>
        /\ call[c].at \in {"read", "reput", "write"} /\ call[c].op # "remove" =>
             call[c].salt = salt /\ call[c].password = opens
        /\ call[c].at = "newsalt" => salt = 0

\* A migration leaves a level that one password opens such a level: running it several
\* times is documented to be safe.
OnePassword ==
  \E pw \in Passwords : \A k \in Entries :
    level[k].fmt # "plain" => level[k].salt = salt /\ level[k].password = pw

MigratesSafely == [][Migrate /\ OnePassword => OnePassword']_vars

\* A get that waits for a rotation is over, or has thrown, some time after the timeout
\* has passed, whatever the rotation does: get is documented to throw when a rotation
\* does not release its lock.
ReadTimesOut ==
  \A c \in Slots : (call[c].job = "get" /\ call[c].at = "wait") ~> call[c].at # "wait"

\* The clock runs and calls go on as soon as nothing holds them up; of the steps of a
\* rotation nothing is assumed, so that it may never release its lock.
StuckSpec ==
  /\ Spec
  /\ \A c \in Slots : WF_vars(Expire(c)) /\ WF_vars(Proceeds(c))

-----------------------------------------------------------------------------
(* The invariant the proofs go by.                                          *)

Values  == Vals \cup {Absent}
States  == [Ids -> Values]
Content == [Keys -> Values]
Stored  == [fmt : {"v2", "v1", "plain"}, salt : Nat, password : Passwords \cup {None}, val : Vals]

ASSUME NamesAssumption ==
  /\ Absent \notin Vals /\ Done # None
  /\ None \notin Slots \cup Keys \cup Values \cup Content \cup Stored \cup Store!Requests
ASSUME FilesAssumption == Files \subseteq States
ASSUME LevelsAssumption ==
  \A l \in Levels \cup {OldLevel} :
    /\ l.entries \in [Keys -> Stored \cup {None}] /\ l.salt \in Nat
    /\ l.password \in Passwords
    /\ \A k \in Keys : l.entries[k] # None /\ l.entries[k].fmt # "plain" =>
         l.salt # 0 /\ l.entries[k].salt = l.salt /\ l.entries[k].password = l.password

Salters == {"salt", "newsalt", "salted"}
Stages  == Resting \cup Resumed \cup InFlight \cup {"join"}

Running ==
  [job : {"none", "get", "set", "remove", "export", "import", "rotate"},
   op : {"none", "get", "set", "remove", "scan", "rotate"}, at : Stages,
   under : Contracts \cup {None}, id : Ids \cup {None}, val : Values, key : Keys \cup {None},
   salt : Nat, password : Passwords \cup {None}, late : BOOLEAN, todo : Content,
   seen : Values \cup Content \cup {None}, phase : {"none", "precheck", "conflict", "import"},
   mode : {"none", "skip", "overwrite", "error"}, ids : SUBSET Ids, states : States \cup {None},
   crossed : BOOLEAN]

TypeOK ==
  /\ level \in [Keys -> Stored \cup {None}] /\ salt \in Nat /\ nextSalt \in Nat \ {0}
  /\ call \in [Slots -> Running] /\ contract \in Contracts
  /\ password \in Passwords \cup {None} /\ opens \in Passwords \cup {None}
  /\ file \subseteq States

\* Entries that are encrypted and not astray open, and are there only once there is a salt.
EntriesOpen ==
  \A k \in Keys \ astray : level[k] # None /\ level[k].fmt # "plain" =>
    salt # 0 /\ level[k].salt = salt /\ level[k].password = opens

\* The provider answers the password the level is under, but for the time between the
\* batch of a rotation and its return.
PasswordKnown ==
  (\A c \in Slots : ~(call[c].at = "rotated" /\ call[c].seen # None)) => password = opens

\* One call at a time makes a salt.  A call that is not crossed makes one only if there is
\* none, and knows it from then on.
HasSalt(r) ==
  /\ r.op # "rotate" /\ ~r.crossed
  /\ r.at \in {"salted", "key", "read", "reput"} \/ (r.at = "write" /\ r.op # "remove")

SaltKnown(c, r) ==
  /\ r.at \in Salters => salting = c
  /\ r.at = "newsalt" /\ ~r.crossed => salt = 0
  /\ HasSalt(r) => salt # 0 /\ r.salt = salt

KeyKnown(r) == HasSalt(r) /\ r.at \in {"read", "reput", "write"} => r.password = opens

\* Where a crossed call is about to replace a salt, no other call relies on it.
NewSaltAlone ==
  \A c, d \in Slots : call[c].at = "newsalt" /\ d # c => ~HasSalt(call[d])

\* While a rotation holds the lock no other call is past it, but those it crossed; what
\* its batch will not replace is astray.
RotatesAlone(c, r) ==
  /\ r.op = "rotate" =>
       /\ r.at \notin Resumed => lock = c
       /\ r.at \in Resumed \cup Salters \cup {"past", "join", "doomed", "key", "scan", "batch", "rotated"}
       /\ r.at \notin {"batch", "rotated"} => r.seen = None
  /\ r.at \in {"scan", "batch", "rotated"} => r.op = "rotate"
  /\ lock \notin {None, c} /\ ~r.crossed => r.at \in Resting \cup Resumed
  /\ r.at = "batch" =>
       r.seen \in Content /\ \A k \in Keys \ astray : r.seen[k] = Absent => level[k] = None
  /\ r.at = "rotated" /\ r.seen # None => r.password = opens

\* What is asked for is a key, and what is set a value; a scan reads whole contents, and
\* an import takes what its file has.
SetsValues(r) ==
  /\ r.op \in {"get", "set", "remove"} => r.under \in Contracts /\ r.id \in Ids
  /\ r.op = "get" /\ r.at \in Salters \cup {"join", "key", "read"} => r.key \in Keys
  /\ r.job = "export" => r.op = "scan"
  /\ r.op = "scan" => \/ r.seen = None /\ r.at # "close"
                      \/ r.seen \in Content /\ r.at \in {"reput", "close", "returned"}
  /\ r.at = "write" => r.op \in {"set", "remove"}
  /\ r.op = "set" => r.val \in Vals
  /\ r.job = "import" /\ r.at # "returned" =>
       /\ r.states \in States /\ r.id \in Ids
       /\ \A id \in r.ids \cup {r.id} : r.states[id] # Absent

CallFits(c, r) == SaltKnown(c, r) /\ KeyKnown(r) /\ RotatesAlone(c, r) /\ SetsValues(r)

IInv ==
  /\ TypeOK /\ EntriesOpen /\ PasswordKnown /\ NewSaltAlone
  /\ \A c \in Slots : CallFits(c, call[c])

\* What StoreSpec needs besides: a call works on the key it was asked for, a set and a
\* remove on one of their id, and has no answer before it reads.
WorksOnRequest(r) ==
  /\ r.op = "get" /\ r.at \in Salters \cup {"join", "key", "read"} => r.key = <<r.under, r.id>>
  /\ r.op \in {"set", "remove"} /\ r.at \in Resumed \cup {"past"} => r.key = None
  /\ r.op \in {"set", "remove"} /\ r.at \in Salters \cup {"join", "key", "write"} => r.key \in Keys
  /\ r.op = "none" => r.at = "idle"
  /\ r.op = "remove" => r.at \notin Salters \cup {"join", "key"}
  /\ r.at \in {"read", "reput"} => r.op \in {"get", "scan"}
  /\ r.op \in {"get", "scan"} /\ r.at \notin {"reput", "close", "returned"} => r.seen = None
  /\ r.op = "get" /\ r.at = "close" => r.seen # None

RInv == \A c \in Slots : WorksOnRequest(call[c])
=============================================================================
