------------------------ MODULE PrivateStatesProofs -------------------------
(***************************************************************************)
(* Proofs about PrivateStates: for any contracts, ids, values, passwords   *)
(* and number of calls.                                                    *)
(***************************************************************************)
EXTENDS PrivateStates, TLAPS

-----------------------------------------------------------------------------
(* Records of calls.  What a primitive never changes of its call:          *)
Keeps(s, r) ==
  /\ s.job = r.job /\ s.op = r.op /\ s.id = r.id /\ s.val = r.val
  /\ s.ids = r.ids /\ s.states = r.states /\ s.under = r.under /\ s.crossed = r.crossed

LEMMA UnreadFits == Unread \in Content
BY DEF Unread, Content, Values

LEMMA IdleRuns ==
  /\ Idle \in Running /\ Idle.at = "idle" /\ Idle.op = "none" /\ Idle.job = "none"
  /\ Idle.ids = {} /\ Idle.seen = None /\ Idle.states = None /\ Idle.crossed = FALSE
<1>1. PICK T \in Content : T = Unread
  BY UnreadFits
<1> QED
  BY <1>1 DEF Idle, Running, Stages, Resting, Values

LEMMA Gone ==
  ASSUME NEW r \in Running, NEW at \in Stages, NEW s, s = [r EXCEPT !.at = at]
  PROVE  /\ s \in Running /\ Keeps(s, r) /\ s.at = at
         /\ s.salt = r.salt /\ s.password = r.password /\ s.seen = r.seen /\ s.key = r.key
BY DEF Running, Keeps

LEMMA Late ==
  ASSUME NEW r \in Running, NEW s, NEW late \in BOOLEAN, s = [r EXCEPT !.late = late]
  PROVE  /\ s \in Running /\ Keeps(s, r) /\ s.at = r.at
         /\ s.salt = r.salt /\ s.password = r.password /\ s.seen = r.seen /\ s.key = r.key
BY DEF Running, Keeps

Passes(r) == [r EXCEPT !.at = "past", !.late = FALSE]

LEMMA Passed ==
  ASSUME NEW r \in Running, NEW s, s = Passes(r)
  PROVE  /\ s \in Running /\ Keeps(s, r) /\ s.at = "past"
         /\ s.salt = r.salt /\ s.password = r.password /\ s.seen = r.seen /\ s.key = r.key
<1>1. PICK x : x = [r EXCEPT !.at = "past"]
  OBVIOUS
<1>2. "past" \in Stages
  BY DEF Stages, InFlight
<1>3. /\ x \in Running /\ Keeps(x, r) /\ x.at = "past"
      /\ x.salt = r.salt /\ x.password = r.password /\ x.seen = r.seen /\ x.key = r.key
  BY <1>1, <1>2, Gone
<1>4. s = [x EXCEPT !.late = FALSE]
  BY <1>1 DEF Passes
<1>5. /\ s \in Running /\ Keeps(s, x) /\ s.at = x.at
      /\ s.salt = x.salt /\ s.password = x.password /\ s.seen = x.seen /\ s.key = x.key
  BY <1>3, <1>4, Late
<1> QED
  BY <1>3, <1>5 DEF Keeps

LEMMA Keyed ==
  ASSUME NEW r \in Running, NEW key \in Keys \cup {None}, NEW s, s = [r EXCEPT !.key = key]
  PROVE  /\ s \in Running /\ Keeps(s, r) /\ s.at = r.at
         /\ s.salt = r.salt /\ s.password = r.password /\ s.seen = r.seen /\ s.key = key
BY DEF Running, Keeps

LEMMA SaltTold ==
  ASSUME NEW r \in Running, NEW n \in Nat, NEW s, s = [r EXCEPT !.salt = n]
  PROVE  /\ s \in Running /\ Keeps(s, r) /\ s.at = r.at
         /\ s.salt = n /\ s.password = r.password /\ s.seen = r.seen /\ s.key = r.key
BY DEF Running, Keeps

LEMMA PasswordTold ==
  ASSUME NEW r \in Running, NEW p \in Passwords \cup {None}, NEW s, s = [r EXCEPT !.password = p]
  PROVE  /\ s \in Running /\ Keeps(s, r) /\ s.at = r.at
         /\ s.salt = r.salt /\ s.password = p /\ s.seen = r.seen /\ s.key = r.key
BY DEF Running, Keeps

LEMMA Answered ==
  ASSUME NEW r \in Running, NEW x \in Values \cup Content \cup {None}, NEW s, s = [r EXCEPT !.seen = x]
  PROVE  /\ s \in Running /\ Keeps(s, r) /\ s.at = r.at
         /\ s.salt = r.salt /\ s.password = r.password /\ s.seen = x /\ s.key = r.key
BY DEF Running, Keeps

Unmoved(s, r) ==
  /\ s \in Running /\ Keeps(s, r) /\ s.at = r.at
  /\ s.salt = r.salt /\ s.password = r.password /\ s.seen = r.seen /\ s.key = r.key

LEMMA ToDo ==
  ASSUME NEW r \in Running, NEW T \in Content, NEW s, s = [r EXCEPT !.todo = T]
  PROVE  Unmoved(s, r)
BY DEF Running, Keeps, Unmoved

(* A call is told its key, and goes on.                                    *)
WithKey(r, n, p, at) == [r EXCEPT !.salt = n, !.password = p, !.at = at]

HasKey(s, r, n, p, at) ==
  /\ s \in Running /\ Keeps(s, r) /\ s.at = at /\ s.salt = n /\ s.password = p
  /\ s.seen = r.seen /\ s.key = r.key

LEMMA KeyTold ==
  ASSUME NEW r \in Running, NEW n \in Nat, NEW p \in Passwords \cup {None}, NEW at \in Stages,
         NEW s, s = WithKey(r, n, p, at)
  PROVE  HasKey(s, r, n, p, at)
<1>1. PICK x : x = [r EXCEPT !.salt = n]
  OBVIOUS
<1>2. x \in Running /\ Keeps(x, r) /\ x.salt = n /\ x.seen = r.seen /\ x.key = r.key
  BY <1>1, SaltTold
<1>3. PICK y : y = [x EXCEPT !.password = p]
  OBVIOUS
<1>4. y \in Running /\ Keeps(y, x) /\ y.password = p /\ y.salt = x.salt /\ y.seen = x.seen /\ y.key = x.key
  BY <1>2, <1>3, PasswordTold
<1>5. s = [y EXCEPT !.at = at]
  BY <1>1, <1>3 DEF WithKey
<1>6. /\ s \in Running /\ Keeps(s, y) /\ s.at = at
      /\ s.salt = y.salt /\ s.password = y.password /\ s.seen = y.seen /\ s.key = y.key
  BY <1>4, <1>5, Gone
<1> QED
  BY <1>2, <1>4, <1>6 DEF Keeps, HasKey

(* A call has read, and is to re-encrypt.                                  *)
WithSeen(r, seen, T) == [r EXCEPT !.seen = seen, !.todo = T, !.at = "reput"]

HasSeen(s, r, seen, T) ==
  /\ s \in Running /\ Keeps(s, r) /\ s.at = "reput" /\ s.seen = seen /\ s.todo = T
  /\ s.salt = r.salt /\ s.password = r.password /\ s.key = r.key

LEMMA SeenTold ==
  ASSUME NEW r \in Running, NEW seen \in Values \cup Content \cup {None},
         NEW T \in Content, NEW s, s = WithSeen(r, seen, T)
  PROVE  HasSeen(s, r, seen, T)
<1>1. PICK x : x = [r EXCEPT !.seen = seen]
  OBVIOUS
<1>2. /\ x \in Running /\ Keeps(x, r) /\ x.seen = seen /\ x.salt = r.salt /\ x.password = r.password
      /\ x.key = r.key
  BY <1>1, Answered
<1>3. PICK y : y = [x EXCEPT !.todo = T]
  OBVIOUS
<1>4. Unmoved(y, x)
  BY <1>2, <1>3, ToDo
<1>5. y.todo = T
  BY <1>2, <1>3 DEF Running
<1>6. s = [y EXCEPT !.at = "reput"]
  BY <1>1, <1>3 DEF WithSeen
<1>7. /\ s \in Running /\ Keeps(s, y) /\ s.at = "reput" /\ s.seen = y.seen /\ s.salt = y.salt
      /\ s.password = y.password /\ s.key = y.key
  <2>1. "reput" \in Stages /\ y \in Running
    BY <1>4 DEF Stages, InFlight, Unmoved
  <2> QED
    BY <1>6, <2>1, Gone
<1>8. s.todo = T
  <2>1. y \in Running
    BY <1>4 DEF Unmoved
  <2> QED
    BY <1>5, <1>6, <2>1 DEF Running
<1> QED
  BY <1>2, <1>4, <1>7, <1>8 DEF Unmoved, Keeps, HasSeen

LEMMA Closed ==
  ASSUME NEW r \in Running, NEW s, s = Closing(r)
  PROVE  s \in Running /\ Keeps(s, r) /\ s.at = "close" /\ s.seen = r.seen /\ s.key = r.key
<1>1. "close" \in Stages /\ None \in Passwords \cup {None} /\ 0 \in Nat
  BY DEF Stages, InFlight
<1>2. s = WithKey(r, 0, None, "close")
  BY DEF Closing, WithKey
<1>3. HasKey(s, r, 0, None, "close")
  BY <1>1, <1>2, KeyTold
<1> QED
  BY <1>3 DEF HasKey

(* Whether it was crossed is told.                                         *)
LEMMA CrossTold ==
  ASSUME NEW r \in Running, NEW b \in BOOLEAN, NEW s, s = [r EXCEPT !.crossed = b]
  PROVE  /\ s \in Running /\ s.job = r.job /\ s.op = r.op /\ s.id = r.id /\ s.val = r.val
         /\ s.ids = r.ids /\ s.states = r.states /\ s.under = r.under /\ s.crossed = b /\ s.at = r.at
         /\ s.salt = r.salt /\ s.password = r.password /\ s.seen = r.seen /\ s.key = r.key
         /\ s.todo = r.todo
BY DEF Running

(* A primitive of a call begins, waiting or not.                           *)
Begins(s, r, prim, id) ==
  /\ s \in Running /\ s.at = (IF lock = None THEN "past" ELSE "wait")
  /\ s.job = r.job /\ s.op = prim /\ s.id = id /\ s.val = r.val /\ s.ids = r.ids
  /\ s.states = r.states /\ s.under = contract /\ s.seen = None /\ s.key = None /\ ~s.crossed

LEMMA Named ==
  ASSUME NEW r \in Running, NEW prim \in {"get", "set", "remove", "scan"}, NEW s, s = [r EXCEPT !.op = prim]
  PROVE  /\ s \in Running /\ s.job = r.job /\ s.op = prim /\ s.val = r.val
         /\ s.ids = r.ids /\ s.states = r.states
BY DEF Running

LEMMA IdTold ==
  ASSUME NEW r \in Running, NEW id \in Ids \cup {None}, NEW s, s = [r EXCEPT !.id = id]
  PROVE  /\ s \in Running /\ s.job = r.job /\ s.op = r.op /\ s.id = id /\ s.val = r.val
         /\ s.ids = r.ids /\ s.states = r.states
BY DEF Running

LEMMA Primed ==
  ASSUME NEW r \in Running, NEW prim \in {"get", "set", "remove", "scan"}, NEW id \in Ids \cup {None},
         contract \in Contracts, NEW s, s = Primitive(r, prim, id)
  PROVE  Begins(s, r, prim, id)
<1>1. PICK C \in Contracts : C = contract
  OBVIOUS
<1>2. PICK a : a = [r EXCEPT !.op = prim, !.id = id]
  OBVIOUS
<1>3. /\ a \in Running /\ a.job = r.job /\ a.op = prim /\ a.id = id /\ a.val = r.val
      /\ a.ids = r.ids /\ a.states = r.states
  <2>1. PICK n : n = [r EXCEPT !.op = prim]
    OBVIOUS
  <2>2. /\ n \in Running /\ n.job = r.job /\ n.op = prim /\ n.val = r.val
        /\ n.ids = r.ids /\ n.states = r.states
    BY <2>1, Named
  <2>3. a = [n EXCEPT !.id = id]
    BY <1>2, <2>1
  <2>4. /\ a \in Running /\ a.job = n.job /\ a.op = n.op /\ a.id = id /\ a.val = n.val
        /\ a.ids = n.ids /\ a.states = n.states
    BY <2>2, <2>3, IdTold
  <2> QED
    BY <2>2, <2>4
<1>4. PICK b : b = [a EXCEPT !.under = C]
  OBVIOUS
<1>5. /\ b \in Running /\ b.job = a.job /\ b.op = a.op /\ b.id = a.id /\ b.val = a.val
      /\ b.ids = a.ids /\ b.states = a.states /\ b.under = C
  BY <1>3, <1>4 DEF Running, Keeps
<1>6. PICK at \in Stages : at = IF lock = None THEN "past" ELSE "wait"
  BY DEF Stages, InFlight, Resumed
<1>16. PICK g : g = [b EXCEPT !.late = FALSE]
  OBVIOUS
<1>17. g \in Running /\ Keeps(g, b)
  BY <1>5, <1>16, Late
<1>7. PICK c : c = WithKey(g, 0, None, at)
  OBVIOUS
<1>8. c \in Running /\ Keeps(c, g) /\ c.at = at
  <2>1. HasKey(c, g, 0, None, at)
    BY <1>7, <1>17, KeyTold
  <2> QED
    BY <2>1 DEF HasKey
<1>9. PICK d : d = [c EXCEPT !.key = None]
  OBVIOUS
<1>10. d \in Running /\ Keeps(d, c) /\ d.at = at /\ d.key = None
  BY <1>8, <1>9, Keyed
<1>11. PICK e : e = [d EXCEPT !.todo = Unread]
  OBVIOUS
<1>12. e \in Running /\ Keeps(e, d) /\ e.at = at /\ e.key = None
  <2>1. PICK T \in Content : T = Unread
    BY UnreadFits
  <2>2. Unmoved(e, d)
    BY <1>10, <1>11, <2>1, ToDo
  <2> QED
    BY <1>10, <2>2 DEF Unmoved
<1>13. PICK f : f = [e EXCEPT !.seen = None]
  OBVIOUS
<1>14. f \in Running /\ Keeps(f, e) /\ f.at = at /\ f.seen = None /\ f.key = None
  BY <1>12, <1>13, Answered
<1>18. PICK h : h = [f EXCEPT !.crossed = FALSE]
  OBVIOUS
<1>19. /\ h \in Running /\ h.job = f.job /\ h.op = f.op /\ h.id = f.id /\ h.val = f.val
       /\ h.ids = f.ids /\ h.states = f.states /\ h.under = f.under /\ h.crossed = FALSE
       /\ h.at = at /\ h.seen = None /\ h.key = None
  <2>1. PICK no \in BOOLEAN : no = FALSE
    OBVIOUS
  <2>2. f \in Running /\ h = [f EXCEPT !.crossed = no]
    BY <1>14, <1>18, <2>1
  <2>3. /\ h \in Running /\ h.job = f.job /\ h.op = f.op /\ h.id = f.id /\ h.val = f.val
        /\ h.ids = f.ids /\ h.states = f.states /\ h.under = f.under /\ h.crossed = no
        /\ h.at = f.at /\ h.seen = f.seen /\ h.key = f.key
    BY <2>2, CrossTold
  <2> QED
    BY <1>14, <2>1, <2>3
<1>15. s = h
  <2>1. PICK x : x = [r EXCEPT !.op = prim, !.id = id, !.under = C, !.key = None, !.salt = 0,
                               !.password = None, !.late = FALSE, !.todo = Unread, !.seen = None,
                               !.crossed = FALSE]
    OBVIOUS
  <2>2. h = [x EXCEPT !.at = at]
    BY <1>2, <1>4, <1>7, <1>9, <1>11, <1>13, <1>16, <1>18, <2>1 DEF WithKey
  <2>3. s = [x EXCEPT !.at = at]
    BY <1>1, <1>6, <2>1 DEF Primitive, Entered
  <2> QED
    BY <2>2, <2>3
<1> QED
  BY <1>1, <1>3, <1>5, <1>6, <1>8, <1>10, <1>12, <1>14, <1>15, <1>17, <1>19 DEF Keeps, Begins

-----------------------------------------------------------------------------
(* A call that rests or waits holds no key.                                *)
Harmless(r) ==
  /\ r.at \in Resting \cup Resumed /\ SetsValues(r)
  /\ r.op = "rotate" => r.at \in Resumed /\ r.seen = None

LEMMA HarmlessFits ==
  ASSUME NEW c, NEW r, Harmless(r)
  PROVE  CallFits(c, r)' /\ ~HasSalt(r)
BY DEF Harmless, CallFits, SaltKnown, HasSalt, KeyKnown, RotatesAlone, SetsValues, Resting, Resumed, Salters

LEMMA IdleFits ==
  ASSUME NEW c
  PROVE  CallFits(c, Idle) /\ CallFits(c, Idle)' /\ ~HasSalt(Idle)
BY IdleRuns DEF CallFits, SaltKnown, HasSalt, KeyKnown, RotatesAlone, SetsValues, Resting, Resumed, Salters

(* No entry comes about that a batch would leave under another salt.       *)
NoneNew == \A k \in Keys \ astray' : level'[k] # None => k \notin astray /\ level[k] # None

LEMMA FitStays ==
  ASSUME NEW c, NEW r, CallFits(c, r), UNCHANGED <<salt, lock, opens>>,
         salting = c => salting' = c, r.at = "batch" => NoneNew
  PROVE  CallFits(c, r)'
<1>1. SaltKnown(c, r)' /\ KeyKnown(r)' /\ SetsValues(r)
  BY DEF CallFits, SaltKnown, KeyKnown, HasSalt
<1>2. RotatesAlone(c, r)'
  BY DEF CallFits, RotatesAlone, NoneNew
<1> QED
  BY <1>1, <1>2 DEF CallFits

LEMMA SameNothingNew ==
  ASSUME UNCHANGED <<level, astray>>
  PROVE  NoneNew
BY DEF NoneNew

(* One call goes on, and touches no entry; it comes to know the salt as    *)
(* the maker of the promise.                                               *)
Lone(c, r) ==
  /\ r.at = "newsalt" => salt = 0
  /\ HasSalt(r) => HasSalt(call[c]) \/ salting = c

LEMMA SaltStaysAlone ==
  ASSUME IInv, NEW c \in Slots, NEW r, call' = [call EXCEPT ![c] = r], Lone(c, r)
  PROVE  NewSaltAlone'
<1> SUFFICES ASSUME NEW a \in Slots, NEW d \in Slots, call'[a].at = "newsalt", d # a, HasSalt(call'[d])
             PROVE  FALSE
  BY DEF NewSaltAlone, HasSalt
<1>1. /\ call'[c] = r /\ \A b \in Slots \ {c} : call'[b] = call[b]
      /\ \A b \in Slots : SaltKnown(b, call[b])
  BY DEF IInv, TypeOK, CallFits
<1>2. CASE a = c
  <2>1. HasSalt(call[d]) /\ salt = 0
    BY <1>1, <1>2 DEF Lone
  <2> QED
    BY <1>1, <2>1 DEF SaltKnown
<1>3. CASE a # c
  <2>1. call[a].at = "newsalt" /\ salting = a
    BY <1>1, <1>3 DEF SaltKnown, Salters
  <2>2. ~HasSalt(call[d])
    BY <2>1 DEF IInv, NewSaltAlone
  <2> QED
    BY <1>1, <1>3, <2>1, <2>2 DEF Lone
<1> QED
  BY <1>2, <1>3

LEMMA OneMoves ==
  ASSUME IInv, NEW c \in Slots, NEW r \in Running, call' = [call EXCEPT ![c] = r],
         UNCHANGED <<level, astray, salt, lock, opens, password>>,
         salting' = salting \/ salting \in {None, c}, nextSalt' \in Nat \ {0},
         contract' \in Contracts, file' \subseteq States,
         (call[c].at # "rotated" /\ r.at # "rotated") \/ password = opens,
         CallFits(c, r)', Lone(c, r)
  PROVE  IInv'
<1>1. /\ TypeOK /\ EntriesOpen /\ PasswordKnown /\ None \notin Slots
      /\ \A d \in Slots : CallFits(d, call[d])
  BY NamesAssumption DEF IInv
<1>2. TypeOK'
  BY <1>1 DEF TypeOK
<1>3. EntriesOpen'
  BY <1>1 DEF EntriesOpen
<1>4. call'[c] = r /\ \A d \in Slots \ {c} : call'[d] = call[d]
  BY <1>1 DEF TypeOK
<1>5. PasswordKnown'
  BY <1>1, <1>4 DEF PasswordKnown
<1>6. ASSUME NEW d \in Slots PROVE CallFits(d, call[d])'
  <2>1. CASE d = c
    BY <1>4, <2>1
  <2>2. CASE d # c
    <3>1. PICK x : x = call[d]
      OBVIOUS
    <3>2. CallFits(d, x)'
      BY <1>1, <2>2, <3>1, FitStays, SameNothingNew
    <3> QED
      BY <1>4, <2>2, <3>1, <3>2
  <2> QED
    BY <2>1, <2>2
<1>7. NewSaltAlone'
  BY SaltStaysAlone
<1> QED
  BY <1>2, <1>3, <1>5, <1>6, <1>7 DEF IInv

(* Who has not the salt, and makes none, is alone.                         *)
LEMMA FarFromSalt ==
  ASSUME NEW c, NEW r, r.at \notin Salters \cup {"key", "read", "reput", "write"} \/ r.op = "rotate",
         r.at # "newsalt"
  PROVE  Lone(c, r)
BY DEF Lone, HasSalt, Salters

LEMMA IdleStep ==
  ASSUME IInv, NEW c \in Slots, call' = [call EXCEPT ![c] = Idle], call[c].at # "rotated",
         UNCHANGED <<level, astray, salt, nextSalt, salting, lock, contract, password, opens, file>>
  PROVE  IInv'
<1>1. Lone(c, Idle)
  BY IdleRuns, FarFromSalt DEF Salters
<1> QED
  BY <1>1, IdleRuns, IdleFits, OneMoves DEF IInv, TypeOK

LEMMA CallType ==
  ASSUME IInv, NEW c \in Slots
  PROVE  call[c] \in Running /\ CallFits(c, call[c])
BY DEF IInv, TypeOK

(* Calls begin.                                                            *)
LEMMA JobGiven ==
  ASSUME NEW job \in {"get", "set", "remove", "export", "import", "rotate"}, NEW r, r = [Idle EXCEPT !.job = job]
  PROVE  /\ r \in Running /\ r.job = job /\ r.op = "none" /\ r.at = "idle" /\ r.seen = None /\ r.ids = {}
         /\ ~r.crossed
BY IdleRuns DEF Running

(* A primitive that a call may begin.                                      *)
Fitting(r, prim, id) ==
  /\ r \in Running /\ prim \in {"get", "set", "remove", "scan"} /\ id \in Ids \cup {None}
  /\ prim # "scan" => id \in Ids
  /\ r.job = "export" => prim = "scan"
  /\ prim = "set" => r.val \in Vals
  /\ r.job = "import" => /\ r.states \in States /\ id \in Ids
                         /\ \A i \in r.ids \cup {id} : r.states[i] # Absent

LEMMA PrimitiveSet ==
  ASSUME IInv, NEW c \in Slots, NEW r, NEW prim, NEW id, Fitting(r, prim, id),
         Set(c, Primitive(r, prim, id)), call[c].at # "rotated",
         UNCHANGED <<level, astray, salt, nextSalt, salting, lock, contract, password, opens, file>>
  PROVE  IInv'
<1>1. PICK s : s = Primitive(r, prim, id)
  OBVIOUS
<1>2. Begins(s, r, prim, id)
  <2>1. contract \in Contracts
    BY DEF IInv, TypeOK
  <2> QED
    BY <1>1, <2>1, Primed DEF Fitting
<1>3. SetsValues(s)
  <2>1. contract \in Contracts
    BY DEF IInv, TypeOK
  <2>2. s.at \notin Salters \cup {"join", "key", "read", "close"}
    BY <1>2 DEF Begins, Salters
  <2> QED
    BY <1>2, <2>1, <2>2 DEF Begins, SetsValues, Fitting
<1>4. s.at = (IF lock = None THEN "past" ELSE "wait") /\ s.op # "rotate" /\ s \in Running
  BY <1>2 DEF Begins, Fitting
<1>5. CallFits(c, s)'
  BY <1>3, <1>4 DEF CallFits, SaltKnown, KeyKnown, HasSalt, RotatesAlone, SetsValues, Resting, Resumed, Salters
<1>6. call' = [call EXCEPT ![c] = s]
  BY <1>1 DEF Set
<1>7. Lone(c, s)
  BY <1>4, FarFromSalt DEF Salters
<1> QED
  BY <1>4, <1>5, <1>6, <1>7, OneMoves DEF IInv, TypeOK

LEMMA StateIsSet ==
  ASSUME NEW c \in Slots, SetState(c)
  PROVE  \E r, id : Fitting(r, "set", id) /\ Begin(c, Primitive(r, "set", id))
<1>1. PICK id \in Ids, v \in Vals : Begin(c, Primitive([Idle EXCEPT !.job = "set", !.val = v], "set", id))
  BY DEF SetState
<1>2. PICK x : x = [Idle EXCEPT !.job = "set"]
  OBVIOUS
<1>3. PICK r : r = [x EXCEPT !.val = v]
  OBVIOUS
<1>4. r \in Running /\ r.job = "set" /\ r.val = v
  <2>1. x \in Running /\ x.job = "set"
    BY <1>2, JobGiven
  <2> QED
    BY <1>3, <2>1 DEF Running, Values
<1>5. Begin(c, Primitive(r, "set", id))
  BY <1>1, <1>2, <1>3
<1>6. Fitting(r, "set", id)
  BY <1>4 DEF Fitting
<1> QED
  BY <1>5, <1>6

LEMMA ImportAsks ==
  ASSUME IInv, NEW c \in Slots, Import(c)
  PROVE  \E r, id : Fitting(r, "get", id) /\ Begin(c, Primitive(r, "get", id))
<1>1. PICK f \in file, mode \in {"skip", "overwrite", "error"} :
        LET ids   == {id \in Ids : f[id] # Absent}
            phase == IF mode = "error" THEN "precheck" ELSE "import"
        IN  /\ Cardinality(ids) <= MaxStates
            /\ \E id \in ids :
                 Begin(c, Primitive([Idle EXCEPT !.job = "import", !.mode = mode, !.phase = phase,
                                                 !.states = f, !.ids = ids \ {id}], "get", id))
  BY Zenon DEF Import
<1>2. PICK phase \in {"precheck", "import"} : phase = IF mode = "error" THEN "precheck" ELSE "import"
  OBVIOUS
<1>3. PICK ids \in SUBSET Ids : ids = {id \in Ids : f[id] # Absent}
  OBVIOUS
<1>4. PICK id \in ids :
        Begin(c, Primitive([Idle EXCEPT !.job = "import", !.mode = mode, !.phase = phase,
                                        !.states = f, !.ids = ids \ {id}], "get", id))
  BY <1>1, <1>2, <1>3
<1>5. f \in States
  BY DEF IInv, TypeOK
<1>6. PICK x : x = [Idle EXCEPT !.job = "import"]
  OBVIOUS
<1>7. PICK y : y = [x EXCEPT !.mode = mode]
  OBVIOUS
<1>8. PICK z : z = [y EXCEPT !.phase = phase]
  OBVIOUS
<1>9. PICK t : t = [z EXCEPT !.states = f]
  OBVIOUS
<1>10. PICK r : r = [t EXCEPT !.ids = ids \ {id}]
  OBVIOUS
<1>11. y \in Running /\ y.job = "import"
  <2>1. x \in Running /\ x.job = "import"
    BY <1>6, JobGiven
  <2> QED
    BY <1>7, <2>1 DEF Running
<1>12. z \in Running /\ z.job = "import"
  BY <1>8, <1>11 DEF Running
<1>13. t \in Running /\ t.job = "import" /\ t.states = f
  BY <1>5, <1>9, <1>12 DEF Running
<1>14. r \in Running /\ r.job = "import" /\ r.states = f /\ r.ids = ids \ {id}
  BY <1>3, <1>10, <1>13 DEF Running
<1>15. Begin(c, Primitive(r, "get", id))
  BY <1>4, <1>6, <1>7, <1>8, <1>9, <1>10
<1>16. \A i \in r.ids \cup {id} : r.states[i] # Absent
  BY <1>3, <1>14
<1>17. Fitting(r, "get", id)
  BY <1>3, <1>5, <1>14, <1>16 DEF Fitting
<1> QED
  BY <1>15, <1>17

Asks(c) == Get(c) \/ SetState(c) \/ Remove(c) \/ Export(c) \/ Import(c)

LEMMA AsksPrimitive ==
  ASSUME IInv, NEW c \in Slots, Asks(c)
  PROVE  \E r, prim, id : Fitting(r, prim, id) /\ Begin(c, Primitive(r, prim, id))
<1>1. PICK g : g = [Idle EXCEPT !.job = "get"]
  OBVIOUS
<1>2. PICK m : m = [Idle EXCEPT !.job = "remove"]
  OBVIOUS
<1>3. PICK e : e = [Idle EXCEPT !.job = "export"]
  OBVIOUS
<1>4. g \in Running /\ g.job = "get"
  BY <1>1, JobGiven
<1>5. m \in Running /\ m.job = "remove"
  BY <1>2, JobGiven
<1>6. e \in Running /\ e.job = "export"
  BY <1>3, JobGiven
<1>7. CASE Get(c)
  <2>1. PICK id \in Ids : Begin(c, Primitive(g, "get", id))
    BY <1>1, <1>7 DEF Get
  <2>2. Fitting(g, "get", id)
    BY <1>4 DEF Fitting
  <2> QED
    BY <2>1, <2>2
<1>8. CASE Remove(c)
  <2>1. PICK id \in Ids : Begin(c, Primitive(m, "remove", id))
    BY <1>2, <1>8 DEF Remove
  <2>2. Fitting(m, "remove", id)
    BY <1>5 DEF Fitting
  <2> QED
    BY <2>1, <2>2
<1>9. CASE Export(c)
  <2>1. Begin(c, Primitive(e, "scan", None))
    BY <1>3, <1>9 DEF Export
  <2>2. Fitting(e, "scan", None)
    BY <1>6 DEF Fitting
  <2> QED
    BY <2>1, <2>2
<1>10. CASE SetState(c)
  BY <1>10, StateIsSet
<1>11. CASE Import(c)
  BY <1>11, ImportAsks
<1> QED
  BY <1>7, <1>8, <1>9, <1>10, <1>11 DEF Asks

LEMMA AsksStep ==
  ASSUME IInv, NEW c \in Slots, Asks(c)
  PROVE  IInv'
<1>1. PICK r, prim, id : Fitting(r, prim, id) /\ Begin(c, Primitive(r, prim, id))
  BY AsksPrimitive
<1>2. call[c].at # "rotated" /\ Set(c, Primitive(r, prim, id))
  BY <1>1, IdleRuns DEF Begin
<1>3. UNCHANGED <<level, astray, salt, nextSalt, salting, lock, contract, password, opens, file>>
  BY DEF Asks, Get, SetState, Remove, Export, Import
<1> QED
  BY <1>1, <1>2, <1>3, PrimitiveSet

(* A rotation, clear() or a migration crosses the calls past the lock.     *)
Cross(x) == [x EXCEPT !.crossed = x.crossed \/ x.at \in InFlight \cup {"join"}]

LEMMA AllCrossed == \A d \in Slots : Crossed[d] = Cross(call[d])
BY DEF Crossed, Cross, Inside

LEMMA CrossFits ==
  ASSUME NEW d \in Slots, NEW x \in Running, CallFits(d, x), UNCHANGED <<salting, opens>>,
         lock' = lock \/ lock = None, lock # None => NoneNew, NEW y, y = Cross(x)
  PROVE  /\ y \in Running /\ CallFits(d, y)' /\ ~HasSalt(y)
         /\ y.at = x.at /\ y.seen = x.seen
<1>1. PICK b \in BOOLEAN : b = (x.crossed \/ x.at \in InFlight \cup {"join"})
  BY DEF Running
<1>2. y = [x EXCEPT !.crossed = b]
  BY <1>1 DEF Cross
<1>3. /\ y \in Running /\ y.job = x.job /\ y.op = x.op /\ y.id = x.id /\ y.val = x.val
      /\ y.ids = x.ids /\ y.states = x.states /\ y.under = x.under /\ y.crossed = b /\ y.at = x.at
      /\ y.salt = x.salt /\ y.password = x.password /\ y.seen = x.seen /\ y.key = x.key
  BY <1>2, CrossTold
<1>4. ~b => x.at \in Resting \cup Resumed
  BY <1>1 DEF Running, Stages
<1>5. ~HasSalt(y)
  BY <1>3, <1>4 DEF HasSalt, Resting, Resumed
<1>6. SaltKnown(d, y)'
  <2>1. y.at = "newsalt" => y.crossed
    BY <1>3, <1>4 DEF Resting, Resumed
  <2>2. y.at \in Salters => salting' = d
    BY <1>3 DEF CallFits, SaltKnown
  <2> QED
    BY <1>5, <2>1, <2>2 DEF SaltKnown, HasSalt
<1>7. KeyKnown(y)'
  BY <1>5 DEF KeyKnown, HasSalt
<1>8. SetsValues(y)
  BY <1>3 DEF CallFits, SetsValues
<1>9. RotatesAlone(d, y)'
  <2>1. y.op = "rotate" /\ y.at \notin Resumed => lock' = d /\ lock = d
    BY <1>3, NamesAssumption DEF CallFits, RotatesAlone
  <2>2. lock' \notin {None, d} /\ ~y.crossed => y.at \in Resting \cup Resumed
    BY <1>3, <1>4
  <2>3. y.at = "batch" => y.seen \in Content /\ \A k \in Keys \ astray' : y.seen[k] = Absent => level'[k] = None
    BY <1>3, NamesAssumption DEF CallFits, RotatesAlone, NoneNew, Resumed
  <2>4. y.at = "rotated" /\ y.seen # None => y.password = opens'
    BY <1>3 DEF CallFits, RotatesAlone
  <2> QED
    BY <1>3, <2>1, <2>2, <2>3, <2>4 DEF CallFits, RotatesAlone
<1> QED
  BY <1>3, <1>5, <1>6, <1>7, <1>8, <1>9 DEF CallFits

(* The lock is taken: whoever is past it was crossed, and who is not past  *)
(* it waits.                                                               *)
LEMMA LockTaken ==
  ASSUME IInv, NEW c \in Slots, lock = None, lock' = c, NEW r \in Running,
         r.op = "rotate", r.at = "past", r.seen = None, SetsValues(r), call[c].at # "rotated",
         call' = [Crossed EXCEPT ![c] = r],
         UNCHANGED <<level, astray, salt, nextSalt, salting, contract, password, opens, file>>
  PROVE  IInv'
<1>1. call'[c] = r /\ \A d \in Slots \ {c} : call'[d] = Cross(call[d])
  BY AllCrossed DEF Crossed
<1>2. CallFits(c, r)' /\ ~HasSalt(r)
  BY DEF CallFits, SaltKnown, KeyKnown, HasSalt, RotatesAlone, SetsValues, Salters, Resumed
<1>3. ASSUME NEW d \in Slots \ {c}
      PROVE  \E y \in Running : /\ call'[d] = y /\ CallFits(d, y)' /\ ~HasSalt(y)
                                /\ y.at = call[d].at /\ y.seen = call[d].seen
  <2>1. PICK x \in Running : x = call[d] /\ CallFits(d, x)
    BY CallType
  <2>2. PICK y : y = Cross(x)
    OBVIOUS
  <2>3. NoneNew
    BY SameNothingNew
  <2>4. /\ y \in Running /\ CallFits(d, y)' /\ ~HasSalt(y)
        /\ y.at = x.at /\ y.seen = x.seen
    BY <2>1, <2>2, <2>3, CrossFits
  <2> QED
    BY <1>1, <2>1, <2>2, <2>4
<1>4. \A d \in Slots : call'[d] \in Running /\ CallFits(d, call[d])' /\ ~HasSalt(call'[d])
  BY <1>1, <1>2, <1>3
<1>5. call' \in [Slots -> Running]
  BY <1>4 DEF Crossed
<1>6. TypeOK' /\ EntriesOpen'
  BY <1>5 DEF IInv, TypeOK, EntriesOpen
<1>7. PasswordKnown'
  BY <1>1, <1>3 DEF IInv, PasswordKnown
<1>8. NewSaltAlone'
  BY <1>4 DEF NewSaltAlone, HasSalt
<1> QED
  BY <1>4, <1>6, <1>7, <1>8 DEF IInv

(* changePassword: what it begins with.                                    *)
Rotation(r) ==
  r \in Running /\ r.op = "rotate" /\ r.at # "returned" /\ r.seen = None /\ SetsValues(r)

LEMMA RotationRuns ==
  ASSUME IInv, NEW p \in Passwords, NEW r,
         r = [Idle EXCEPT !.job = "rotate", !.op = "rotate", !.under = contract, !.password = p]
  PROVE  Rotation(r)
<1>3. PICK C \in Contracts : C = contract
  BY DEF IInv, TypeOK
<1>4. PICK r1 : r1 = [Idle EXCEPT !.job = "rotate"]
  OBVIOUS
<1>5. r1 \in Running /\ r1.job = "rotate" /\ r1.seen = None /\ r1.at = "idle" /\ ~r1.crossed
  BY <1>4, JobGiven
<1>6. PICK r2 : r2 = [r1 EXCEPT !.op = "rotate"]
  OBVIOUS
<1>7. r2 \in Running /\ r2.job = "rotate" /\ r2.op = "rotate" /\ r2.seen = None /\ r2.at = "idle"
      /\ ~r2.crossed
  BY <1>5, <1>6 DEF Running
<1>8. PICK r3 : r3 = [r2 EXCEPT !.under = C]
  OBVIOUS
<1>9. r3 \in Running /\ r3.job = "rotate" /\ r3.op = "rotate" /\ r3.seen = None /\ r3.at = "idle"
      /\ ~r3.crossed
  BY <1>7, <1>8 DEF Running
<1>10. r = [r3 EXCEPT !.password = p]
  BY <1>3, <1>4, <1>6, <1>8
<1>11. r \in Running /\ Keeps(r, r3) /\ r.seen = None /\ r.at = "idle"
  <2>1. PICK q \in Passwords \cup {None} : q = p
    OBVIOUS
  <2>2. r = [r3 EXCEPT !.password = q]
    BY <1>10, <2>1
  <2>3. r3 \in Running
    BY <1>9
  <2>4. r \in Running /\ Keeps(r, r3) /\ r.at = r3.at /\ r.seen = r3.seen
    BY <2>2, <2>3 DEF Running, Keeps
  <2> QED
    BY <1>9, <2>4
<1>12. r.op = "rotate" /\ r.job = "rotate" /\ ~r.crossed
  BY <1>9, <1>11 DEF Keeps
<1>13. SetsValues(r)
  BY <1>11, <1>12 DEF SetsValues
<1> QED
  BY <1>11, <1>12, <1>13 DEF Rotation

LEMMA LocksStep ==
  ASSUME IInv, NEW c \in Slots, NEW r, Rotation(r), Locks(c, r), call[c].at # "rotated",
         UNCHANGED <<level, astray, salt, nextSalt, salting, contract, password, opens, file>>
  PROVE  IInv'
<1>1. CASE lock = None
  <2>1. PICK s : s = Passes(r)
    OBVIOUS
  <2>2. /\ s \in Running /\ Keeps(s, r) /\ s.at = "past" /\ s.seen = r.seen
    BY <2>1, Passed DEF Rotation
  <2>3. lock' = c /\ call' = [Crossed EXCEPT ![c] = s]
    BY <1>1, <2>1 DEF Locks, Passes
  <2>4. s.op = "rotate" /\ s.seen = None /\ SetsValues(s)
    BY <2>2 DEF Rotation, Keeps, SetsValues
  <2> QED
    BY <1>1, <2>2, <2>3, <2>4, LockTaken
<1>2. CASE lock # None
  <2>1. PICK s : s = [r EXCEPT !.at = "wait"]
    OBVIOUS
  <2>2. s \in Running /\ Keeps(s, r) /\ s.at = "wait" /\ s.seen = r.seen
    <3>1. "wait" \in Stages
      BY DEF Stages, Resumed
    <3> QED
      BY <2>1, <3>1, Gone DEF Rotation
  <2>3. UNCHANGED lock /\ call' = [call EXCEPT ![c] = s]
    BY <1>2, <2>1 DEF Locks, Set
  <2>4. Harmless(s)
    BY <2>2 DEF Harmless, Rotation, Keeps, SetsValues, Resumed
  <2>5. CallFits(c, s)' /\ Lone(c, s)
    BY <2>2, <2>4, HarmlessFits, FarFromSalt DEF Salters
  <2> QED
    BY <2>2, <2>3, <2>5, OneMoves DEF IInv, TypeOK
<1> QED
  BY <1>1, <1>2

LEMMA ChangePasswordStep ==
  ASSUME IInv, NEW c \in Slots, ChangePassword(c)
  PROVE  IInv'
<1>1. /\ call[c] = Idle
      /\ UNCHANGED <<level, astray, salt, nextSalt, salting, contract, password, opens, file>>
  BY DEF ChangePassword
<1>2. PICK p \in Passwords \ {password} :
        Locks(c, [Idle EXCEPT !.job = "rotate", !.op = "rotate", !.under = contract, !.password = p])
  BY DEF ChangePassword
<1>3. PICK r : r = [Idle EXCEPT !.job = "rotate", !.op = "rotate", !.under = contract, !.password = p]
  OBVIOUS
<1>4. Rotation(r) /\ Locks(c, r)
  BY <1>2, <1>3, RotationRuns
<1>5. call[c].at # "rotated"
  BY <1>1, IdleRuns
<1> QED
  BY <1>1, <1>4, <1>5, LocksStep

(* Waiting for a rotation.                                                 *)
LEMMA ExpireStep ==
  ASSUME IInv, NEW c \in Slots, Expire(c)
  PROVE  IInv'
<1>1. PICK x : x = call[c]
  OBVIOUS
<1>2. x \in Running /\ CallFits(c, x) /\ x.at = "wait"
  BY <1>1, CallType DEF Expire
<1>3. PICK r : r = [x EXCEPT !.late = TRUE]
  OBVIOUS
<1>4. r \in Running /\ Keeps(r, x) /\ r.at = "wait" /\ r.seen = x.seen
  BY <1>2, <1>3, Late
<1>5. Harmless(r)
  BY <1>2, <1>4 DEF CallFits, Harmless, RotatesAlone, SetsValues, Keeps, Salters, Resting, Resumed
<1>6. CallFits(c, r)' /\ Lone(c, r)
  BY <1>4, <1>5, HarmlessFits, FarFromSalt DEF Salters
<1> QED
  BY <1>1, <1>2, <1>3, <1>4, <1>6, OneMoves DEF Expire, Set, IInv, TypeOK

LEMMA RecheckStep ==
  ASSUME IInv, NEW c \in Slots, Recheck(c)
  PROVE  IInv'
<1>1. PICK x : x = call[c]
  OBVIOUS
<1>2. x \in Running /\ CallFits(c, x) /\ x.at = "check"
  BY <1>1, CallType DEF Recheck
<1>4. PICK w : w = [x EXCEPT !.at = "wait"]
  OBVIOUS
<1>5. PICK g : g = Passes(x)
  OBVIOUS
<1>6. w \in Running /\ Keeps(w, x) /\ w.at = "wait" /\ w.seen = x.seen
  <2>1. "wait" \in Stages
    BY DEF Stages, Resumed
  <2> QED
    BY <1>2, <1>4, <2>1, Gone
<1>7. g \in Running /\ Keeps(g, x) /\ g.at = "past" /\ g.seen = x.seen
  BY <1>2, <1>5, Passed
<1>8. UNCHANGED <<level, astray, salt, nextSalt, salting, contract, password, opens, file>>
  BY DEF Recheck
<1>9. \/ UNCHANGED lock /\ Set(c, Idle)
      \/ UNCHANGED lock /\ Set(c, w)
      \/ x.op = "rotate" /\ Locks(c, x)
      \/ x.op # "rotate" /\ lock = None /\ UNCHANGED lock /\ Set(c, g)
  BY <1>1, <1>4, <1>5 DEF Recheck, Throws, Go, Passes
<1>10. call[c].at # "rotated"
  BY <1>1, <1>2
<1>11. CASE UNCHANGED lock /\ Set(c, Idle)
  BY <1>8, <1>10, <1>11, IdleStep DEF Set
<1>12. CASE UNCHANGED lock /\ Set(c, w)
  <2>1. Harmless(w)
    BY <1>2, <1>6 DEF CallFits, Harmless, RotatesAlone, SetsValues, Keeps, Salters, Resting, Resumed
  <2>2. CallFits(c, w)' /\ Lone(c, w)
    BY <1>6, <2>1, HarmlessFits, FarFromSalt DEF Salters
  <2> QED
    BY <1>6, <1>8, <1>10, <1>12, <2>2, OneMoves DEF Set, IInv, TypeOK
<1>13. CASE x.op = "rotate" /\ Locks(c, x)
  <2>1. Rotation(x)
    BY <1>2, <1>13 DEF CallFits, RotatesAlone, Rotation
  <2> QED
    BY <1>8, <1>10, <1>13, <2>1, LocksStep
<1>14. CASE x.op # "rotate" /\ lock = None /\ UNCHANGED lock /\ Set(c, g)
  <2>1. CallFits(c, g)'
    BY <1>2, <1>7, <1>14 DEF CallFits, SaltKnown, KeyKnown, HasSalt, RotatesAlone, SetsValues,
       Salters, Keeps
  <2>2. Lone(c, g)
    BY <1>7, FarFromSalt DEF Salters
  <2> QED
    BY <1>7, <1>8, <1>10, <1>14, <2>1, <2>2, OneMoves DEF Set, IInv, TypeOK
<1> QED
  BY <1>9, <1>11, <1>12, <1>13, <1>14

(* The salt.                                                               *)
LEMMA KeyScoped ==
  ASSUME IInv, NEW c \in Slots, Past(c)
  PROVE  /\ call[c].at = "past"
         /\ UNCHANGED <<level, astray, salt, nextSalt, cache, lock, contract, password, opens, file>>
         /\ \E s \in Running :
              /\ call' = [call EXCEPT ![c] = s]
              /\ Keeps(s, call[c]) /\ s.seen = call[c].seen /\ s.key = KeyOf(call[c])
              /\ s.at \in {"write", "join", "salt"} /\ (s.at = "write" <=> s.op = "remove")
              /\ IF s.at = "salt" THEN salting = None /\ salting' = c ELSE UNCHANGED salting
<1>1. PICK x : x = call[c]
  OBVIOUS
<1>2. PICK k : k = KeyOf(x)
  OBVIOUS
<1>3. PICK r : r = [x EXCEPT !.key = k]
  OBVIOUS
<1>4. x \in Running /\ CallFits(c, x)
  BY <1>1, CallType
<1>5. k \in Keys \cup {None}
  <2>1. contract \in Contracts
    BY DEF IInv, TypeOK
  <2>2. x.op \in {"get", "set", "remove"} => x.under \in Contracts /\ x.id \in Ids
    BY <1>4 DEF CallFits, SetsValues
  <2> QED
    BY <1>2, <2>1, <2>2 DEF KeyOf, Keys
<1>6. r \in Running /\ Keeps(r, x) /\ r.at = x.at /\ r.seen = x.seen /\ r.key = k
  BY <1>3, <1>4, <1>5, Keyed
<1>7. x.at = "past"
  BY <1>1, <1>2, <1>3, <1>6 DEF Past
<1>8. PICK at \in {"write", "join", "salt"} :
        /\ Set(c, [r EXCEPT !.at = at])
        /\ at = "write" <=> x.op = "remove"
        /\ IF at = "salt" THEN salting = None /\ salting' = c ELSE UNCHANGED salting
  BY <1>1, <1>2, <1>3, <1>6 DEF Past, Keeps
<1>9. PICK s : s = [r EXCEPT !.at = at]
  OBVIOUS
<1>10. s \in Running /\ Keeps(s, r) /\ s.at = at /\ s.seen = x.seen /\ s.key = k
  <2>1. at \in Stages
    BY DEF Stages, InFlight
  <2> QED
    BY <1>6, <1>9, <2>1, Gone
<1>11. Keeps(s, x)
  BY <1>6, <1>10 DEF Keeps
<1>12. s.op = x.op
  BY <1>11 DEF Keeps
<1>13. call' = [call EXCEPT ![c] = s]
  BY <1>8, <1>9 DEF Set
<1> QED
  BY <1>1, <1>2, <1>7, <1>8, <1>10, <1>11, <1>12, <1>13 DEF Past

LEMMA PastStep ==
  ASSUME IInv, NEW c \in Slots, Past(c)
  PROVE  IInv'
<1>1. PICK x : x = call[c]
  OBVIOUS
<1>2. x \in Running /\ CallFits(c, x)
  BY <1>1, CallType
<1>3. /\ x.at = "past"
      /\ UNCHANGED <<level, astray, salt, nextSalt, lock, contract, password, opens, file>>
  BY <1>1, KeyScoped
<1>4. PICK s \in Running :
        /\ call' = [call EXCEPT ![c] = s]
        /\ Keeps(s, x) /\ s.seen = x.seen /\ s.key = KeyOf(x)
        /\ s.at \in {"write", "join", "salt"} /\ (s.at = "write" <=> s.op = "remove")
        /\ IF s.at = "salt" THEN salting = None /\ salting' = c ELSE UNCHANGED salting
  BY <1>1, KeyScoped
<1>5. x.op = "get" => s.key \in Keys
  <2>1. x.op = "get" => x.under \in Contracts /\ x.id \in Ids
    BY <1>2 DEF CallFits, SetsValues
  <2> QED
    BY <1>4, <2>1 DEF KeyOf, Keys
<1>6. CallFits(c, s)'
  <2>1. SaltKnown(c, s)'
    BY <1>4 DEF SaltKnown, HasSalt, Salters
  <2>2. KeyKnown(s)'
    BY <1>4 DEF KeyKnown, HasSalt
  <2>3. RotatesAlone(c, s)'
    BY <1>2, <1>3, <1>4 DEF CallFits, RotatesAlone, Salters, Resting, Resumed, Keeps
  <2>4. SetsValues(s)
    BY <1>2, <1>3, <1>4, <1>5 DEF CallFits, SetsValues, Keeps
  <2> QED
    BY <2>1, <2>2, <2>3, <2>4 DEF CallFits
<1>7. s.at # "rotated" /\ call[c].at # "rotated" /\ (salting' = salting \/ salting \in {None, c})
  BY <1>1, <1>3, <1>4
<1>8. Lone(c, s)
  BY <1>4 DEF Lone, HasSalt
<1> QED
  BY <1>3, <1>4, <1>6, <1>7, <1>8, OneMoves DEF IInv, TypeOK

LEMMA ReadSaltStep ==
  ASSUME IInv, NEW c \in Slots, ReadSalt(c)
  PROVE  IInv'
<1>1. PICK x : x = call[c]
  OBVIOUS
<1>2. x \in Running /\ CallFits(c, x) /\ x.at = "salt"
  BY <1>1, CallType DEF ReadSalt
<1>3. PICK n \in Nat : n = salt
  BY DEF IInv, TypeOK
<1>4. PICK at \in {"salted", "newsalt"} : at = IF n # 0 THEN "salted" ELSE "newsalt"
  OBVIOUS
<1>5. PICK r : r = [x EXCEPT !.salt = n]
  OBVIOUS
<1>6. r \in Running /\ Keeps(r, x) /\ r.salt = n /\ r.seen = x.seen /\ r.key = x.key
  BY <1>2, <1>5, SaltTold
<1>7. PICK s : s = [r EXCEPT !.at = at]
  OBVIOUS
<1>8. s \in Running /\ Keeps(s, r) /\ s.at = at /\ s.salt = n /\ s.seen = x.seen /\ s.key = x.key
  <2>1. at \in Stages
    BY DEF Stages, InFlight
  <2> QED
    BY <1>6, <1>7, <2>1, Gone
<1>9. /\ UNCHANGED <<level, astray, salt, nextSalt, salting, lock, contract, password, opens, file>>
      /\ call' = [call EXCEPT ![c] = s]
  BY <1>1, <1>3, <1>4, <1>5, <1>7 DEF ReadSalt, Set
<1>10. CallFits(c, s)'
  <2>1. SaltKnown(c, s)'
    BY <1>2, <1>3, <1>4, <1>8, <1>9 DEF CallFits, SaltKnown, HasSalt, Salters
  <2>2. KeyKnown(s)'
    BY <1>8 DEF KeyKnown, HasSalt
  <2>3. RotatesAlone(c, s)'
    BY <1>2, <1>6, <1>8, <1>9 DEF CallFits, RotatesAlone, Salters, Resting, Resumed, Keeps
  <2>4. SetsValues(s)
    BY <1>2, <1>6, <1>8 DEF CallFits, SetsValues, Keeps, Salters
  <2> QED
    BY <2>1, <2>2, <2>3, <2>4 DEF CallFits
<1>11. Lone(c, s)
  BY <1>2, <1>3, <1>4, <1>8 DEF Lone, CallFits, SaltKnown, Salters
<1> QED
  BY <1>1, <1>2, <1>8, <1>9, <1>10, <1>11, OneMoves DEF IInv, TypeOK

(* A new salt: no other call relies on the one it replaces, and what was   *)
(* encrypted under that is astray.                                         *)
LEMMA PutSaltStep ==
  ASSUME IInv, NEW c \in Slots, PutSalt(c)
  PROVE  IInv'
<1>1. PICK x : x = call[c]
  OBVIOUS
<1>2. x \in Running /\ CallFits(c, x) /\ x.at = "newsalt"
  BY <1>1, CallType DEF PutSalt
<1>3. salting = c
  BY <1>2 DEF CallFits, SaltKnown, Salters
<1>4. PICK n \in Nat \ {0} : n = nextSalt
  BY DEF IInv, TypeOK
<1>5. PICK r : r = [x EXCEPT !.salt = n]
  OBVIOUS
<1>6. r \in Running /\ Keeps(r, x) /\ r.salt = n /\ r.seen = x.seen /\ r.key = x.key
  BY <1>2, <1>5, SaltTold
<1>7. PICK s : s = [r EXCEPT !.at = "salted"]
  OBVIOUS
<1>8. s \in Running /\ Keeps(s, r) /\ s.at = "salted" /\ s.salt = n /\ s.seen = x.seen /\ s.key = x.key
  <2>1. "salted" \in Stages
    BY DEF Stages, InFlight
  <2> QED
    BY <1>6, <1>7, <2>1, Gone
<1>9. /\ UNCHANGED <<level, salting, lock, contract, password, opens, file>>
      /\ salt' = n /\ nextSalt' = n + 1 /\ call' = [call EXCEPT ![c] = s]
      /\ astray' = IF salt # 0 THEN Keys ELSE astray
  BY <1>1, <1>4, <1>5, <1>7 DEF PutSalt, Set
<1>10. CallFits(c, s)'
  <2>1. SaltKnown(c, s)'
    BY <1>3, <1>4, <1>8, <1>9 DEF SaltKnown, HasSalt, Salters
  <2>2. KeyKnown(s)'
    BY <1>8 DEF KeyKnown, HasSalt
  <2>3. RotatesAlone(c, s)'
    BY <1>2, <1>6, <1>8, <1>9 DEF CallFits, RotatesAlone, Salters, Resting, Resumed, Keeps
  <2>4. SetsValues(s)
    BY <1>2, <1>6, <1>8 DEF CallFits, SetsValues, Keeps, Salters
  <2> QED
    BY <2>1, <2>2, <2>3, <2>4 DEF CallFits
<1>11. call'[c] = s /\ \A d \in Slots \ {c} : call'[d] = call[d]
  BY <1>9 DEF IInv, TypeOK
<1>16. NoneNew
  BY <1>9 DEF NoneNew
<1>12. ASSUME NEW d \in Slots PROVE CallFits(d, call[d])'
  <2>1. CASE d = c
    BY <1>10, <1>11, <2>1
  <2>2. CASE d # c
    <3>1. PICK y : y = call[d]
      OBVIOUS
    <3>2. CallFits(d, y) /\ ~HasSalt(y)
      BY <1>1, <1>2, <2>2, <3>1, CallType DEF IInv, NewSaltAlone
    <3>3. y.at \notin Salters
      BY <1>3, <2>2, <3>2 DEF CallFits, SaltKnown
    <3>4. SaltKnown(d, y)' /\ KeyKnown(y)'
      BY <3>2, <3>3 DEF SaltKnown, KeyKnown, HasSalt, Salters
    <3>5. RotatesAlone(d, y)'
      BY <1>9, <1>16, <3>2 DEF CallFits, RotatesAlone, NoneNew
    <3>6. CallFits(d, y)'
      BY <3>2, <3>4, <3>5 DEF CallFits, SetsValues
    <3> QED
      BY <1>11, <2>2, <3>1, <3>6
  <2> QED
    BY <2>1, <2>2
<1>13. TypeOK'
  BY <1>4, <1>8, <1>9 DEF IInv, TypeOK
<1>14. EntriesOpen'
  BY <1>9 DEF IInv, EntriesOpen
<1>15. PasswordKnown'
  BY <1>1, <1>2, <1>9, <1>11 DEF IInv, PasswordKnown
<1>17. NewSaltAlone'
  <2>1. ASSUME NEW a \in Slots PROVE call'[a].at # "newsalt"
    BY <1>3, <1>8, <1>11, CallType DEF CallFits, SaltKnown, Salters
  <2> QED
    BY <2>1 DEF NewSaltAlone
<1> QED
  BY <1>12, <1>13, <1>14, <1>15, <1>17 DEF IInv

(* A call is told the salt by the promise it made or joined.               *)
Joined(s, y, n, b) ==
  /\ s \in Running /\ s.job = y.job /\ s.op = y.op /\ s.id = y.id /\ s.val = y.val
  /\ s.ids = y.ids /\ s.states = y.states /\ s.under = y.under /\ s.seen = y.seen /\ s.key = y.key
  /\ y.at \in {"salted", "join"} /\ s.at = "key" /\ s.salt = n /\ s.crossed = (y.crossed \/ b)

LEMMA SaltIsTold ==
  ASSUME IInv, NEW c \in Slots, Salted(c)
  PROVE  /\ call[c].at = "salted" /\ salting = c /\ salting' = None
         /\ UNCHANGED <<level, astray, salt, nextSalt, lock, contract, password, opens, file>>
         /\ call' = [d \in Slots |-> call'[d]]
         /\ \A d \in Slots :
              \/ d # c /\ call'[d] = call[d]
              \/ \E s : call'[d] = s /\ Joined(s, call[d], call[c].salt, call[c].crossed)
<1>1. PICK x : x = call[c]
  OBVIOUS
<1>2. x \in Running /\ CallFits(c, x) /\ x.at = "salted"
  BY <1>1, CallType DEF Salted
<1>3. PICK n \in Nat, b \in BOOLEAN : n = x.salt /\ b = x.crossed
  BY <1>2 DEF Running
<1>4. salting = c
  BY <1>2 DEF CallFits, SaltKnown, Salters
<1>5. /\ UNCHANGED <<level, astray, salt, nextSalt, lock, contract, password, opens, file>>
      /\ salting' = None
      /\ call' = [d \in Slots |-> IF d = c \/ call[d].at = "join"
                                    THEN [call[d] EXCEPT !.salt = n, !.at = "key",
                                                         !.crossed = @ \/ b]
                                    ELSE call[d]]
  BY <1>1, <1>3 DEF Salted
<1>6. ASSUME NEW d \in Slots, d = c \/ call[d].at = "join"
      PROVE  \E s : call'[d] = s /\ Joined(s, call[d], n, b)
  <2>1. PICK y : y = call[d]
    OBVIOUS
  <2>2. y \in Running /\ y.at \in {"salted", "join"}
    BY <1>1, <1>2, <1>6, <2>1, CallType
  <2>3. PICK r : r = [y EXCEPT !.salt = n]
    OBVIOUS
  <2>4. r \in Running /\ Keeps(r, y) /\ r.salt = n /\ r.seen = y.seen /\ r.key = y.key
    BY <2>2, <2>3, SaltTold
  <2>5. PICK t : t = [r EXCEPT !.at = "key"]
    OBVIOUS
  <2>6. /\ t \in Running /\ Keeps(t, r) /\ t.at = "key" /\ t.salt = n /\ t.seen = y.seen
        /\ t.key = y.key
    <3>1. "key" \in Stages
      BY DEF Stages, InFlight
    <3> QED
      BY <2>4, <2>5, <3>1, Gone
  <2>7. PICK e \in BOOLEAN : e = (y.crossed \/ b)
    BY <2>2 DEF Running
  <2>8. PICK s : s = [t EXCEPT !.crossed = e]
    OBVIOUS
  <2>9. /\ s \in Running /\ s.job = t.job /\ s.op = t.op /\ s.id = t.id /\ s.val = t.val
        /\ s.ids = t.ids /\ s.states = t.states /\ s.under = t.under /\ s.crossed = e /\ s.at = "key"
        /\ s.salt = n /\ s.seen = t.seen /\ s.key = t.key
    BY <2>6, <2>8, CrossTold
  <2>10. Joined(s, y, n, b)
    BY <2>2, <2>4, <2>6, <2>7, <2>9 DEF Keeps, Joined
  <2>11. s = [y EXCEPT !.salt = n, !.at = "key", !.crossed = @ \/ b]
    BY <2>3, <2>5, <2>7, <2>8
  <2>12. call'[d] = s
    BY <1>5, <1>6, <2>1, <2>11
  <2> QED
    BY <2>1, <2>10, <2>12
<1>7. \A d \in Slots : d # c /\ call[d].at # "join" => call'[d] = call[d]
  BY <1>5
<1>8. call' = [d \in Slots |-> call'[d]]
  BY <1>5
<1> QED
  BY <1>1, <1>2, <1>3, <1>4, <1>5, <1>6, <1>7, <1>8

LEMMA SaltedStep ==
  ASSUME IInv, NEW c \in Slots, Salted(c)
  PROVE  IInv'
<1>1. /\ salting = c /\ salting' = None
      /\ UNCHANGED <<level, astray, salt, nextSalt, lock, contract, password, opens, file>>
      /\ call' = [d \in Slots |-> call'[d]]
  BY SaltIsTold
<1>2. PICK x \in Running : x = call[c] /\ CallFits(c, x) /\ x.at = "salted"
  BY CallType, SaltIsTold
<1>3. ASSUME NEW d \in Slots
      PROVE  \E s \in Running :
               /\ call'[d] = s /\ CallFits(d, s)' /\ s.at # "newsalt"
               /\ call[d].at = "rotated" => s = call[d]
  <2>1. PICK y : y = call[d]
    OBVIOUS
  <2>2. y \in Running /\ CallFits(d, y)
    BY <2>1, CallType
  <2>3. ASSUME NEW s, Joined(s, y, x.salt, x.crossed)
        PROVE  CallFits(d, s)'
    <3>1. SaltKnown(d, s)'
      <4>1. HasSalt(s) => ~x.crossed /\ ~y.crossed /\ y.op # "rotate"
        BY <2>3 DEF HasSalt, Joined
      <4>2. x.op = "rotate" /\ d # c /\ ~y.crossed => FALSE
        BY <1>2, <2>2, <2>3, NamesAssumption DEF CallFits, RotatesAlone, Joined, Resting, Resumed
      <4>3. x.op = "rotate" => d # c \/ y.op = "rotate"
        BY <1>2, <2>1
      <4>4. HasSalt(s) => HasSalt(x)
        BY <1>2, <4>1, <4>2, <4>3 DEF HasSalt
      <4>5. HasSalt(s) => salt # 0 /\ x.salt = salt
        BY <1>2, <4>4 DEF CallFits, SaltKnown
      <4> QED
        BY <1>1, <2>3, <4>5 DEF SaltKnown, Joined, Salters, HasSalt
    <3>2. KeyKnown(s)'
      BY <2>3 DEF KeyKnown, HasSalt, Joined
    <3>3. RotatesAlone(d, s)'
      BY <1>1, <2>2, <2>3 DEF CallFits, RotatesAlone, Salters, Resting, Resumed, Joined
    <3>4. SetsValues(s)
      BY <2>2, <2>3 DEF CallFits, SetsValues, Joined, Salters
    <3> QED
      BY <3>1, <3>2, <3>3, <3>4 DEF CallFits
  <2>4. CASE call'[d] = y /\ d # c
    <3>1. CallFits(d, y)'
      BY <1>1, <2>2, <2>4, FitStays, SameNothingNew
    <3>2. y.at # "newsalt"
      BY <1>1, <2>2, <2>4 DEF CallFits, SaltKnown, Salters
    <3> QED
      BY <2>1, <2>2, <2>4, <3>1, <3>2
  <2>5. CASE \E s : call'[d] = s /\ Joined(s, y, x.salt, x.crossed)
    BY <2>1, <2>3, <2>5 DEF Joined
  <2> QED
    BY <1>2, <2>1, <2>4, <2>5, SaltIsTold
<1>4. \A d \in Slots : call'[d] \in Running /\ CallFits(d, call[d])' /\ call'[d].at # "newsalt"
  BY <1>3
<1>5. TypeOK'
  <2>1. call' \in [Slots -> Running]
    BY <1>1, <1>4
  <2> QED
    BY <1>1, <2>1 DEF IInv, TypeOK
<1>6. EntriesOpen'
  BY <1>1 DEF IInv, EntriesOpen
<1>7. PasswordKnown'
  <2>1. \A d \in Slots : call[d].at = "rotated" => call'[d] = call[d]
    BY <1>3
  <2> QED
    BY <1>1, <2>1 DEF IInv, PasswordKnown
<1>8. NewSaltAlone'
  BY <1>4 DEF NewSaltAlone
<1> QED
  BY <1>4, <1>5, <1>6, <1>7, <1>8 DEF IInv

(* The key: of the password answered now, under which the level is, as no  *)
(* rotation is between its batch and its return.                           *)
LEMMA PasswordOpens ==
  ASSUME IInv, NEW c \in Slots, call[c].at \notin Resting \cup Resumed \cup {"rotated"},
         ~call[c].crossed \/ lock = c
  PROVE  password = opens
<1>1. \A d \in Slots : call[d].at = "rotated" => lock = d
  BY DEF IInv, CallFits, RotatesAlone, Resumed
<1>2. lock \in {None, c}
  BY DEF IInv, CallFits, RotatesAlone
<1> QED
  BY <1>1, <1>2, NamesAssumption DEF IInv, PasswordKnown

LEMMA KeyTaken ==
  ASSUME IInv, NEW c \in Slots, TakeKey(c)
  PROVE  \E s \in Running :
           /\ call' = [call EXCEPT ![c] = s]
           /\ Keeps(s, call[c]) /\ s.seen = call[c].seen /\ s.key = call[c].key /\ s.salt = call[c].salt
           /\ IF s.op = "rotate" THEN s.at = "scan"
              ELSE s.at = (IF s.op = "set" THEN "write" ELSE "read") /\ s.password = password
<1>1. PICK x : x = call[c]
  OBVIOUS
<1>2. x \in Running /\ x.at = "key"
  BY <1>1, CallType DEF TakeKey
<1>3. CASE x.op = "rotate"
  <2>1. PICK s : s = [x EXCEPT !.at = "scan"]
    OBVIOUS
  <2>2. /\ s \in Running /\ Keeps(s, x) /\ s.at = "scan" /\ s.seen = x.seen /\ s.key = x.key
        /\ s.salt = x.salt
    <3>1. "scan" \in Stages
      BY DEF Stages, InFlight
    <3> QED
      BY <1>2, <2>1, <3>1, Gone
  <2>3. call' = [call EXCEPT ![c] = s]
    BY <1>1, <1>3, <2>1 DEF TakeKey, Go, Set
  <2>4. s.op = "rotate"
    BY <1>3, <2>2 DEF Keeps
  <2> QED
    BY <1>1, <2>2, <2>3, <2>4
<1>4. CASE x.op # "rotate"
  <2>1. PICK p \in Passwords \cup {None} : p = password
    BY DEF IInv, TypeOK
  <2>3. PICK n \in Nat : n = x.salt
    BY <1>2 DEF Running
  <2>4. PICK at \in {"write", "read"} : at = IF x.op = "set" THEN "write" ELSE "read"
    OBVIOUS
  <2>5. PICK enc : enc = IF Cached(n, p) # {} THEN CHOOSE e \in Cached(n, p) : TRUE
                         ELSE [salt |-> n, password |-> p]
    OBVIOUS
  <2>6. enc.salt = n /\ enc.password = p
    <3>1. Cached(n, p) # {} => enc \in Cached(n, p)
      BY <2>5
    <3>2. Cached(n, p) = {} => enc = [salt |-> n, password |-> p]
      BY <2>5
    <3> QED
      BY <3>1, <3>2 DEF Cached
  <2>7. PICK s : s = WithKey(x, enc.salt, enc.password, at)
    OBVIOUS
  <2>8. /\ s \in Running /\ Keeps(s, x) /\ s.at = at /\ s.salt = n /\ s.password = p
        /\ s.key = x.key /\ s.seen = x.seen
    <3>1. at \in Stages
      BY DEF Stages, InFlight
    <3>2. HasKey(s, x, n, p, at)
      BY <1>2, <2>6, <2>7, <3>1, KeyTold
    <3> QED
      BY <3>2 DEF HasKey
  <2>9. call' = [call EXCEPT ![c] = s]
    BY <1>1, <1>4, <2>1, <2>3, <2>4, <2>5, <2>7 DEF TakeKey, Set, WithKey
  <2>10. s.op = x.op
    BY <2>8 DEF Keeps
  <2> QED
    BY <1>1, <1>4, <2>1, <2>3, <2>4, <2>8, <2>9, <2>10
<1> QED
  BY <1>3, <1>4

LEMMA TakeKeyStep ==
  ASSUME IInv, NEW c \in Slots, TakeKey(c)
  PROVE  IInv'
<1>1. PICK x : x = call[c]
  OBVIOUS
<1>2. x \in Running /\ CallFits(c, x) /\ x.at = "key"
  BY <1>1, CallType DEF TakeKey
<1>3. UNCHANGED <<level, astray, salt, nextSalt, salting, lock, contract, password, opens, file>>
  BY DEF TakeKey
<1>4. PICK s \in Running :
        /\ call' = [call EXCEPT ![c] = s]
        /\ Keeps(s, x) /\ s.seen = x.seen /\ s.key = x.key /\ s.salt = x.salt
        /\ IF s.op = "rotate" THEN s.at = "scan"
           ELSE s.at = (IF s.op = "set" THEN "write" ELSE "read") /\ s.password = password
  BY <1>1, KeyTaken
<1>7. HasSalt(s) => HasSalt(x)
  BY <1>2, <1>4 DEF HasSalt, Keeps
<1>5. CallFits(c, s)'
  <2>1. SaltKnown(c, s)'
    BY <1>2, <1>3, <1>4, <1>7 DEF CallFits, SaltKnown, HasSalt, Salters
  <2>2. KeyKnown(s)'
    <3>1. ~x.crossed => password = opens
      BY <1>1, <1>2, PasswordOpens DEF Resting, Resumed
    <3> QED
      BY <1>3, <1>4, <3>1 DEF KeyKnown, HasSalt, Keeps
  <2>3. RotatesAlone(c, s)'
    BY <1>2, <1>3, <1>4 DEF CallFits, RotatesAlone, Resting, Resumed, Keeps
  <2>4. SetsValues(s)
    BY <1>2, <1>4 DEF CallFits, SetsValues, Keeps, Salters
  <2> QED
    BY <2>1, <2>2, <2>3, <2>4 DEF CallFits
<1>6. s.at # "rotated" /\ Lone(c, s)
  BY <1>1, <1>4, <1>7 DEF Lone
<1> QED
  BY <1>1, <1>2, <1>3, <1>4, <1>5, <1>6, OneMoves DEF IInv, TypeOK

(* Reading and writing.                                                    *)
LEMMA WhatIsHeld ==
  ASSUME IInv
  PROVE  /\ Plain \in Content
         /\ \A ks \in SUBSET Keys : \A k \in ks : level[k] # None => level[k].val \in Vals
         /\ \A k \in Keys : Plain[k] = Absent => level[k] = None
<1>1. level \in [Keys -> Stored \cup {None}]
  BY DEF IInv, TypeOK
<1>2. \A k \in Keys : level[k] # None => level[k].val \in Vals
  BY <1>1 DEF Stored
<1>3. \A k \in Keys : Plain[k] = IF level[k] = None THEN Absent ELSE level[k].val
  BY DEF Plain
<1>4. Plain \in Content
  BY <1>2 DEF Plain, Content, Values
<1> QED
  BY <1>2, <1>3, <1>4, NamesAssumption

(* A call past the lock changes entries: where it does not stand alone it  *)
(* was crossed, and leaves an entry astray.                                *)
LEMMA LevelMoves ==
  ASSUME IInv, NEW c \in Slots, NEW r \in Running, call' = [call EXCEPT ![c] = r],
         level' \in [Keys -> Stored \cup {None}], EntriesOpen',
         UNCHANGED <<salt, nextSalt, salting, lock, contract, password, opens, file>>,
         call[c].at \notin Resting \cup Resumed \cup {"rotated", "batch"}, r.at # "rotated",
         CallFits(c, r)', Lone(c, r), call[c].crossed => NoneNew
  PROVE  IInv'
<1>1. TypeOK'
  BY DEF IInv, TypeOK
<1>2. call'[c] = r /\ \A d \in Slots \ {c} : call'[d] = call[d]
  BY DEF IInv, TypeOK
<1>3. PasswordKnown'
  BY <1>2 DEF IInv, PasswordKnown, Resting, Resumed
<1>4. ~call[c].crossed => lock \in {None, c}
  BY DEF IInv, CallFits, RotatesAlone
<1>5. ASSUME NEW d \in Slots PROVE CallFits(d, call[d])'
  <2>1. CASE d = c
    BY <1>2, <2>1
  <2>2. CASE d # c
    <3>1. PICK y : y = call[d]
      OBVIOUS
    <3>2. CallFits(d, y)
      BY <3>1, CallType
    <3>3. y.at = "batch" => NoneNew
      BY <1>4, <2>2, <3>2, NamesAssumption DEF CallFits, RotatesAlone, Resumed
    <3>4. CallFits(d, y)'
      BY <3>2, <3>3, FitStays
    <3> QED
      BY <1>2, <2>2, <3>1, <3>4
  <2> QED
    BY <2>1, <2>2
<1>6. NewSaltAlone'
  BY SaltStaysAlone
<1> QED
  BY <1>1, <1>3, <1>5, <1>6 DEF IInv

(* One entry is written, or removed.                                       *)
LEMMA EntryMoves ==
  ASSUME IInv, NEW c \in Slots, NEW x \in Running, x = call[c], NEW k, NEW e \in Stored \cup {None},
         level' = [level EXCEPT ![k] = e], astray' = Strayed(x, k), UNCHANGED <<salt, opens>>,
         e # None /\ ~x.crossed => salt # 0 /\ e.salt = salt /\ e.password = opens
  PROVE  /\ level' \in [Keys -> Stored \cup {None}] /\ EntriesOpen'
         /\ x.crossed => NoneNew
<1>1. level \in [Keys -> Stored \cup {None}] /\ EntriesOpen
  BY DEF IInv, TypeOK
<1>2. \A j \in Keys : level'[j] = (IF j = k THEN e ELSE level[j])
  BY <1>1
<1>3. astray' = IF x.crossed /\ level'[k] # None THEN astray \cup {k} ELSE astray \ {k}
  BY DEF Strayed
<1>4. EntriesOpen'
  BY <1>1, <1>2, <1>3 DEF EntriesOpen
<1>5. x.crossed => NoneNew
  BY <1>2, <1>3 DEF NoneNew
<1> QED
  BY <1>1, <1>4, <1>5

LEMMA WriteStep ==
  ASSUME IInv, NEW c \in Slots, Write(c)
  PROVE  IInv'
<1>1. PICK x : x = call[c]
  OBVIOUS
<1>2. x \in Running /\ CallFits(c, x) /\ x.at = "write"
  BY <1>1, CallType DEF Write
<1>3. PICK r : r = Closing(x)
  OBVIOUS
<1>4. r \in Running /\ Keeps(r, x) /\ r.at = "close"
  BY <1>2, <1>3, Closed
<1>5. PICK e : e = IF x.op = "set" THEN Entry(x.salt, x.password, x.val) ELSE None
  OBVIOUS
<1>6. /\ UNCHANGED <<salt, nextSalt, salting, lock, contract, password, opens, file>>
      /\ call' = [call EXCEPT ![c] = r]
      /\ level' = [level EXCEPT ![x.key] = e] /\ astray' = Strayed(x, x.key)
  BY <1>1, <1>3, <1>5 DEF Write, Set
<1>7. e \in Stored \cup {None}
  <2>1. x.op = "set" => x.val \in Vals
    BY <1>2 DEF CallFits, SetsValues
  <2> QED
    BY <1>2, <1>5, <2>1 DEF Entry, Stored, Running
<1>8. x.op = "set" \/ x.op = "remove"
  BY <1>2 DEF CallFits, SetsValues
<1>9. e # None /\ ~x.crossed => salt # 0 /\ e.salt = salt /\ e.password = opens
  <2>1. e # None /\ ~x.crossed => HasSalt(x) /\ e = Entry(x.salt, x.password, x.val)
    BY <1>2, <1>5, <1>8 DEF HasSalt
  <2>2. HasSalt(x) => salt # 0 /\ x.salt = salt /\ x.password = opens
    BY <1>2 DEF CallFits, SaltKnown, KeyKnown
  <2> QED
    BY <2>1, <2>2 DEF Entry
<1>10. /\ level' \in [Keys -> Stored \cup {None}] /\ EntriesOpen'
       /\ x.crossed => NoneNew
  BY <1>1, <1>2, <1>6, <1>7, <1>9, EntryMoves
<1>11. CallFits(c, r)'
  <2>1. SaltKnown(c, r)' /\ KeyKnown(r)'
    BY <1>4 DEF SaltKnown, KeyKnown, HasSalt, Salters
  <2>2. RotatesAlone(c, r)'
    BY <1>2, <1>4, <1>6, <1>8 DEF CallFits, RotatesAlone, Resting, Resumed, Keeps
  <2>3. SetsValues(r)
    BY <1>2, <1>4, <1>8 DEF CallFits, SetsValues, Salters, Keeps
  <2> QED
    BY <2>1, <2>2, <2>3 DEF CallFits
<1>12. Lone(c, r)
  BY <1>4, FarFromSalt DEF Salters
<1> QED
  BY <1>1, <1>2, <1>4, <1>6, <1>10, <1>11, <1>12, LevelMoves DEF Resting, Resumed

LEMMA ReencryptStep ==
  ASSUME IInv, NEW c \in Slots, Reencrypt(c)
  PROVE  IInv'
<1>1. PICK x : x = call[c]
  OBVIOUS
<1>2. x \in Running /\ CallFits(c, x) /\ x.at = "reput"
  BY <1>1, CallType DEF Reencrypt
<1>3. x.op # "rotate"
  BY <1>2 DEF CallFits, RotatesAlone, Salters, Resumed
<1>4. UNCHANGED <<salt, nextSalt, salting, lock, contract, password, opens, file>>
  BY DEF Reencrypt
<1>5. CASE x.todo = Unread
  <2>1. PICK r \in {Idle, Closing(x)} : r = IF x.seen = None THEN Idle ELSE Closing(x)
    OBVIOUS
  <2>2. call' = [call EXCEPT ![c] = r] /\ UNCHANGED <<level, astray>>
    BY <1>1, <1>5, <2>1 DEF Reencrypt, Set
  <2>3. CASE r = Idle
    BY <1>1, <1>2, <1>4, <2>2, <2>3, IdleStep
  <2>4. CASE r = Closing(x) /\ x.seen # None
    <3>1. r \in Running /\ Keeps(r, x) /\ r.at = "close" /\ r.seen = x.seen
      BY <1>2, <2>4, Closed
    <3>2. CallFits(c, r)'
      BY <1>2, <1>3, <1>4, <2>4, <3>1 DEF CallFits, SaltKnown, KeyKnown, HasSalt, RotatesAlone, SetsValues,
         Salters, Resting, Resumed, Keeps
    <3>3. Lone(c, r)
      BY <3>1, FarFromSalt DEF Salters
    <3> QED
      BY <1>1, <1>2, <1>4, <2>2, <3>1, <3>2, <3>3, OneMoves DEF IInv, TypeOK
  <2> QED
    BY <2>1, <2>3, <2>4
<1>6. CASE x.todo # Unread
  <2>1. PICK k \in {j \in Keys : x.todo[j] # Absent} :
          /\ level' = [level EXCEPT ![k] = Entry(x.salt, x.password, x.todo[k])]
          /\ Set(c, [x EXCEPT !.todo[k] = Absent])
          /\ astray' = Strayed(x, k)
    BY <1>1, <1>6 DEF Reencrypt
  <2>2. x.todo[k] \in Vals
    BY <1>2, <2>1 DEF Running, Content, Values
  <2>3. PICK T \in Content : T = [x.todo EXCEPT ![k] = Absent]
    BY <1>2 DEF Running, Content, Values
  <2>4. PICK r : r = [x EXCEPT !.todo = T]
    OBVIOUS
  <2>5. Unmoved(r, x)
    BY <1>2, <2>4, ToDo
  <2>6. r \in Running /\ Keeps(r, x) /\ r.at = "reput" /\ r.salt = x.salt /\ r.password = x.password
        /\ r.seen = x.seen /\ r.key = x.key
    BY <1>2, <2>5 DEF Unmoved
  <2>7. call' = [call EXCEPT ![c] = r]
    BY <1>1, <2>1, <2>3, <2>4 DEF Set
  <2>8. PICK e \in Stored \cup {None} : e = Entry(x.salt, x.password, x.todo[k])
    BY <1>2, <2>2 DEF Entry, Stored, Running
  <2>9. HasSalt(x) <=> ~x.crossed
    BY <1>2, <1>3 DEF HasSalt
  <2>10. ~x.crossed => salt # 0 /\ x.salt = salt /\ x.password = opens
    BY <1>2, <2>9 DEF CallFits, SaltKnown, KeyKnown
  <2>11. /\ level' \in [Keys -> Stored \cup {None}] /\ EntriesOpen'
         /\ x.crossed => NoneNew
    <3>1. ~x.crossed => salt # 0 /\ e.salt = salt /\ e.password = opens
      BY <2>8, <2>10 DEF Entry
    <3> QED
      BY <1>1, <1>2, <1>4, <2>1, <2>8, <3>1, EntryMoves
  <2>12. HasSalt(r) => HasSalt(x)
    BY <1>2, <2>6 DEF HasSalt, Keeps
  <2>13. CallFits(c, r)'
    <3>1. SaltKnown(c, r)' /\ KeyKnown(r)'
      BY <1>2, <1>4, <2>6, <2>12 DEF CallFits, SaltKnown, KeyKnown, HasSalt, Salters
    <3>2. RotatesAlone(c, r)'
      BY <1>2, <1>3, <1>4, <2>6 DEF CallFits, RotatesAlone, Resting, Resumed, Keeps
    <3>3. SetsValues(r)
      BY <1>2, <2>6 DEF CallFits, SetsValues, Keeps, Salters
    <3> QED
      BY <3>1, <3>2, <3>3 DEF CallFits
  <2>14. Lone(c, r)
    BY <1>1, <2>6, <2>12 DEF Lone
  <2> QED
    BY <1>1, <1>2, <1>4, <2>6, <2>7, <2>11, <2>13, <2>14, LevelMoves DEF Resting, Resumed
<1> QED
  BY <1>5, <1>6

LEMMA LegacyIsHeld ==
  ASSUME IInv, NEW ks \in SUBSET Keys, \A k \in ks : level[k] # None
  PROVE  Legacy(ks) \in Content
<1>1. \A k \in ks : level[k].val \in Vals
  BY WhatIsHeld
<1> QED
  BY <1>1 DEF Legacy, Content, Values

LEMMA ReadStep ==
  ASSUME IInv, NEW c \in Slots, Read(c)
  PROVE  IInv'
<1>1. PICK x : x = call[c]
  OBVIOUS
<1>2. x \in Running /\ CallFits(c, x) /\ x.at = "read"
  BY <1>1, CallType DEF Read
<1>3. UNCHANGED <<level, astray, salt, nextSalt, salting, lock, contract, password, opens, file>>
  BY DEF Read
<1>4. PICK ks \in SUBSET Keys : ks = Asked(x)
  <2>1. x.op = "get" => x.key \in Keys
    BY <1>2 DEF CallFits, SetsValues
  <2> QED
    BY <2>1 DEF Asked
<1>5. \A k \in ks : level[k] # None
  BY <1>4 DEF Asked
<1>6. PICK seen \in Values \cup Content \cup {None}, T \in Content :
        /\ Set(c, [x EXCEPT !.seen = seen, !.todo = T, !.at = "reput"])
        /\ x.op = "scan" => seen = None \/ seen \in Content
  <2>1. x.op = "scan" => x.seen = None
    BY <1>2 DEF CallFits, SetsValues
  <2>2. CASE \A k \in ks : Readable(x, level[k])
    <3>1. PICK seen \in Values \cup Content : seen = IF x.op = "get" THEN Plain[x.key] ELSE Plain
      <4>1. x.op = "get" => x.key \in Keys
        BY <1>2 DEF CallFits, SetsValues
      <4>2. Plain \in Content
        BY WhatIsHeld
      <4> QED
        BY <4>1, <4>2 DEF Content
    <3>2. PICK T \in Content : T = Legacy(ks)
      BY <1>5, LegacyIsHeld
    <3>3. Set(c, [x EXCEPT !.seen = seen, !.todo = T, !.at = "reput"])
      BY <1>1, <1>4, <2>2, <3>1, <3>2 DEF Read
    <3>4. x.op = "scan" => seen \in Content
      BY <3>1, WhatIsHeld
    <3> QED
      BY <3>3, <3>4
  <2>3. CASE ~\A k \in ks : Readable(x, level[k])
    <3>1. PICK some \in SUBSET {k \in ks : Readable(x, level[k])} :
            Set(c, [x EXCEPT !.todo = Legacy(some), !.at = "reput"])
      BY <1>1, <1>4, <2>3 DEF Read
    <3>2. PICK T \in Content : T = Legacy(some)
      BY <1>5, <3>1, LegacyIsHeld
    <3>3. PICK seen \in Values \cup Content \cup {None} : seen = x.seen
      BY <1>2 DEF Running
    <3>4. [x EXCEPT !.todo = T, !.at = "reput"] = [x EXCEPT !.seen = seen, !.todo = T, !.at = "reput"]
      BY <1>2, <3>3 DEF Running
    <3>5. Set(c, [x EXCEPT !.seen = seen, !.todo = T, !.at = "reput"])
      BY <3>1, <3>2, <3>4
    <3> QED
      BY <2>1, <3>3, <3>5
  <2> QED
    BY <2>2, <2>3
<1>7. PICK s : s = WithSeen(x, seen, T)
  OBVIOUS
<1>8. HasSeen(s, x, seen, T)
  BY <1>2, <1>7, SeenTold
<1>9. /\ s \in Running /\ Keeps(s, x) /\ s.at = "reput" /\ s.seen = seen /\ s.salt = x.salt
      /\ s.password = x.password
  BY <1>8 DEF HasSeen
<1>10. call' = [call EXCEPT ![c] = s]
  BY <1>6, <1>7 DEF Set, WithSeen
<1>12. HasSalt(s) => HasSalt(x)
  BY <1>2, <1>9 DEF HasSalt, Keeps
<1>11. CallFits(c, s)'
  <2>1. SaltKnown(c, s)' /\ KeyKnown(s)'
    BY <1>2, <1>3, <1>9, <1>12 DEF CallFits, SaltKnown, KeyKnown, HasSalt, Salters
  <2>2. RotatesAlone(c, s)'
    BY <1>2, <1>3, <1>9 DEF CallFits, RotatesAlone, Salters, Resting, Resumed, Keeps
  <2>3. SetsValues(s)
    BY <1>2, <1>6, <1>9 DEF CallFits, SetsValues, Keeps, Salters
  <2> QED
    BY <2>1, <2>2, <2>3 DEF CallFits
<1>13. Lone(c, s)
  BY <1>1, <1>9, <1>12 DEF Lone
<1> QED
  BY <1>1, <1>2, <1>3, <1>9, <1>10, <1>11, <1>13, OneMoves DEF IInv, TypeOK

LEMMA CloseStep ==
  ASSUME IInv, NEW c \in Slots, Close(c)
  PROVE  IInv'
<1>1. PICK x : x = call[c]
  OBVIOUS
<1>2. x \in Running /\ CallFits(c, x) /\ x.at = "close" /\ x.job \in {"get", "set", "remove", "export"}
  BY <1>1, CallType DEF Close
<1>3. UNCHANGED <<level, astray, salt, nextSalt, salting, lock, contract, password, opens>>
  BY DEF Close
<1>4. PICK s : s = [x EXCEPT !.at = "returned"]
  OBVIOUS
<1>5. s \in Running /\ Keeps(s, x) /\ s.at = "returned" /\ s.seen = x.seen
  <2>1. "returned" \in Stages
    BY DEF Stages, Resting
  <2> QED
    BY <1>2, <1>4, <2>1, Gone
<1>6. x.op # "rotate"
  BY <1>2 DEF CallFits, RotatesAlone, Salters, Resumed
<1>7. CallFits(c, s)' /\ Lone(c, s)
  <2>1. CallFits(c, s)'
    BY <1>2, <1>3, <1>5, <1>6 DEF CallFits, SaltKnown, KeyKnown, HasSalt, RotatesAlone, SetsValues, Salters,
       Resting, Resumed, Keeps
  <2> QED
    BY <1>5, <2>1, FarFromSalt DEF Salters
<1>8. x.job = "export" => x.seen \in Content
  BY <1>2 DEF CallFits, SetsValues
<1>9. x.job = "export" => Exported(x.seen) \in States
  <2>1. contract \in Contracts
    BY DEF IInv, TypeOK
  <2> QED
    BY <1>8, <2>1 DEF Exported, States, Content, Keys
<1>10. \/ Set(c, s) /\ (UNCHANGED file \/ (x.job = "export" /\ file' = {Exported(x.seen)}))
       \/ Set(c, Idle) /\ UNCHANGED file
  BY <1>1, <1>4 DEF Close, Go, Throws
<1>11. CASE Set(c, s)
  <2>1. file' \subseteq States \/ (Set(c, Idle) /\ UNCHANGED file)
    BY <1>9, <1>10 DEF IInv, TypeOK
  <2>2. file' \subseteq States
    BY <2>1 DEF IInv, TypeOK
  <2>3. call' = [call EXCEPT ![c] = s]
    BY <1>11 DEF Set
  <2> QED
    BY <1>1, <1>2, <1>3, <1>5, <1>7, <2>2, <2>3, OneMoves DEF IInv, TypeOK
<1>12. CASE Set(c, Idle) /\ UNCHANGED file
  BY <1>1, <1>2, <1>3, <1>12, IdleStep DEF Set
<1> QED
  BY <1>10, <1>11, <1>12

LEMMA TakeStep ==
  ASSUME IInv, NEW c \in Slots, Take(c)
  PROVE  IInv'
BY IdleStep DEF Take, Set

(* An import asks for the next of its ids, or sets one.                    *)
LEMMA AskFits ==
  ASSUME NEW r \in Running, r.job = "import", r.states \in States,
         NEW ids \in SUBSET Ids, \A i \in ids : r.states[i] # Absent, NEW s \in Ask(r, ids)
  PROVE  \E t, id : Fitting(t, "get", id) /\ s = Primitive(t, "get", id)
<1>1. PICK id \in ids : s = Primitive([r EXCEPT !.ids = ids \ {id}], "get", id)
  BY DEF Ask
<1>2. PICK t : t = [r EXCEPT !.ids = ids \ {id}]
  OBVIOUS
<1>3. t \in Running /\ t.job = "import" /\ t.states = r.states /\ t.ids = ids \ {id}
  BY <1>2 DEF Running
<1>4. \A i \in t.ids \cup {id} : t.states[i] # Absent
  BY <1>3
<1>5. Fitting(t, "get", id)
  BY <1>3, <1>4 DEF Fitting
<1> QED
  BY <1>1, <1>2, <1>5

LEMMA ReturnedRuns ==
  ASSUME NEW r \in Running, NEW s, s = Returned(r)
  PROVE  s \in Running /\ s.at = "returned" /\ s.op = r.op /\ s.val = r.val /\ s.seen = r.seen
         /\ s.id = r.id /\ s.under = r.under /\ s.job = r.job /\ s.key = r.key /\ s.crossed = r.crossed
<1>1. PICK x : x = [r EXCEPT !.at = "returned"]
  OBVIOUS
<1>2. x \in Running /\ Keeps(x, r) /\ x.at = "returned" /\ x.seen = r.seen /\ x.key = r.key
  <2>1. "returned" \in Stages
    BY DEF Stages, Resting
  <2> QED
    BY <1>1, <2>1, Gone
<1>3. PICK y : y = [x EXCEPT !.phase = "none"]
  OBVIOUS
<1>4. y \in Running /\ Unmoved(y, x)
  BY <1>2, <1>3 DEF Running, Unmoved, Keeps
<1>5. PICK z : z = [y EXCEPT !.mode = "none"]
  OBVIOUS
<1>6. z \in Running /\ Unmoved(z, y)
  BY <1>4, <1>5 DEF Running, Unmoved, Keeps
<1>7. s = [z EXCEPT !.states = None]
  BY <1>1, <1>3, <1>5 DEF Returned
<1>8. /\ s \in Running /\ s.at = z.at /\ s.op = z.op /\ s.val = z.val /\ s.seen = z.seen
      /\ s.id = z.id /\ s.under = z.under /\ s.job = z.job /\ s.key = z.key /\ s.crossed = z.crossed
  BY <1>6, <1>7 DEF Running
<1> QED
  BY <1>2, <1>4, <1>6, <1>8 DEF Unmoved, Keeps

LEMMA PhaseTold ==
  ASSUME NEW r \in Running, NEW ph \in {"none", "precheck", "conflict", "import"},
         NEW s, s = [r EXCEPT !.phase = ph]
  PROVE  s \in Running /\ s.job = r.job /\ s.states = r.states /\ s.ids = r.ids
BY DEF Running

LEMMA ImportContinues ==
  ASSUME IInv, NEW c \in Slots, ImportGoesOn(c)
  PROVE  \/ Set(c, Idle)
         \/ Set(c, Returned(call[c]))
         \/ \E r, prim, id : Fitting(r, prim, id) /\ Set(c, Primitive(r, prim, id))
<1>1. PICK x : x = call[c]
  OBVIOUS
<1>2. x \in Running /\ CallFits(c, x) /\ x.at = "close" /\ x.job = "import"
  BY <1>1, CallType DEF ImportGoesOn
<1>3. /\ x.states \in States /\ x.id \in Ids
      /\ \A i \in x.ids \cup {x.id} : x.states[i] # Absent
  BY <1>2 DEF CallFits, SetsValues
<1>4. PICK ids \in SUBSET Ids : ids = x.ids
  BY <1>2 DEF Running
<1>5. \A i \in ids : x.states[i] # Absent
  BY <1>3, <1>4
<1>6. ASSUME NEW s \in Ask(x, ids) PROVE \E t, id : Fitting(t, "get", id) /\ s = Primitive(t, "get", id)
  BY <1>2, <1>3, <1>5, AskFits
<1>7. ASSUME NEW ph \in {"none", "precheck", "conflict", "import"}, NEW asked \in SUBSET Ids,
             \A i \in asked : x.states[i] # Absent, NEW s \in Ask([x EXCEPT !.phase = ph], asked)
      PROVE  \E t, id : Fitting(t, "get", id) /\ s = Primitive(t, "get", id)
  <2>1. PICK r : r = [x EXCEPT !.phase = ph]
    OBVIOUS
  <2>2. r \in Running /\ r.job = "import" /\ r.states = x.states
    BY <1>2, <2>1, PhaseTold
  <2>3. r.states \in States /\ \A i \in asked : r.states[i] # Absent
    BY <1>3, <1>7, <2>2
  <2> QED
    BY <1>7, <2>1, <2>2, <2>3, AskFits
<1>8. ASSUME NEW s, s = Primitive([x EXCEPT !.val = x.states[x.id]], "set", x.id)
      PROVE  \E t, id : Fitting(t, "set", id) /\ s = Primitive(t, "set", id)
  <2>1. PICK v \in Vals : v = x.states[x.id]
    BY <1>3 DEF States, Values
  <2>2. PICK r : r = [x EXCEPT !.val = v]
    OBVIOUS
  <2>3. r \in Running /\ r.job = "import" /\ r.states = x.states /\ r.ids = x.ids /\ r.val = v
    BY <1>2, <2>1, <2>2 DEF Running, Values
  <2>4. Fitting(r, "set", x.id)
    BY <1>3, <2>3 DEF Fitting
  <2> QED
    BY <1>8, <2>1, <2>2, <2>4
<1>9. PICK s : s \in (IF x.op = "get" THEN AfterAsked(x) ELSE AfterSet(x)) /\ Set(c, s)
  BY <1>1 DEF ImportGoesOn
<1>10. \/ s = Idle \/ s = Returned(x) \/ s \in Ask(x, ids)
       \/ s = Primitive([x EXCEPT !.val = x.states[x.id]], "set", x.id)
       \/ \E t, id : Fitting(t, "get", id) /\ s = Primitive(t, "get", id)
  <2>1. CASE x.op = "get" /\ x.phase \in {"precheck", "conflict"}
    <3>1. PICK ph \in {"none", "precheck", "conflict", "import"} :
            ph = IF x.seen # Absent THEN "conflict" ELSE x.phase
      BY <1>2 DEF Running
    <3>2. [x EXCEPT !.phase = IF x.seen # Absent THEN "conflict" ELSE @] = [x EXCEPT !.phase = ph]
      BY <3>1
    <3>3. PICK all \in SUBSET Ids : all = {id \in Ids : x.states[id] # Absent}
      OBVIOUS
    <3>4. \/ s \in Ask([x EXCEPT !.phase = ph], ids)
          \/ s = Idle
          \/ s \in Ask([x EXCEPT !.phase = "import"], all)
      BY <1>4, <1>9, <2>1, <3>2, <3>3 DEF AfterAsked
    <3>5. CASE s \in Ask([x EXCEPT !.phase = ph], ids)
      BY <1>5, <1>7, <3>5
    <3>6. CASE s \in Ask([x EXCEPT !.phase = "import"], all)
      BY <1>7, <3>3, <3>6
    <3> QED
      BY <3>4, <3>5, <3>6
  <2>2. CASE x.op = "get" /\ x.phase \notin {"precheck", "conflict"}
    BY <1>4, <1>9, <2>2 DEF AfterAsked
  <2>3. CASE x.op # "get"
    BY <1>4, <1>9, <2>3 DEF AfterSet
  <2> QED
    BY <2>1, <2>2, <2>3
<1>11. \/ s = Idle \/ s = Returned(x)
       \/ \E t, prim, id : Fitting(t, prim, id) /\ s = Primitive(t, prim, id)
  BY <1>6, <1>8, <1>10
<1> QED
  BY <1>1, <1>9, <1>11

LEMMA ImportGoesOnStep ==
  ASSUME IInv, NEW c \in Slots, ImportGoesOn(c)
  PROVE  IInv'
<1>1. PICK x : x = call[c]
  OBVIOUS
<1>2. x \in Running /\ CallFits(c, x) /\ x.at = "close" /\ x.job = "import"
  BY <1>1, CallType DEF ImportGoesOn
<1>3. UNCHANGED <<level, astray, salt, nextSalt, salting, lock, contract, password, opens, file>>
  BY DEF ImportGoesOn
<1>4. call[c].at # "rotated"
  BY <1>1, <1>2
<1>5. CASE Set(c, Idle)
  BY <1>3, <1>4, <1>5, IdleStep DEF Set
<1>6. CASE Set(c, Returned(x))
  <2>1. PICK s : s = Returned(x)
    OBVIOUS
  <2>2. /\ s \in Running /\ s.at = "returned" /\ s.op = x.op /\ s.val = x.val /\ s.seen = x.seen
        /\ s.id = x.id /\ s.under = x.under /\ s.job = x.job
    BY <1>2, <2>1, ReturnedRuns
  <2>3. call' = [call EXCEPT ![c] = s]
    BY <1>6, <2>1 DEF Set
  <2>4. CallFits(c, s)'
    BY <1>2, <1>3, <2>2 DEF CallFits, SaltKnown, KeyKnown, HasSalt, RotatesAlone, SetsValues, Salters, Resting,
       Resumed
  <2>5. Lone(c, s)
    BY <2>2, FarFromSalt DEF Salters
  <2> QED
    BY <1>3, <1>4, <2>2, <2>3, <2>4, <2>5, OneMoves DEF IInv, TypeOK
<1>7. ASSUME NEW r, NEW prim, NEW id, Fitting(r, prim, id), Set(c, Primitive(r, prim, id))
      PROVE  IInv'
  BY <1>3, <1>4, <1>7, PrimitiveSet
<1> QED
  BY <1>1, <1>5, <1>6, <1>7, ImportContinues

(* Rotation.  The lock is left, and who waits for it or joined its promise *)
(* goes on; none of them holds a key.                                      *)
LEMMA LockLeft ==
  ASSUME NEW d, NEW y, CallFits(d, y), UNCHANGED <<level, astray, salt, opens>>,
         salting' = salting \/ salting # d, lock' = lock \/ (lock' = None /\ lock # d)
  PROVE  CallFits(d, y)'
<1>1. SaltKnown(d, y)' /\ KeyKnown(y)' /\ SetsValues(y)
  BY DEF CallFits, SaltKnown, KeyKnown, HasSalt
<1>2. RotatesAlone(d, y)'
  BY DEF CallFits, RotatesAlone
<1> QED
  BY <1>1, <1>2 DEF CallFits

LEMMA Woken ==
  ASSUME NEW d, NEW y \in Running, NEW at, CallFits(d, y)', NEW s, s = [y EXCEPT !.at = at],
         (y.at = "wait" /\ at = "check") \/ (y.at = "join" /\ at = "doomed")
  PROVE  s \in Running /\ s.at = at /\ CallFits(d, s)' /\ ~HasSalt(s)
<1>1. at \in Stages
  BY DEF Stages, InFlight, Resumed
<1>2. /\ s \in Running /\ Keeps(s, y) /\ s.at = at
      /\ s.salt = y.salt /\ s.password = y.password /\ s.seen = y.seen /\ s.key = y.key
  BY <1>1, Gone
<1>3. SaltKnown(d, s)' /\ KeyKnown(s)' /\ ~HasSalt(s)
  BY <1>2 DEF SaltKnown, KeyKnown, HasSalt, Salters
<1>4. RotatesAlone(d, s)'
  BY <1>2 DEF CallFits, RotatesAlone, Salters, Resting, Resumed, Keeps
<1>5. SetsValues(s)
  BY <1>2 DEF CallFits, SetsValues, Salters, Keeps
<1> QED
  BY <1>2, <1>3, <1>4, <1>5 DEF CallFits

(* A call is given up, and others with it or because of it.                *)
GivesUp(d, y, s) ==
  /\ s \in Running /\ CallFits(d, s)' /\ (s.at = "newsalt" => y.at = "newsalt") /\ (HasSalt(s) => HasSalt(y))
  /\ (s.at = "rotated" => s = y) /\ (s = y \/ y.at \notin {"rotated"})

LEMMA NewSaltStays ==
  ASSUME NewSaltAlone,
         \A d \in Slots : /\ call'[d].at = "newsalt" => call[d].at = "newsalt"
                          /\ HasSalt(call'[d]) => HasSalt(call[d])
  PROVE  NewSaltAlone'
BY DEF NewSaltAlone, HasSalt

LEMMA ReleasedStep ==
  ASSUME IInv, NEW c \in Slots, lock = c, Released(c), lock' = None, password' = opens,
         UNCHANGED <<level, astray, salt, nextSalt, salting, contract, opens, file>>
  PROVE  IInv'
<1>1. ASSUME NEW d \in Slots \ {c}
      PROVE  \E y, s \in Running : call[d] = y /\ call'[d] = s /\ GivesUp(d, y, s)
  <2>1. PICK y : y = call[d]
    OBVIOUS
  <2>2. y \in Running /\ CallFits(d, y)
    BY <2>1, CallType
  <2>3. CallFits(d, y)'
    BY <2>2, LockLeft
  <2>4. CASE y.at = "wait"
    <3>1. PICK s : s = [y EXCEPT !.at = "check"]
      OBVIOUS
    <3>2. s \in Running /\ s.at = "check" /\ CallFits(d, s)' /\ ~HasSalt(s)
      BY <2>2, <2>3, <2>4, <3>1, Woken
    <3> QED
      BY <2>1, <2>2, <2>4, <3>1, <3>2 DEF GivesUp, Released
  <2>5. CASE y.at # "wait"
    BY <2>1, <2>2, <2>3, <2>5 DEF GivesUp, Released
  <2> QED
    BY <2>4, <2>5
<1>2. call'[c] = Idle
  BY DEF Released
<1>3. \A d \in Slots : call'[d] \in Running /\ CallFits(d, call[d])'
  <2>1. CallFits(c, call[c])'
    <3>1. PICK s : s = Idle
      OBVIOUS
    <3>2. CallFits(c, s)'
      BY <3>1, IdleFits
    <3> QED
      BY <1>2, <3>1, <3>2
  <2> QED
    BY <1>1, <1>2, <2>1, IdleRuns DEF GivesUp
<1>4. TypeOK'
  <2>1. call' \in [Slots -> Running]
    BY <1>3 DEF Released
  <2> QED
    BY <2>1 DEF IInv, TypeOK
<1>5. EntriesOpen' /\ PasswordKnown'
  BY DEF IInv, EntriesOpen, PasswordKnown
<1>6. NewSaltAlone'
  <2>1. \A d \in Slots : /\ call'[d].at = "newsalt" => call[d].at = "newsalt"
                         /\ HasSalt(call'[d]) => HasSalt(call[d])
    BY <1>1, <1>2, IdleRuns DEF GivesUp, HasSalt
  <2> QED
    BY <2>1, NewSaltStays DEF IInv
<1> QED
  BY <1>3, <1>4, <1>5, <1>6 DEF IInv

LEMMA RotationScanStep ==
  ASSUME IInv, NEW c \in Slots, RotationScan(c)
  PROVE  IInv'
<1>1. PICK x : x = call[c]
  OBVIOUS
<1>2. x \in Running /\ CallFits(c, x) /\ x.at = "scan"
  BY <1>1, CallType DEF RotationScan
<1>3. x.op = "rotate" /\ lock = c /\ x.seen = None
  BY <1>2 DEF CallFits, RotatesAlone, Resumed
<1>4. UNCHANGED <<level, astray, salt, nextSalt, salting, contract, password, opens, file>>
  BY DEF RotationScan
<1>5. password = opens
  BY <1>1, <1>2, <1>3, PasswordOpens DEF Resting, Resumed
<1>6. PICK y : y = [x EXCEPT !.at = "rotated"]
  OBVIOUS
<1>7. y \in Running /\ Keeps(y, x) /\ y.at = "rotated" /\ y.seen = None
  <2>1. "rotated" \in Stages
    BY DEF Stages, InFlight
  <2> QED
    BY <1>2, <1>3, <1>6, <2>1, Gone
<1>8. PICK z : z = [x EXCEPT !.seen = Plain]
  OBVIOUS
<1>9. PICK w : w = [z EXCEPT !.at = "batch"]
  OBVIOUS
<1>10. w \in Running /\ Keeps(w, x) /\ w.at = "batch" /\ w.seen = Plain
  <2>1. PICK content \in Content : content = Plain
    BY WhatIsHeld
  <2>2. z \in Running /\ Keeps(z, x) /\ z.seen = Plain
    BY <1>2, <1>8, <2>1, Answered
  <2>3. "batch" \in Stages
    BY DEF Stages, InFlight
  <2>4. w \in Running /\ Keeps(w, z) /\ w.at = "batch" /\ w.seen = z.seen
    BY <1>9, <2>2, <2>3, Gone
  <2> QED
    BY <2>2, <2>4 DEF Keeps
<1>11. \/ UNCHANGED lock /\ Set(c, y)
       \/ UNCHANGED lock /\ Set(c, w)
       \/ Released(c) /\ lock' = None
  BY <1>1, <1>6, <1>8, <1>9 DEF RotationScan
<1>12. ASSUME NEW r \in {y, w}, Set(c, r), UNCHANGED lock PROVE IInv'
  <2>1. CallFits(c, y)'
    BY <1>2, <1>3, <1>4, <1>7, <1>12 DEF CallFits, SaltKnown, KeyKnown, HasSalt, RotatesAlone, SetsValues,
       Salters, Resting, Resumed, Keeps
  <2>2. CallFits(c, w)'
    <3>1. SaltKnown(c, w)' /\ KeyKnown(w)'
      BY <1>3, <1>10 DEF SaltKnown, KeyKnown, HasSalt, Salters
    <3>2. PICK content \in Content : content = Plain /\ \A k \in Keys : content[k] = Absent => level[k] = None
      BY WhatIsHeld
    <3>3. RotatesAlone(c, w)'
      BY <1>2, <1>3, <1>4, <1>10, <1>12, <3>2 DEF RotatesAlone, Keeps
    <3>4. SetsValues(w)
      BY <1>2, <1>3, <1>10 DEF CallFits, SetsValues, Keeps, Salters
    <3> QED
      BY <3>1, <3>3, <3>4 DEF CallFits
  <2>3. r \in Running /\ call' = [call EXCEPT ![c] = r]
    BY <1>7, <1>10, <1>12 DEF Set
  <2>4. CallFits(c, r)' /\ Lone(c, r)
    <3>1. CallFits(c, r)'
      BY <1>12, <2>1, <2>2
    <3> QED
      BY <1>7, <1>10, <1>12, <3>1, FarFromSalt DEF Salters
  <2> QED
    BY <1>4, <1>5, <1>12, <2>3, <2>4, OneMoves DEF IInv, TypeOK
<1>13. CASE Released(c) /\ lock' = None
  BY <1>3, <1>4, <1>5, <1>13, ReleasedStep
<1> QED
  BY <1>11, <1>12, <1>13

LEMMA RotationReturnsStep ==
  ASSUME IInv, NEW c \in Slots, RotationReturns(c)
  PROVE  IInv'
<1>1. PICK x : x = call[c]
  OBVIOUS
<1>2. x \in Running /\ CallFits(c, x) /\ x.at = "rotated"
  BY <1>1, CallType DEF RotationReturns
<1>3. x.op = "rotate" /\ lock = c
  BY <1>2 DEF CallFits, RotatesAlone, Resumed
<1>4. x.seen # None => x.password = opens
  BY <1>2 DEF CallFits, RotatesAlone
<1>5. x.seen = None => password = opens
  <2>1. \A d \in Slots : call[d].at = "rotated" => lock = d
    BY DEF IInv, CallFits, RotatesAlone, Resumed
  <2> QED
    BY <1>1, <1>3, <2>1 DEF IInv, PasswordKnown
<1> QED
  BY <1>1, <1>3, <1>4, <1>5, ReleasedStep DEF RotationReturns

LEMMA RotationBatchStep ==
  ASSUME IInv, NEW c \in Slots, RotationBatch(c)
  PROVE  IInv'
<1>1. PICK x : x = call[c]
  OBVIOUS
<1>2. x \in Running /\ CallFits(c, x) /\ x.at = "batch"
  BY <1>1, CallType DEF RotationBatch
<1>3. /\ x.op = "rotate" /\ lock = c
      /\ x.seen \in Content /\ \A k \in Keys \ astray : x.seen[k] = Absent => level[k] = None
  BY <1>2 DEF CallFits, RotatesAlone, Resumed
<1>4. PICK n \in Nat \ {0} : n = nextSalt
  BY DEF IInv, TypeOK
<1>5. PICK p \in Passwords \cup {None} : p = x.password
  BY <1>2 DEF Running
<1>6. PICK r : r = [x EXCEPT !.at = "rotated"]
  OBVIOUS
<1>7. r \in Running /\ Keeps(r, x) /\ r.at = "rotated" /\ r.seen = x.seen /\ r.password = p
  <2>1. "rotated" \in Stages
    BY DEF Stages, InFlight
  <2> QED
    BY <1>2, <1>5, <1>6, <2>1, Gone
<1>8. /\ level' = [k \in Keys |-> IF x.seen[k] = Absent THEN level[k] ELSE Entry(n, p, x.seen[k])]
      /\ salt' = n /\ nextSalt' = n + 1 /\ opens' = p
      /\ astray' = {k \in astray : x.seen[k] = Absent}
      /\ call' = [call EXCEPT ![c] = r]
      /\ UNCHANGED <<salting, lock, contract, password, file>>
  BY <1>1, <1>4, <1>5, <1>6 DEF RotationBatch, Go, Set
<1>9. ASSUME NEW k \in Keys
      PROVE  /\ level'[k] \in Stored \cup {None}
             /\ k \in astray' \/ level'[k] = None \/ (level'[k].salt = n /\ level'[k].password = p)
  <2>1. CASE x.seen[k] = Absent
    BY <1>3, <1>8, <2>1 DEF IInv, TypeOK
  <2>2. CASE x.seen[k] # Absent
    <3>1. x.seen[k] \in Vals
      BY <1>3, <2>2 DEF Content, Values
    <3>2. level'[k] = Entry(n, p, x.seen[k])
      BY <1>8, <2>2
    <3> QED
      BY <1>4, <1>5, <3>1, <3>2 DEF Entry, Stored
  <2> QED
    BY <2>1, <2>2
<1>10. level' \in [Keys -> Stored \cup {None}]
  <2>1. level' = [k \in Keys |-> level'[k]]
    BY <1>8
  <2> QED
    BY <1>9, <2>1
<1>11. TypeOK'
  BY <1>4, <1>7, <1>8, <1>10 DEF IInv, TypeOK
<1>12. EntriesOpen'
  BY <1>4, <1>8, <1>9 DEF EntriesOpen
<1>15. call'[c] = r /\ \A d \in Slots \ {c} : call'[d] = call[d]
  BY <1>8 DEF IInv, TypeOK
<1>13. PasswordKnown'
  <2>1. call'[c].at = "rotated" /\ call'[c].seen # None
    BY <1>3, <1>7, <1>15, NamesAssumption
  <2> QED
    BY <2>1 DEF PasswordKnown
<1>14. CallFits(c, r)'
  <2>1. SaltKnown(c, r)' /\ KeyKnown(r)'
    BY <1>3, <1>7 DEF SaltKnown, KeyKnown, HasSalt, Salters
  <2>2. RotatesAlone(c, r)'
    BY <1>3, <1>7, <1>8 DEF RotatesAlone, Keeps, Salters
  <2>3. SetsValues(r)
    BY <1>2, <1>3, <1>7 DEF CallFits, SetsValues, Keeps, Salters
  <2> QED
    BY <2>1, <2>2, <2>3 DEF CallFits
<1>16. ASSUME NEW d \in Slots \ {c}
       PROVE  CallFits(d, call[d])'
  <2>1. PICK y : y = call[d]
    OBVIOUS
  <2>2. CallFits(d, y)
    BY <2>1, CallType
  <2>3. y.crossed \/ y.at \in Resting \cup Resumed
    BY <1>3, <2>2, NamesAssumption DEF CallFits, RotatesAlone
  <2>4. SaltKnown(d, y)' /\ KeyKnown(y)'
    BY <1>8, <2>2, <2>3 DEF CallFits, SaltKnown, KeyKnown, HasSalt, Resting, Resumed, Salters
  <2>5. y.at \in {"scan", "batch", "rotated"} => FALSE
    BY <1>3, <2>2, NamesAssumption DEF CallFits, RotatesAlone, Resumed
  <2>6. RotatesAlone(d, y)'
    BY <1>8, <2>2, <2>5 DEF CallFits, RotatesAlone
  <2>7. CallFits(d, y)'
    BY <2>2, <2>4, <2>6 DEF CallFits, SetsValues
  <2> QED
    BY <1>15, <2>1, <2>7
<1>17. NewSaltAlone'
  <2>1. \A d \in Slots : /\ call'[d].at = "newsalt" => call[d].at = "newsalt"
                         /\ HasSalt(call'[d]) => HasSalt(call[d])
    BY <1>7, <1>15 DEF HasSalt
  <2> QED
    BY <2>1, NewSaltStays DEF IInv
<1>18. CallFits(c, call[c])'
  BY <1>14, <1>15
<1> QED
  BY <1>11, <1>12, <1>13, <1>16, <1>17, <1>18 DEF IInv

(* Clearing and migration come at any moment: the calls past the lock were *)
(* crossed, and what a batch will not replace is astray.                   *)
LEMMA CrossedStep ==
  ASSUME IInv, call' = Crossed, lock # None => NoneNew, level' \in [Keys -> Stored \cup {None}], salt' \in Nat,
         EntriesOpen', UNCHANGED <<nextSalt, salting, lock, contract, password, opens, file>>
  PROVE  IInv'
<1>1. ASSUME NEW d \in Slots
      PROVE  \E y \in Running : /\ call'[d] = y /\ CallFits(d, y)' /\ ~HasSalt(y)
                                /\ y.at = call[d].at /\ y.seen = call[d].seen
  <2>1. PICK x \in Running : x = call[d] /\ CallFits(d, x)
    BY CallType
  <2>2. PICK y : y = Cross(x)
    OBVIOUS
  <2>3. /\ y \in Running /\ CallFits(d, y)' /\ ~HasSalt(y)
        /\ y.at = x.at /\ y.seen = x.seen
    BY <2>1, <2>2, CrossFits
  <2> QED
    BY <2>1, <2>2, <2>3, AllCrossed
<1>2. \A d \in Slots : call'[d] \in Running /\ CallFits(d, call[d])' /\ ~HasSalt(call'[d])
  BY <1>1
<1>3. call' \in [Slots -> Running]
  BY <1>2 DEF Crossed
<1>4. TypeOK'
  BY <1>3 DEF IInv, TypeOK
<1>5. PasswordKnown'
  BY <1>1 DEF IInv, PasswordKnown
<1>6. NewSaltAlone'
  BY <1>2 DEF NewSaltAlone, HasSalt
<1> QED
  BY <1>2, <1>4, <1>5, <1>6 DEF IInv

LEMMA ThrowStep ==
  ASSUME IInv, NEW c \in Slots, Throw(c)
  PROVE  IInv'
<1>1. PICK x : x = call[c]
  OBVIOUS
<1>2. x \in Running /\ CallFits(c, x) /\ x.at \in InFlight
  BY <1>1, CallType DEF Throw
<1>3. UNCHANGED <<level, astray, salt, nextSalt, contract, opens, file>>
  BY DEF Throw
<1>4. /\ call' = [d \in Slots |->
                    IF d = c THEN Idle
                    ELSE IF salting = c /\ call[d].at = "join" THEN [call[d] EXCEPT !.at = "doomed"]
                    ELSE IF x.op = "rotate" /\ call[d].at = "wait" THEN [call[d] EXCEPT !.at = "check"]
                    ELSE call[d]]
      /\ salting' = IF salting = c THEN None ELSE salting
      /\ lock' = IF x.op = "rotate" THEN None ELSE lock
      /\ password' = IF x.op = "rotate" THEN opens ELSE password
  BY <1>1 DEF Throw
<1>5. x.op = "rotate" => lock = c
  BY <1>2 DEF CallFits, RotatesAlone, InFlight, Resumed
<1>6. x.at = "rotated" => x.op = "rotate"
  BY <1>2 DEF CallFits, RotatesAlone
<1>7. ASSUME NEW d \in Slots \ {c}
      PROVE  \E y, s \in Running : call[d] = y /\ call'[d] = s /\ GivesUp(d, y, s)
  <2>1. PICK y : y = call[d]
    OBVIOUS
  <2>2. y \in Running /\ CallFits(d, y)
    BY <2>1, CallType
  <2>3. CallFits(d, y)'
    BY <1>3, <1>4, <1>5, <2>2, LockLeft
  <2>4. CASE salting = c /\ y.at = "join"
    <3>1. PICK s : s = [y EXCEPT !.at = "doomed"]
      OBVIOUS
    <3>2. s \in Running /\ s.at = "doomed" /\ CallFits(d, s)' /\ ~HasSalt(s)
      BY <2>2, <2>3, <2>4, <3>1, Woken
    <3> QED
      BY <1>4, <2>1, <2>2, <2>4, <3>1, <3>2 DEF GivesUp
  <2>5. CASE ~(salting = c /\ y.at = "join") /\ x.op = "rotate" /\ y.at = "wait"
    <3>1. PICK s : s = [y EXCEPT !.at = "check"]
      OBVIOUS
    <3>2. s \in Running /\ s.at = "check" /\ CallFits(d, s)' /\ ~HasSalt(s)
      BY <2>2, <2>3, <2>5, <3>1, Woken
    <3> QED
      BY <1>4, <2>1, <2>2, <2>5, <3>1, <3>2 DEF GivesUp
  <2>6. CASE ~(salting = c /\ y.at = "join") /\ ~(x.op = "rotate" /\ y.at = "wait")
    BY <1>4, <2>1, <2>2, <2>3, <2>6 DEF GivesUp
  <2> QED
    BY <2>4, <2>5, <2>6
<1>8. call'[c] = Idle
  BY <1>4
<1>9. \A d \in Slots : call'[d] \in Running /\ CallFits(d, call[d])'
  <2>1. CallFits(c, call[c])'
    <3>1. PICK s : s = Idle
      OBVIOUS
    <3>2. CallFits(c, s)'
      BY <3>1, IdleFits
    <3> QED
      BY <1>8, <3>1, <3>2
  <2> QED
    BY <1>7, <1>8, <2>1, IdleRuns DEF GivesUp
<1>10. TypeOK'
  <2>1. call' \in [Slots -> Running]
    BY <1>4, <1>9
  <2>2. password' \in Passwords \cup {None}
    BY <1>4 DEF IInv, TypeOK
  <2> QED
    BY <1>3, <2>1, <2>2 DEF IInv, TypeOK
<1>11. EntriesOpen'
  BY <1>3 DEF IInv, EntriesOpen
<1>12. PasswordKnown'
  <2>1. CASE x.op = "rotate"
    BY <1>3, <1>4, <2>1 DEF PasswordKnown
  <2>2. CASE x.op # "rotate"
    <3>1. \A d \in Slots : call[d].at = "rotated" => call'[d] = call[d]
      BY <1>1, <1>6, <1>7, <2>2 DEF GivesUp
    <3> QED
      BY <1>3, <1>4, <2>2, <3>1 DEF IInv, PasswordKnown
  <2> QED
    BY <2>1, <2>2
<1>13. NewSaltAlone'
  <2>1. \A d \in Slots : /\ call'[d].at = "newsalt" => call[d].at = "newsalt"
                         /\ HasSalt(call'[d]) => HasSalt(call[d])
    BY <1>7, <1>8, IdleRuns DEF GivesUp, HasSalt
  <2> QED
    BY <2>1, NewSaltStays DEF IInv
<1> QED
  BY <1>9, <1>10, <1>11, <1>12, <1>13 DEF IInv

LEMMA ClearStep ==
  ASSUME IInv, Clear
  PROVE  IInv'
<1>1. NoneNew /\ level' \in [Keys -> Stored \cup {None}] /\ salt' \in Nat /\ EntriesOpen'
  BY DEF Clear, NoneNew, EntriesOpen
<1> QED
  BY <1>1, CrossedStep DEF Clear

(* The contract changes, which no call has a share in.                     *)
LEMMA SetContractAddressStep ==
  ASSUME IInv, SetContractAddress
  PROVE  IInv'
<1>1. UNCHANGED <<level, astray, salt, nextSalt, salting, lock, call, password, opens, file>>
      /\ contract' \in Contracts
  BY DEF SetContractAddress
<1>2. TypeOK' /\ EntriesOpen' /\ PasswordKnown' /\ NewSaltAlone'
  BY <1>1 DEF IInv, TypeOK, EntriesOpen, PasswordKnown, NewSaltAlone, HasSalt
<1>3. ASSUME NEW c \in Slots PROVE CallFits(c, call[c])'
  <2>1. PICK x : x = call[c]
    OBVIOUS
  <2>2. CallFits(c, x)'
    BY <1>1, <2>1, CallType, FitStays, SameNothingNew
  <2> QED
    BY <1>1, <2>1, <2>2
<1> QED
  BY <1>2, <1>3 DEF IInv

LEMMA MigrateStep ==
  ASSUME IInv, Migrate
  PROVE  IInv'
<1>1. PICK copied : copied = {k \in Keys : OldLevel.entries[k] # None}
  OBVIOUS
<1>2. PICK kept : kept = IF salt \in {0, salt'} THEN astray ELSE Keys
  OBVIOUS
<1>3. /\ level' = [k \in Keys |-> IF k \in copied THEN OldLevel.entries[k] ELSE level[k]]
      /\ salt' = IF OldLevel.salt = 0 THEN salt ELSE OldLevel.salt
      /\ call' = Crossed
      /\ astray' = IF lock = None /\ OldLevel.password = opens THEN kept \ copied ELSE kept \cup copied
      /\ UNCHANGED <<nextSalt, cache, salting, lock, contract, password, opens, file>>
  BY <1>1, <1>2 DEF Migrate
<1>4. /\ OldLevel.entries \in [Keys -> Stored \cup {None}] /\ OldLevel.salt \in Nat
      /\ \A k \in Keys : OldLevel.entries[k] # None /\ OldLevel.entries[k].fmt # "plain" =>
           /\ OldLevel.salt # 0 /\ OldLevel.entries[k].salt = OldLevel.salt
           /\ OldLevel.entries[k].password = OldLevel.password
  BY LevelsAssumption
<1>5. level' \in [Keys -> Stored \cup {None}] /\ salt' \in Nat
  BY <1>3, <1>4 DEF IInv, TypeOK
<1>6. ASSUME NEW k \in Keys \ astray'
      PROVE  IF k \in copied THEN lock = None /\ OldLevel.password = opens /\ level'[k] = OldLevel.entries[k]
             ELSE k \notin astray /\ salt \in {0, salt'} /\ level'[k] = level[k]
  BY <1>2, <1>3
<1>7. EntriesOpen'
  <2>1. ASSUME NEW k \in Keys \ astray', level'[k] # None /\ level'[k].fmt # "plain"
        PROVE  salt' # 0 /\ level'[k].salt = salt' /\ level'[k].password = opens'
    <3>1. CASE k \in copied
      BY <1>3, <1>4, <1>6, <2>1, <3>1
    <3>2. CASE k \notin copied
      BY <1>3, <1>6, <2>1, <3>2 DEF IInv, EntriesOpen
    <3> QED
      BY <3>1, <3>2
  <2> QED
    BY <2>1 DEF EntriesOpen
<1>8. lock # None => NoneNew
  BY <1>3, <1>6 DEF NoneNew
<1> QED
  BY <1>3, <1>5, <1>7, <1>8, CrossedStep

LEMMA InvalidateStep ==
  ASSUME IInv, InvalidateEncryptionCache \/ UNCHANGED vars
  PROVE  IInv'
<1>1. UNCHANGED <<level, astray, salt, nextSalt, salting, lock, call, contract, password, opens, file>>
  BY DEF InvalidateEncryptionCache, vars
<1>2. TypeOK' /\ EntriesOpen' /\ PasswordKnown' /\ NewSaltAlone'
  BY <1>1 DEF IInv, TypeOK, EntriesOpen, PasswordKnown, NewSaltAlone, HasSalt
<1>3. ASSUME NEW c \in Slots PROVE CallFits(c, call[c])'
  <2>1. PICK x : x = call[c]
    OBVIOUS
  <2>2. CallFits(c, x)'
    BY <1>1, <2>1, CallType, FitStays, SameNothingNew
  <2> QED
    BY <1>1, <2>1, <2>2
<1> QED
  BY <1>2, <1>3 DEF IInv

LEMMA CrashStep ==
  ASSUME IInv, Crash
  PROVE  IInv'
<1>1. \A c \in Slots : call'[c] = Idle
  BY DEF Crash
<1>2. TypeOK'
  BY IdleRuns DEF Crash, IInv, TypeOK
<1>3. EntriesOpen' /\ PasswordKnown'
  BY DEF Crash, IInv, EntriesOpen, PasswordKnown
<1>5. NewSaltAlone'
  BY <1>1, IdleRuns DEF NewSaltAlone
<1>4. ASSUME NEW c \in Slots PROVE CallFits(c, call[c])'
  <2>1. PICK x : x = Idle
    OBVIOUS
  <2>2. CallFits(c, x)'
    BY <2>1, IdleFits
  <2> QED
    BY <1>1, <2>1, <2>2
<1> QED
  BY <1>2, <1>3, <1>4, <1>5 DEF IInv

LEMMA InitFits ==
  ASSUME Init
  PROVE  IInv
<1>1. PICK l \in Levels : level = l.entries /\ salt = l.salt /\ password = l.password
                          /\ opens = l.password
  BY DEF Init
<1>2. /\ l.entries \in [Keys -> Stored \cup {None}] /\ l.salt \in Nat /\ l.password \in Passwords
      /\ \A k \in Keys : l.entries[k] # None /\ l.entries[k].fmt # "plain" =>
           l.salt # 0 /\ l.entries[k].salt = l.salt /\ l.entries[k].password = l.password
  BY LevelsAssumption
<1>3. call \in [Slots -> Running] /\ \A c \in Slots : call[c] = Idle
  BY IdleRuns DEF Init
<1>4. file \subseteq States
  BY FilesAssumption DEF Init
<1>5. TypeOK
  BY <1>1, <1>2, <1>3, <1>4 DEF Init, TypeOK
<1>6. EntriesOpen /\ PasswordKnown
  BY <1>1, <1>2 DEF EntriesOpen, PasswordKnown
<1>7. (\A c \in Slots : CallFits(c, call[c])) /\ NewSaltAlone
  BY <1>3, IdleFits, IdleRuns DEF NewSaltAlone
<1> QED
  BY <1>5, <1>6, <1>7 DEF IInv

LEMMA StepFits ==
  ASSUME IInv, [Next]_vars
  PROVE  IInv'
<1>1. ASSUME NEW c \in Slots, Starts(c) PROVE IInv'
  BY <1>1, AsksStep, ChangePasswordStep DEF Starts, Asks
<1>2. ASSUME NEW c \in Slots, Expire(c) PROVE IInv'
  BY <1>2, ExpireStep
<1>3. ASSUME NEW c \in Slots, Proceeds(c) PROVE IInv'
  BY <1>3, RecheckStep, PastStep, ReadSaltStep, PutSaltStep, SaltedStep, TakeKeyStep, ReadStep,
     ReencryptStep, WriteStep, CloseStep, ImportGoesOnStep DEF Proceeds
<1>4. ASSUME NEW c \in Slots, Rotates(c) PROVE IInv'
  BY <1>4, RotationScanStep, RotationBatchStep, RotationReturnsStep DEF Rotates
<1>5. ASSUME NEW c \in Slots, Throw(c) PROVE IInv'
  BY <1>5, ThrowStep
<1>6. ASSUME NEW c \in Slots, Take(c) PROVE IInv'
  BY <1>6, TakeStep
<1>7. CASE Clear
  BY <1>7, ClearStep
<1>8. CASE SetContractAddress
  BY <1>8, SetContractAddressStep
<1>9. CASE InvalidateEncryptionCache \/ UNCHANGED vars
  BY <1>9, InvalidateStep
<1>10. CASE Migrate
  BY <1>10, MigrateStep
<1>11. CASE Crash
  BY <1>11, CrashStep
<1> QED
  BY <1>1, <1>2, <1>3, <1>4, <1>5, <1>6, <1>7, <1>8, <1>9, <1>10, <1>11 DEF Next

(* The invariant of the provider.                                          *)
THEOREM ProviderInvariant == Spec => []IInv
<1>1. Init => IInv
  BY InitFits
<1>2. IInv /\ [Next]_vars => IInv'
  BY StepFits
<1> QED
  BY <1>1, <1>2, PTL DEF Spec

(* Every variable of the provider, and every field of a call, has its type *)
(* in every reachable state.                                               *)
THEOREM ProviderTypeCorrect == Spec => []TypeOK
<1>1. IInv => TypeOK
  BY DEF IInv
<1> QED
  BY <1>1, ProviderInvariant, PTL

(* The salt in the metadata and the password the level is under open every *)
(* entry of it but those astray, and every call that was not crossed holds *)
(* the key of that salt and that password between getOrCreateEncryption    *)
(* and its last write: whatever calls are in flight when a rotation,       *)
(* clear(), a migration or a change of contract begins, whatever fails,    *)
(* and with a crash between any two awaits.                                *)
THEOREM OneKeyOpensEverything == Spec => []OneKeyOpensAll
<1>1. IInv => OneKeyOpensAll
  <2> SUFFICES ASSUME IInv PROVE OneKeyOpensAll
    OBVIOUS
  <2>1. \A k \in Entries \ astray : level[k].fmt # "plain" => level[k].salt = salt /\ level[k].password = opens
    BY DEF IInv, EntriesOpen, Entries
  <2>2. ASSUME NEW c \in Slots, ~call[c].crossed
        PROVE  /\ call[c].at \in {"read", "reput", "write"} /\ call[c].op # "remove" =>
                    call[c].salt = salt /\ call[c].password = opens
               /\ call[c].at = "newsalt" => salt = 0
    <3>1. PICK x : x = call[c] /\ CallFits(c, x) /\ ~x.crossed
      BY <2>2, CallType
    <3>2. x.at \in {"read", "reput", "write"} => x.op # "rotate"
      BY <3>1 DEF CallFits, RotatesAlone, Resumed, Salters
    <3> QED
      BY <3>1, <3>2 DEF CallFits, SaltKnown, KeyKnown, HasSalt
  <2> QED
    BY <2>1, <2>2 DEF OneKeyOpensAll
<1> QED
  BY <1>1, ProviderInvariant, PTL

-----------------------------------------------------------------------------
(* Who is outside while a rotation holds the lock.                         *)
LEMMA OneStaysOut ==
  ASSUME IInv, NEW c \in Slots, NEW r, call' = [call EXCEPT ![c] = r],
         lock # None /\ call[c].at \in Outside => r.at \in Outside
  PROVE  NoneEnters
BY DEF IInv, TypeOK, NoneEnters

LEMMA WhoIsInside ==
  ASSUME IInv, NEW c \in Slots, call[c].at \notin Outside, \E r : Set(c, r)
  PROVE  NoneEnters
BY OneStaysOut DEF Set

LEMMA WaitsForLock ==
  ASSUME IInv, NEW c \in Slots, NEW r, Rotation(r), Locks(c, r)
  PROVE  NoneEnters
<1>1. PICK s : s = [r EXCEPT !.at = "wait"]
  OBVIOUS
<1>2. s.at = "wait"
  BY <1>1 DEF Rotation, Running
<1>3. lock # None => call' = [call EXCEPT ![c] = s]
  BY <1>1 DEF Locks, Set
<1>4. CASE lock # None
  BY <1>2, <1>3, <1>4, OneStaysOut DEF Outside, Resumed
<1> QED
  BY <1>4 DEF NoneEnters

LEMMA PrimitiveWaits ==
  ASSUME IInv, NEW c \in Slots, NEW r, NEW prim, NEW id, Fitting(r, prim, id),
         Set(c, Primitive(r, prim, id))
  PROVE  NoneEnters
<1>1. PICK s : s = Primitive(r, prim, id)
  OBVIOUS
<1>2. /\ r \in Running /\ prim \in {"get", "set", "remove", "scan"} /\ id \in Ids \cup {None}
      /\ contract \in Contracts
  BY DEF Fitting, IInv, TypeOK
<1>3. Begins(s, r, prim, id)
  BY <1>1, <1>2, Primed
<1>4. lock # None => s.at = "wait"
  BY <1>3 DEF Begins
<1>5. call' = [call EXCEPT ![c] = s]
  BY <1>1 DEF Set
<1> QED
  BY <1>4, <1>5, OneStaysOut DEF Outside, Resumed

LEMMA StartsOutside ==
  ASSUME IInv, NEW c \in Slots, Starts(c)
  PROVE  NoneEnters
<1>1. CASE Asks(c)
  <2>1. PICK r, prim, id : Fitting(r, prim, id) /\ Begin(c, Primitive(r, prim, id))
    BY <1>1, AsksPrimitive
  <2> QED
    BY <2>1, PrimitiveWaits DEF Begin
<1>2. CASE ChangePassword(c)
  <2>1. PICK p \in Passwords \ {password} :
          Locks(c, [Idle EXCEPT !.job = "rotate", !.op = "rotate", !.under = contract, !.password = p])
    BY <1>2 DEF ChangePassword
  <2>2. PICK r : r = [Idle EXCEPT !.job = "rotate", !.op = "rotate", !.under = contract, !.password = p]
    OBVIOUS
  <2>3. Rotation(r) /\ Locks(c, r)
    BY <2>1, <2>2, RotationRuns
  <2> QED
    BY <2>3, WaitsForLock
<1> QED
  BY <1>1, <1>2 DEF Starts, Asks

LEMMA ProceedsOutside ==
  ASSUME IInv, NEW c \in Slots, Proceeds(c)
  PROVE  NoneEnters
<1>1. PICK x \in Running : x = call[c]
  BY CallType
<1>2. CASE Recheck(c)
  <2>1. PICK w : w = [x EXCEPT !.at = "wait"]
    OBVIOUS
  <2>2. w.at = "wait"
    BY <2>1 DEF Running
  <2>3. lock # None => Set(c, Idle) \/ Set(c, w)
    BY <1>1, <1>2, <2>1 DEF Recheck, Throws, Go
  <2>4. CASE lock # None
    BY <2>2, <2>3, <2>4, IdleRuns, OneStaysOut DEF Set, Outside, Resting, Resumed
  <2> QED
    BY <2>4 DEF NoneEnters
<1>3. CASE Past(c)
  BY <1>3, KeyScoped, WhoIsInside DEF Set, Outside, Resting, Resumed
<1>4. CASE ReadSalt(c) \/ PutSalt(c) \/ TakeKey(c) \/ Read(c) \/ Write(c)
  <2>1. call[c].at \notin Outside
    BY <1>4 DEF ReadSalt, PutSalt, TakeKey, Read, Write, Outside, Resting, Resumed
  <2>2. \E r : Set(c, r)
    BY <1>4 DEF ReadSalt, PutSalt, TakeKey, Read, Write, Go
  <2> QED
    BY <2>1, <2>2, WhoIsInside
<1>5. CASE Reencrypt(c)
  <2>1. call[c].at \notin Outside
    BY <1>5 DEF Reencrypt, Outside, Resting, Resumed
  <2>2. \E r : Set(c, r)
    BY <1>5 DEF Reencrypt
  <2> QED
    BY <2>1, <2>2, WhoIsInside
<1>6. CASE Salted(c)
  <2>1. \A d \in Slots : call[d].at \in Outside => call'[d] = call[d]
    BY <1>6, SaltIsTold DEF Joined, Outside, Resting, Resumed
  <2> QED
    BY <2>1 DEF NoneEnters
<1>7. CASE Close(c)
  <2>1. PICK s : s = [x EXCEPT !.at = "returned"]
    OBVIOUS
  <2>2. s.at = "returned"
    BY <2>1 DEF Running
  <2>3. Set(c, s) \/ Set(c, Idle)
    BY <1>1, <1>7, <2>1 DEF Close, Go, Throws
  <2> QED
    BY <2>2, <2>3, IdleRuns, OneStaysOut DEF Set, Outside, Resting
<1>8. CASE ImportGoesOn(c)
  <2>1. CASE Set(c, Idle)
    BY <2>1, IdleRuns, OneStaysOut DEF Set, Outside, Resting
  <2>2. CASE Set(c, Returned(x))
    <3>1. PICK s : s = Returned(x)
      OBVIOUS
    <3>2. s.at = "returned"
      BY <3>1, ReturnedRuns
    <3> QED
      BY <2>2, <3>1, <3>2, OneStaysOut DEF Set, Outside, Resting
  <2>3. ASSUME NEW r, NEW prim, NEW id, Fitting(r, prim, id), Set(c, Primitive(r, prim, id))
        PROVE  NoneEnters
    BY <2>3, PrimitiveWaits
  <2> QED
    BY <1>1, <1>8, <2>1, <2>2, <2>3, ImportContinues
<1> QED
  BY <1>2, <1>3, <1>4, <1>5, <1>6, <1>7, <1>8 DEF Proceeds

LEMMA RotatesOutside ==
  ASSUME IInv, NEW c \in Slots, Rotates(c)
  PROVE  NoneEnters
<1>1. CASE lock' = None
  BY <1>1 DEF NoneEnters
<1>2. CASE lock' # None
  <2>1. call[c].at \notin Outside
    BY DEF Rotates, RotationScan, RotationBatch, RotationReturns, Outside, Resting, Resumed
  <2>2. \E r : Set(c, r)
    BY <1>2 DEF Rotates, RotationScan, RotationBatch, RotationReturns, Go
  <2> QED
    BY <2>1, <2>2, WhoIsInside
<1> QED
  BY <1>1, <1>2

LEMMA ThrowsOutside ==
  ASSUME IInv, NEW c \in Slots, Throw(c)
  PROVE  NoneEnters
<1> SUFFICES ASSUME NEW d \in Slots \ {lock}, lock # None, lock' = lock, call[d].at \in Outside
             PROVE  call'[d].at \in Outside
  BY DEF NoneEnters
<1>1. call'[d] \in {Idle, call[d]}
  BY DEF Throw, Outside, Resting, Resumed
<1> QED
  BY <1>1, IdleRuns DEF Outside, Resting

LEMMA OthersOutside ==
  ASSUME IInv, Clear \/ SetContractAddress \/ InvalidateEncryptionCache \/ Migrate \/ Crash
  PROVE  NoneEnters
<1>1. CASE Clear \/ Migrate
  <2>1. \A d \in Slots : call'[d] = Cross(call[d])
    BY <1>1, AllCrossed DEF Clear, Migrate
  <2>2. \A d \in Slots : Cross(call[d]).at = call[d].at
    <3>1. ASSUME NEW d \in Slots PROVE Cross(call[d]).at = call[d].at
      <4>1. PICK x \in Running : x = call[d]
        BY CallType
      <4>2. Cross(x).at = x.at
        BY DEF Cross, Running
      <4> QED
        BY <4>1, <4>2
    <3> QED
      BY <3>1
  <2> QED
    BY <2>1, <2>2 DEF NoneEnters
<1>2. CASE SetContractAddress \/ InvalidateEncryptionCache
  BY <1>2 DEF SetContractAddress, InvalidateEncryptionCache, NoneEnters
<1>3. CASE Crash
  BY <1>3, IdleRuns DEF Crash, NoneEnters, Outside, Resting
<1> QED
  BY <1>1, <1>2, <1>3

(* While a rotation holds the lock no other call gets past it, whatever    *)
(* begins, wakes up, goes on or fails meanwhile.                           *)
THEOREM RotationShutsOthersOut == Spec => RotationShutsOut
<1>1. ASSUME IInv, Next PROVE NoneEnters
  <2>1. ASSUME NEW c \in Slots, Expire(c) PROVE NoneEnters
    <3>1. PICK x \in Running : x = call[c] /\ x.at = "wait"
      BY <1>1, <2>1, CallType DEF Expire
    <3>2. PICK r : r = [x EXCEPT !.late = TRUE]
      OBVIOUS
    <3>3. r.at = "wait" /\ call' = [call EXCEPT ![c] = r]
      BY <2>1, <3>1, <3>2 DEF Expire, Set, Running
    <3> QED
      BY <1>1, <3>3, OneStaysOut DEF Outside, Resumed
  <2>2. ASSUME NEW c \in Slots, Take(c) PROVE NoneEnters
    BY <1>1, <2>2, IdleRuns, OneStaysOut DEF Take, Set, Outside, Resting
  <2> QED
    BY <1>1, <2>1, <2>2, StartsOutside, ProceedsOutside, RotatesOutside, ThrowsOutside, OthersOutside DEF Next
<1>2. IInv /\ [Next]_vars => [NoneEnters]_vars
  BY <1>1
<1> QED
  BY <1>2, ProviderInvariant, PTL DEF Spec, RotationShutsOut
-----------------------------------------------------------------------------
(* The provider implements the store.  What a store sees of a call:        *)
Seen(r) == <<Request(r), Answer(r), Held(r)>>

\* No other call is seen to change.
Others(c) == \A d \in Slots \ {c} : Seen(call'[d]) = Seen(call[d])

LEMMA SameStore ==
  ASSUME UNCHANGED level
  PROVE  Plain' = Plain /\ Outdated' = Outdated
BY DEF Plain, Outdated

LEMMA OneSeen ==
  ASSUME NEW c \in Slots, NEW r, call'[c] = r, Others(c)
  PROVE  /\ [d \in Slots |-> Request(call[d])]' = [[d \in Slots |-> Request(call[d])] EXCEPT ![c] = Request(r)]
         /\ [d \in Slots |-> Answer(call[d])]' = [[d \in Slots |-> Answer(call[d])] EXCEPT ![c] = Answer(r)]
         /\ [d \in Slots |-> Held(call[d])]' = [[d \in Slots |-> Held(call[d])] EXCEPT ![c] = Held(r)]
         /\ [d \in Slots |-> Request(call[d])][c] = Request(call[c])
         /\ [d \in Slots |-> Answer(call[d])][c] = Answer(call[c])
         /\ [d \in Slots |-> Held(call[d])][c] = Held(call[c])
<1>1. \A d \in Slots \ {c} : /\ Request(call'[d]) = Request(call[d])
                             /\ Answer(call'[d]) = Answer(call[d])
                             /\ Held(call'[d]) = Held(call[d])
  BY DEF Others, Seen
<1> QED
  BY <1>1

LEMMA SameCalls ==
  ASSUME UNCHANGED <<level, contract>>, \A d \in Slots : Seen(call'[d]) = Seen(call[d])
  PROVE  UNCHANGED Store!vars
<1>1. \A d \in Slots : /\ Request(call'[d]) = Request(call[d])
                       /\ Answer(call'[d]) = Answer(call[d])
                       /\ Held(call'[d]) = Held(call[d])
  BY DEF Seen
<1>2. /\ [c \in Slots |-> Request(call[c])]' = [c \in Slots |-> Request(call[c])]
      /\ [c \in Slots |-> Answer(call[c])]' = [c \in Slots |-> Answer(call[c])]
      /\ [c \in Slots |-> Held(call[c])]' = [c \in Slots |-> Held(call[c])]
  BY <1>1
<1> QED
  BY <1>2, SameStore DEF Store!vars

(* A call begins, or an import its next primitive.                         *)
LEMMA CallBegins ==
  ASSUME NEW c \in Slots, NEW r, call'[c] = r, Others(c), UNCHANGED <<level, contract>>,
         Request(r) \in Store!Requests, Answer(r) = None, Held(r) = Unread,
         Request(r).kind = "get" => Request(r).key[1] = contract,
         Request(r).kind = "set" => Request(r).key = None,
         Request(call[c]) = None \/ Answer(call[c]) # None
  PROVE  [Store!Next]_(Store!vars)
<1>1. Unread = Store!Empty
  BY DEF Unread, Store!Empty, Keys, Store!Keys
<1>2. Store!Begin(c)
  BY <1>1, OneSeen, SameStore DEF Store!Begin
<1> QED
  BY <1>2 DEF Store!Next

(* A call ends.                                                            *)
LEMMA IdleSeen == Request(Idle) = None /\ Answer(Idle) = None /\ Held(Idle) = Unread
BY IdleRuns DEF Request, Answer, Held

LEMMA CallEnds ==
  ASSUME NEW c \in Slots, call'[c] = Idle, Others(c), UNCHANGED <<level, contract>>,
         Request(call[c]) # None
  PROVE  [Store!Next]_(Store!vars)
<1>1. Unread = Store!Empty
  BY DEF Unread, Store!Empty, Keys, Store!Keys
<1>2. Store!End(c)
  BY <1>1, IdleSeen, OneSeen, SameStore DEF Store!End
<1> QED
  BY <1>2 DEF Store!Next

(* A set or a remove knows its key.                                        *)
LEMMA CallResolves ==
  ASSUME NEW c \in Slots, NEW r, call'[c] = r, Others(c), UNCHANGED <<level, contract>>,
         NEW q, q = Request(call[c]), q # None, q.kind = "set", q.key = None,
         Request(r) = [q EXCEPT !.key = <<contract, q.id>>],
         Answer(call[c]) = None, Answer(r) = None, Held(r) = Held(call[c])
  PROVE  [Store!Next]_(Store!vars)
<1>1. PICK A, B, H : /\ A = [d \in Slots |-> Request(call[d])]
                     /\ B = [d \in Slots |-> Answer(call[d])]
                     /\ H = [d \in Slots |-> Held(call[d])]
  OBVIOUS
<1>2. /\ [d \in Slots |-> Request(call[d])]' = [A EXCEPT ![c] = Request(r)]
      /\ [d \in Slots |-> Answer(call[d])]' = [B EXCEPT ![c] = None]
      /\ [d \in Slots |-> Held(call[d])]' = [H EXCEPT ![c] = Held(call[c])]
      /\ A[c] = q /\ B[c] = None /\ H[c] = Held(call[c])
  BY <1>1, OneSeen
<1>3. [A EXCEPT ![c] = Request(r)] = [A EXCEPT ![c].key = <<contract, A[c].id>>]
  BY <1>2
<1>4. [B EXCEPT ![c] = None] = B /\ [H EXCEPT ![c] = Held(call[c])] = H
  BY <1>1, <1>2
<1>5. Store!Resolve(c)
  BY <1>1, <1>2, <1>3, <1>4, SameStore DEF Store!Resolve, Store!Is
<1> QED
  BY <1>5 DEF Store!Next

(* A call reads what the store holds at that moment, or nothing.           *)
Kept(ks) == [k \in Keys |-> IF k \in ks THEN Plain[k] ELSE Absent]
Reach(q) == IF q.kind = "get" THEN {q.key} ELSE Keys
Reply(q) == IF q.kind = "get" THEN Plain[q.key] ELSE Plain

LEMMA CallReads ==
  ASSUME NEW c \in Slots, NEW r, call'[c] = r, Others(c), UNCHANGED <<level, contract>>,
         NEW q, q = Request(call[c]), Request(r) = q, q # None, Answer(call[c]) = None,
         q.kind \in {"get", "scan"},
         NEW ks \in SUBSET (Outdated \cap Reach(q)), Held(r) = Kept(ks), Answer(r) \in {None, Reply(q)}
  PROVE  [Store!Next]_(Store!vars)
<1> DEFINE A == [d \in Slots |-> Request(call[d])]
           B == [d \in Slots |-> Answer(call[d])]
           H == [d \in Slots |-> Held(call[d])]
<1>2. /\ A' = [A EXCEPT ![c] = q] /\ B' = [B EXCEPT ![c] = Answer(r)] /\ H' = [H EXCEPT ![c] = Held(r)]
      /\ A[c] = q /\ B[c] = None
  BY OneSeen
<1>3. A' = A /\ [B EXCEPT ![c] = None] = B
  BY <1>2
<1>4. Keys = Store!Keys
  BY DEF Keys, Store!Keys
<1>5. \E js \in SUBSET (Outdated \cap (IF A[c].kind = "get" THEN {A[c].key} ELSE Store!Keys)) :
        H' = [H EXCEPT ![c] = [k \in Store!Keys |-> IF k \in js THEN Plain[k] ELSE Absent]]
  <2>1. ks \in SUBSET (Outdated \cap (IF A[c].kind = "get" THEN {A[c].key} ELSE Store!Keys))
    BY <1>2, <1>4 DEF Reach
  <2>2. H' = [H EXCEPT ![c] = [k \in Store!Keys |-> IF k \in ks THEN Plain[k] ELSE Absent]]
    BY <1>2, <1>4 DEF Kept
  <2> QED
    BY <2>1, <2>2
<1>6. B' \in {B, [B EXCEPT ![c] = IF A[c].kind = "get" THEN Plain[A[c].key] ELSE Plain]}
  <2>1. CASE Answer(r) = None
    BY <1>2, <1>3, <2>1
  <2>2. CASE Answer(r) = Reply(q)
    BY <1>2, <2>2 DEF Reply
  <2> QED
    BY <2>1, <2>2
<1>7. (Store!Is(c, "get") \/ Store!Is(c, "scan")) /\ B[c] = None
  BY <1>2 DEF Store!Is
<1>8. Store!Read(c)
  BY <1>3, <1>5, <1>6, <1>7, SameStore DEF Store!Read
<1> QED
  BY <1>8 DEF Store!Next

LEMMA RotationReads ==
  ASSUME NEW c \in Slots, NEW r, call'[c] = r, Others(c), UNCHANGED <<level, contract>>,
         Request(r) = Request(call[c]), Request(r) # None, Request(r).kind = "rotate",
         Answer(r) = Answer(call[c]), Held(r) = Plain
  PROVE  [Store!Next]_(Store!vars)
<1>1. Store!ReadForRotation(c)
  BY OneSeen, SameStore DEF Store!ReadForRotation, Store!Is
<1> QED
  BY <1>1 DEF Store!Next

(* A call writes, or puts back.                                            *)
LEMMA CallWrites ==
  ASSUME NEW c \in Slots, NEW r, call'[c] = r, Others(c), UNCHANGED contract,
         Request(r) = Request(call[c]), Request(r) # None, Request(r).kind = "set", Request(r).key # None,
         Answer(call[c]) = None, Answer(r) = Done, Held(r) = Held(call[c]),
         Plain' = [Plain EXCEPT ![Request(r).key] = Request(r).val],
         Outdated' = Outdated \ {Request(r).key}
  PROVE  [Store!Next]_(Store!vars)
<1>1. Store!Write(c)
  BY OneSeen DEF Store!Write, Store!Is
<1> QED
  BY <1>1 DEF Store!Next

(* A call puts back what it read.                                          *)
Back(held, ks) == [k \in Keys |-> IF k \in ks THEN held[k] ELSE Plain[k]]
Rest(held, ks) == [k \in Keys |-> IF k \in ks THEN Absent ELSE held[k]]
Given(held) == {k \in Keys : held[k] # Absent}

LEMMA CallPutsBack ==
  ASSUME NEW c \in Slots, NEW r, call'[c] = r, Others(c), UNCHANGED contract,
         NEW q, q = Request(call[c]), Request(r) = q, Answer(r) = Answer(call[c]), q # None,
         NEW held, held = Held(call[c]),
         NEW ks \in SUBSET Given(held), q.kind = "rotate" => ks = Given(held),
         Plain' = Back(held, ks), Outdated' = Outdated \ ks, Held(r) = Rest(held, ks)
  PROVE  [Store!Next]_(Store!vars)
<1> DEFINE A == [d \in Slots |-> Request(call[d])]
           B == [d \in Slots |-> Answer(call[d])]
           H == [d \in Slots |-> Held(call[d])]
<1>2. /\ A' = [A EXCEPT ![c] = q] /\ B' = [B EXCEPT ![c] = Answer(call[c])] /\ H' = [H EXCEPT ![c] = Held(r)]
      /\ A[c] = q /\ B[c] = Answer(call[c]) /\ H[c] = held
  BY OneSeen
<1>3. A' = A /\ B' = B
  BY <1>2
<1>4. Keys = Store!Keys
  BY DEF Keys, Store!Keys
<1>5. ks \in SUBSET {k \in Store!Keys : H[c][k] # Absent}
  BY <1>2, <1>4 DEF Given
<1>6. Store!Is(c, "rotate") => ks = {k \in Store!Keys : H[c][k] # Absent}
  BY <1>2, <1>4 DEF Given, Store!Is
<1>7. Plain' = [k \in Store!Keys |-> IF k \in ks THEN H[c][k] ELSE Plain[k]]
  BY <1>2, <1>4 DEF Back
<1>8. H' = [H EXCEPT ![c] = [k \in Store!Keys |-> IF k \in ks THEN Absent ELSE H[c][k]]]
  BY <1>2, <1>4 DEF Rest
<1>9. Store!PutBack(c)
  BY <1>3, <1>5, <1>6, <1>7, <1>8 DEF Store!PutBack
<1> QED
  BY <1>9 DEF Store!Next

Alike(s, r) ==
  /\ s.op = r.op /\ s.id = r.id /\ s.val = r.val /\ s.under = r.under /\ s.seen = r.seen
  /\ s.op \in {"get", "scan", "rotate"} \/ s.key = r.key
  /\ s.at = "idle" <=> r.at = "idle"
  /\ s.at \in {"close", "returned"} <=> r.at \in {"close", "returned"}
  /\ Held(s) = Held(r)

LEMMA AlikeSeen ==
  ASSUME NEW s, NEW r, Alike(s, r)
  PROVE  Seen(s) = Seen(r)
<1>1. Request(s) = Request(r)
  BY DEF Alike, Request
<1>2. Answer(s) = Answer(r)
  BY DEF Alike, Answer
<1> QED
  BY <1>1, <1>2 DEF Seen, Alike

LEMMA HoldsNothing ==
  ASSUME NEW r, r.at \notin {"reput", "batch"}
  PROVE  Held(r) = Unread
BY DEF Held

-----------------------------------------------------------------------------
(* What a call knows of its request stays as it is.                        *)
LEMMA IdleWorks == WorksOnRequest(Idle)
BY IdleRuns DEF WorksOnRequest, Salters

LEMMA CallWorks ==
  ASSUME IInv, RInv, NEW c \in Slots
  PROVE  call[c] \in Running /\ CallFits(c, call[c]) /\ WorksOnRequest(call[c])
BY CallType DEF RInv

LEMMA HasRequest ==
  ASSUME NEW c, NEW r \in Running, CallFits(c, r), WorksOnRequest(r), r.at # "idle"
  PROVE  Request(r) \in Store!Requests /\ Request(r) # None
<1>1. r.op \in {"get", "set", "remove", "scan", "rotate"}
  BY DEF WorksOnRequest, Running
<1>2. r.op = "get" => Request(r) = [kind |-> "get", key |-> <<r.under, r.id>>] /\ <<r.under, r.id>> \in Keys
  BY DEF Request, CallFits, SetsValues, Keys
<1>3. r.op \in {"scan", "rotate"} => Request(r) = [kind |-> r.op]
  BY DEF Request
<1>4. r.op \in {"set", "remove"} =>
        /\ Request(r) = [kind |-> "set", id |-> r.id, key |-> r.key, val |-> IF r.op = "set" THEN r.val ELSE Absent]
        /\ r.id \in Ids /\ r.key \in Keys \cup {None} /\ (r.op = "set" => r.val \in Vals)
  BY DEF Request, CallFits, SetsValues, Running
<1>5. Keys = Store!Keys
  BY DEF Keys, Store!Keys
<1>6. Request(r) \in Store!Requests
  BY <1>1, <1>2, <1>3, <1>4, <1>5 DEF Store!Requests
<1> QED
  BY <1>6, NamesAssumption

LEMMA WorkMoves ==
  ASSUME RInv, NEW c \in Slots, NEW r, call'[c] = r, WorksOnRequest(r),
         \A d \in Slots \ {c} : call'[d] = call[d] \/ WorksOnRequest(call'[d])
  PROVE  RInv'
<1>1. \A d \in Slots : WorksOnRequest(call'[d])
  BY DEF RInv
<1>2. \A d \in Slots : WorksOnRequest(call[d])'
  BY <1>1 DEF WorksOnRequest
<1> QED
  BY <1>2 DEF RInv

LEMMA LoneOthers ==
  ASSUME IInv, NEW c \in Slots, NEW r, call' = [call EXCEPT ![c] = r]
  PROVE  call'[c] = r /\ Others(c) /\ \A d \in Slots \ {c} : call'[d] = call[d]
BY DEF IInv, TypeOK, Others

(* One call goes on unseen, or ends.                                       *)
LEMMA SeenSameStep ==
  ASSUME IInv, RInv, NEW c \in Slots, NEW r, call' = [call EXCEPT ![c] = r],
         UNCHANGED <<level, contract>>, WorksOnRequest(r), Seen(r) = Seen(call[c])
  PROVE  RInv' /\ [Store!Next]_(Store!vars)
<1>1. RInv'
  BY LoneOthers, WorkMoves
<1>2. \A d \in Slots : Seen(call'[d]) = Seen(call[d])
  BY LoneOthers
<1> QED
  BY <1>1, <1>2, SameCalls

LEMMA EndStep ==
  ASSUME IInv, RInv, NEW c \in Slots, call' = [call EXCEPT ![c] = Idle], call[c].at # "idle",
         UNCHANGED <<level, contract>>
  PROVE  RInv' /\ [Store!Next]_(Store!vars)
<1>1. call'[c] = Idle /\ Others(c) /\ \A d \in Slots \ {c} : call'[d] = call[d]
  BY LoneOthers
<1>2. RInv'
  BY <1>1, IdleWorks, WorkMoves
<1>3. PICK x : x = call[c]
  OBVIOUS
<1>4. Request(x) # None
  BY <1>3, CallWorks, HasRequest
<1> QED
  BY <1>1, <1>2, <1>3, <1>4, CallEnds

-----------------------------------------------------------------------------
(* The actions.  A primitive begins: for a call that begins, or an import. *)
LEMMA PrimitiveMaps ==
  ASSUME IInv, RInv, NEW c \in Slots, NEW r, NEW prim, NEW id, Fitting(r, prim, id),
         Set(c, Primitive(r, prim, id)), UNCHANGED <<level, contract>>, call[c].at \in {"idle", "close"}
  PROVE  RInv' /\ [Store!Next]_(Store!vars)
<1>1. PICK s : s = Primitive(r, prim, id)
  OBVIOUS
<1>2. /\ r \in Running /\ prim \in {"get", "set", "remove", "scan"} /\ id \in Ids \cup {None}
      /\ prim # "scan" => id \in Ids
      /\ prim = "set" => r.val \in Vals
      /\ contract \in Contracts
  BY DEF Fitting, IInv, TypeOK
<1>3. /\ s \in Running /\ s.at \in {"past", "wait"} /\ s.op = prim /\ s.id = id /\ s.val = r.val
      /\ s.under = contract /\ s.seen = None /\ s.key = None
  <2>1. Begins(s, r, prim, id)
    BY <1>1, <1>2, Primed
  <2> QED
    BY <2>1 DEF Begins
<1>4. call'[c] = s /\ Others(c) /\ \A d \in Slots \ {c} : call'[d] = call[d]
  <2>1. call' = [call EXCEPT ![c] = s]
    BY <1>1 DEF Set
  <2> QED
    BY <2>1, LoneOthers
<1>5. WorksOnRequest(s)
  BY <1>2, <1>3 DEF WorksOnRequest, Salters
<1>6. RInv'
  BY <1>4, <1>5, WorkMoves
<1>7. Request(s) = IF prim = "scan" THEN [kind |-> "scan"]
                   ELSE IF prim = "get" THEN [kind |-> "get", key |-> <<contract, id>>]
                   ELSE [kind |-> "set", id |-> id, key |-> None, val |-> IF prim = "set" THEN r.val ELSE Absent]
  BY <1>2, <1>3 DEF Request
<1>8. Request(s) \in Store!Requests
  BY <1>2, <1>7 DEF Store!Requests, Store!Keys
<1>9. /\ Request(s).kind = "get" => Request(s).key[1] = contract
      /\ Request(s).kind = "set" => Request(s).key = None
  BY <1>2, <1>7
<1>10. Answer(s) = None /\ Held(s) = Unread
  BY <1>2, <1>3 DEF Answer, Held
<1>11. Request(call[c]) = None \/ Answer(call[c]) # None
  <2>1. CASE call[c].at = "idle"
    BY <2>1 DEF Request
  <2>2. CASE call[c].at = "close"
    <3>1. PICK x : x = call[c]
      OBVIOUS
    <3>2. x \in Running /\ WorksOnRequest(x) /\ CallFits(c, x) /\ x.at = "close"
      BY <2>2, <3>1, CallWorks
    <3>3. x.op = "scan" => x.seen \in Content
      BY <3>2 DEF CallFits, SetsValues
    <3>4. x.op \in {"get", "scan"} => x.seen # None
      BY <3>2, <3>3, NamesAssumption DEF WorksOnRequest
    <3>5. x.op # "rotate"
      BY <3>2 DEF CallFits, RotatesAlone, Salters, Resumed
    <3> QED
      BY <3>1, <3>2, <3>4, <3>5, NamesAssumption DEF Answer
  <2> QED
    BY <2>1, <2>2
<1> QED
  BY <1>4, <1>6, <1>8, <1>9, <1>10, <1>11, CallBegins

LEMMA AsksMaps ==
  ASSUME IInv, RInv, NEW c \in Slots, Asks(c)
  PROVE  RInv' /\ [Store!Next]_(Store!vars)
<1>1. PICK r, prim, id : Fitting(r, prim, id) /\ Begin(c, Primitive(r, prim, id))
  BY AsksPrimitive
<1>2. UNCHANGED <<level, contract>>
  BY DEF Asks, Get, SetState, Remove, Export, Import
<1>3. Set(c, Primitive(r, prim, id)) /\ call[c].at = "idle"
  BY <1>1, IdleRuns DEF Begin
<1> QED
  BY <1>1, <1>2, <1>3, PrimitiveMaps

LEMMA CrossSeen ==
  ASSUME NEW x \in Running, WorksOnRequest(x), NEW y, y = Cross(x)
  PROVE  Seen(y) = Seen(x) /\ WorksOnRequest(y)
<1>1. PICK b \in BOOLEAN : b = (x.crossed \/ x.at \in InFlight \cup {"join"})
  BY DEF Running
<1>2. y = [x EXCEPT !.crossed = b]
  BY <1>1 DEF Cross
<1>3. /\ y \in Running /\ y.op = x.op /\ y.id = x.id /\ y.val = x.val /\ y.under = x.under /\ y.at = x.at
      /\ y.seen = x.seen /\ y.key = x.key /\ y.todo = x.todo
  BY <1>2, CrossTold
<1>4. Alike(y, x)
  BY <1>3 DEF Alike, Held
<1> QED
  BY <1>3, <1>4, AlikeSeen DEF WorksOnRequest

(* A rotation takes the lock, or waits for it.                             *)
LEMMA LocksSeen ==
  ASSUME IInv, RInv, NEW c \in Slots, NEW r, Rotation(r), Locks(c, r)
  PROVE  \E s \in Running : /\ call'[c] = s /\ s.op = "rotate" /\ s.at \in {"past", "wait"}
                            /\ Others(c) /\ \A d \in Slots \ {c} : WorksOnRequest(call'[d])
<1>1. CASE lock = None
  <2>1. PICK s : s = Passes(r)
    OBVIOUS
  <2>2. s \in Running /\ s.at = "past" /\ s.op = "rotate"
    BY <2>1, Passed DEF Rotation, Keeps
  <2>3. call'[c] = s /\ \A d \in Slots \ {c} : call'[d] = Cross(call[d])
    <3>1. call' = [Crossed EXCEPT ![c] = s]
      BY <1>1, <2>1 DEF Locks, Passes
    <3> QED
      BY <3>1, AllCrossed DEF Crossed
  <2>4. ASSUME NEW d \in Slots \ {c} PROVE Seen(call'[d]) = Seen(call[d]) /\ WorksOnRequest(call'[d])
    <3>1. PICK x : x = call[d]
      OBVIOUS
    <3>2. PICK y : y = Cross(x)
      OBVIOUS
    <3>3. Seen(y) = Seen(x) /\ WorksOnRequest(y)
      BY <3>1, <3>2, CallWorks, CrossSeen
    <3> QED
      BY <2>3, <3>1, <3>2, <3>3
  <2> QED
    BY <2>2, <2>3, <2>4 DEF Others
<1>2. CASE lock # None
  <2>1. PICK s : s = [r EXCEPT !.at = "wait"]
    OBVIOUS
  <2>2. s \in Running /\ s.op = "rotate" /\ s.at = "wait"
    <3>1. "wait" \in Stages
      BY DEF Stages, Resumed
    <3> QED
      BY <2>1, <3>1, Gone DEF Rotation, Keeps
  <2>3. call' = [call EXCEPT ![c] = s]
    BY <1>2, <2>1 DEF Locks, Set
  <2> QED
    BY <2>2, <2>3, LoneOthers, CallWorks
<1> QED
  BY <1>1, <1>2

LEMMA RotationSeen ==
  ASSUME NEW r, r.op = "rotate", r.at \notin {"idle", "reput", "batch"}
  PROVE  Request(r) = [kind |-> "rotate"] /\ Answer(r) = None /\ Held(r) = Unread
BY DEF Request, Answer, Held

LEMMA ChangePasswordMaps ==
  ASSUME IInv, RInv, NEW c \in Slots, ChangePassword(c)
  PROVE  RInv' /\ [Store!Next]_(Store!vars)
<1>1. PICK p \in Passwords \ {password} :
        Locks(c, [Idle EXCEPT !.job = "rotate", !.op = "rotate", !.under = contract, !.password = p])
  BY DEF ChangePassword
<1>2. PICK r : r = [Idle EXCEPT !.job = "rotate", !.op = "rotate", !.under = contract, !.password = p]
  OBVIOUS
<1>3. Rotation(r) /\ Locks(c, r)
  BY <1>1, <1>2, RotationRuns
<1>4. PICK s \in Running : /\ call'[c] = s /\ s.op = "rotate" /\ s.at \in {"past", "wait"}
                           /\ Others(c) /\ \A d \in Slots \ {c} : WorksOnRequest(call'[d])
  BY <1>3, LocksSeen
<1>5. WorksOnRequest(s)
  BY <1>4 DEF WorksOnRequest
<1>6. RInv'
  BY <1>4, <1>5, WorkMoves
<1>7. Request(s) = [kind |-> "rotate"] /\ Answer(s) = None /\ Held(s) = Unread
  BY <1>4, RotationSeen
<1>8. Request(call[c]) = None /\ UNCHANGED <<level, contract>>
  BY IdleSeen DEF ChangePassword
<1>9. Request(s) \in Store!Requests
  BY <1>7 DEF Store!Requests
<1> QED
  BY <1>4, <1>6, <1>7, <1>8, <1>9, CallBegins

LEMMA ExpireMaps ==
  ASSUME IInv, RInv, NEW c \in Slots, Expire(c)
  PROVE  RInv' /\ [Store!Next]_(Store!vars)
<1>1. PICK x : x = call[c]
  OBVIOUS
<1>2. x \in Running /\ WorksOnRequest(x) /\ x.at = "wait"
  BY <1>1, CallWorks DEF Expire
<1>3. PICK r : r = [x EXCEPT !.late = TRUE]
  OBVIOUS
<1>4. r \in Running /\ Keeps(r, x) /\ r.at = "wait" /\ r.seen = x.seen /\ r.key = x.key
  BY <1>2, <1>3, Late
<1>5. WorksOnRequest(r) /\ Alike(r, x)
  BY <1>2, <1>4 DEF WorksOnRequest, Alike, Keeps, Salters, Held
<1>6. call' = [call EXCEPT ![c] = r] /\ UNCHANGED <<level, contract>>
  BY <1>1, <1>3 DEF Expire, Set
<1> QED
  BY <1>1, <1>5, <1>6, AlikeSeen, SeenSameStep

LEMMA RecheckMaps ==
  ASSUME IInv, RInv, NEW c \in Slots, Recheck(c)
  PROVE  RInv' /\ [Store!Next]_(Store!vars)
<1>1. PICK x : x = call[c]
  OBVIOUS
<1>2. x \in Running /\ CallFits(c, x) /\ WorksOnRequest(x) /\ x.at = "check"
  BY <1>1, CallWorks DEF Recheck
<1>3. PICK w : w = [x EXCEPT !.at = "wait"]
  OBVIOUS
<1>4. PICK g : g = Passes(x)
  OBVIOUS
<1>5. w \in Running /\ Keeps(w, x) /\ w.at = "wait" /\ w.seen = x.seen /\ w.key = x.key
  <2>1. "wait" \in Stages
    BY DEF Stages, Resumed
  <2> QED
    BY <1>2, <1>3, <2>1, Gone
<1>6. g \in Running /\ Keeps(g, x) /\ g.at = "past" /\ g.seen = x.seen /\ g.key = x.key
  BY <1>2, <1>4, Passed
<1>7. UNCHANGED <<level, contract>>
  BY DEF Recheck
<1>8. Set(c, Idle) \/ Set(c, w) \/ Set(c, g) \/ (x.op = "rotate" /\ Locks(c, x))
  BY <1>1, <1>3, <1>4 DEF Recheck, Throws, Go, Passes
<1>9. CASE Set(c, Idle)
  BY <1>1, <1>2, <1>7, <1>9, EndStep DEF Set
<1>10. CASE Set(c, w)
  <2>1. WorksOnRequest(w) /\ Alike(w, x)
    BY <1>2, <1>5 DEF WorksOnRequest, Alike, Keeps, Salters, Held, Resumed
  <2> QED
    BY <1>1, <1>7, <1>10, <2>1, AlikeSeen, SeenSameStep DEF Set
<1>11. CASE Set(c, g)
  <2>1. WorksOnRequest(g) /\ Alike(g, x)
    BY <1>2, <1>6 DEF WorksOnRequest, Alike, Keeps, Salters, Held, Resumed
  <2> QED
    BY <1>1, <1>7, <1>11, <2>1, AlikeSeen, SeenSameStep DEF Set
<1>12. CASE x.op = "rotate" /\ Locks(c, x)
  <2>1. Rotation(x)
    BY <1>2, <1>12 DEF CallFits, RotatesAlone, Rotation
  <2>2. PICK s \in Running : /\ call'[c] = s /\ s.op = "rotate" /\ s.at \in {"past", "wait"}
                             /\ Others(c) /\ \A d \in Slots \ {c} : WorksOnRequest(call'[d])
    BY <1>12, <2>1, LocksSeen
  <2>3. WorksOnRequest(s)
    BY <2>2 DEF WorksOnRequest
  <2>4. RInv'
    BY <2>2, <2>3, WorkMoves
  <2>5. Seen(s) = Seen(x)
    BY <1>2, <1>12, <2>2, RotationSeen DEF Seen
  <2>6. \A d \in Slots : Seen(call'[d]) = Seen(call[d])
    BY <1>1, <2>2, <2>5 DEF Others
  <2> QED
    BY <1>7, <2>4, <2>6, SameCalls
<1> QED
  BY <1>8, <1>9, <1>10, <1>11, <1>12

(* Past the lock a set or a remove knows its key; a get knew it before.    *)
LEMMA PastMaps ==
  ASSUME IInv, RInv, NEW c \in Slots, Past(c)
  PROVE  RInv' /\ [Store!Next]_(Store!vars)
<1>1. PICK x : x = call[c]
  OBVIOUS
<1>2. x \in Running /\ CallFits(c, x) /\ WorksOnRequest(x)
  BY <1>1, CallWorks
<1>3. x.at = "past" /\ UNCHANGED <<level, contract>>
  BY <1>1, KeyScoped
<1>4. PICK s \in Running :
        /\ call' = [call EXCEPT ![c] = s]
        /\ Keeps(s, x) /\ s.seen = x.seen /\ s.key = KeyOf(x)
        /\ s.at \in {"write", "join", "salt"} /\ (s.at = "write" <=> s.op = "remove")
  BY <1>1, KeyScoped
<1>5. /\ x.op \in {"set", "remove"} => KeyOf(x) = <<contract, x.id>> /\ KeyOf(x) \in Keys /\ x.key = None
      /\ x.op = "get" => KeyOf(x) = <<x.under, x.id>>
  <2>1. contract \in Contracts /\ (x.op \in {"set", "remove"} => x.id \in Ids)
    BY <1>2 DEF IInv, TypeOK, CallFits, SetsValues
  <2> QED
    BY <1>2, <1>3, <2>1 DEF KeyOf, WorksOnRequest, Keys
<1>6. WorksOnRequest(s)
  BY <1>2, <1>3, <1>4, <1>5 DEF WorksOnRequest, Keeps, Salters, Resumed
<1>7. Held(s) = Unread /\ Held(x) = Unread
  BY <1>3, <1>4, HoldsNothing
<1>8. CASE x.op \in {"set", "remove"}
  <2>1. call'[c] = s /\ Others(c) /\ \A d \in Slots \ {c} : call'[d] = call[d]
    BY <1>4, LoneOthers
  <2>2. RInv'
    BY <1>6, <2>1, WorkMoves
  <2>3. Answer(s) = None /\ Answer(x) = None
    BY <1>3, <1>4, <1>8 DEF Answer, Keeps
  <2>4. PICK v : v = IF x.op = "set" THEN x.val ELSE Absent
    OBVIOUS
  <2>5. Request(x) = [kind |-> "set", id |-> x.id, key |-> None, val |-> v]
    BY <1>3, <1>5, <1>8, <2>4 DEF Request
  <2>6. Request(s) = [kind |-> "set", id |-> x.id, key |-> <<contract, x.id>>, val |-> v]
    BY <1>4, <1>5, <1>8, <2>4 DEF Request, Keeps
  <2>7. PICK q : q = Request(x)
    OBVIOUS
  <2>8. /\ q # None /\ q.kind = "set" /\ q.key = None
        /\ Request(s) = [q EXCEPT !.key = <<contract, q.id>>]
    <3>1. q # None
      BY <1>2, <1>3, <2>7, HasRequest
    <3> QED
      BY <2>5, <2>6, <2>7, <3>1
  <2> QED
    BY <1>1, <1>3, <1>7, <2>1, <2>2, <2>3, <2>7, <2>8, CallResolves
<1>9. CASE x.op \notin {"set", "remove"}
  <2>1. x.op \in {"get", "scan", "rotate"}
    BY <1>2, <1>3, <1>9 DEF WorksOnRequest, Running
  <2>2. Alike(s, x)
    BY <1>3, <1>4, <1>7, <2>1 DEF Alike, Keeps
  <2> QED
    BY <1>1, <1>3, <1>4, <1>6, <2>2, AlikeSeen, SeenSameStep
<1> QED
  BY <1>8, <1>9

LEMMA ReadSaltMaps ==
  ASSUME IInv, RInv, NEW c \in Slots, ReadSalt(c) \/ PutSalt(c)
  PROVE  RInv' /\ [Store!Next]_(Store!vars)
<1>1. PICK x : x = call[c]
  OBVIOUS
<1>2. x \in Running /\ WorksOnRequest(x) /\ x.at \in {"salt", "newsalt"}
  BY <1>1, CallWorks DEF ReadSalt, PutSalt
<1>3. PICK n \in Nat, at \in {"salted", "newsalt"} : Set(c, [x EXCEPT !.salt = n, !.at = at])
  <2>1. salt \in Nat /\ nextSalt \in Nat
    BY DEF IInv, TypeOK
  <2> QED
    BY <1>1, <2>1 DEF ReadSalt, PutSalt
<1>4. PICK r : r = [x EXCEPT !.salt = n]
  OBVIOUS
<1>5. r \in Running /\ Keeps(r, x) /\ r.seen = x.seen /\ r.key = x.key
  BY <1>2, <1>4, SaltTold
<1>6. PICK s : s = [r EXCEPT !.at = at]
  OBVIOUS
<1>7. s \in Running /\ Keeps(s, r) /\ s.at = at /\ s.seen = r.seen /\ s.key = r.key
  <2>1. at \in Stages
    BY DEF Stages, InFlight
  <2> QED
    BY <1>5, <1>6, <2>1, Gone
<1>8. Keeps(s, x)
  BY <1>5, <1>7 DEF Keeps
<1>9. WorksOnRequest(s) /\ Alike(s, x)
  BY <1>2, <1>5, <1>7, <1>8 DEF WorksOnRequest, Alike, Keeps, Salters, Resumed, Held
<1>10. call' = [call EXCEPT ![c] = s] /\ UNCHANGED <<level, contract>>
  BY <1>3, <1>4, <1>6 DEF ReadSalt, PutSalt, Set
<1> QED
  BY <1>1, <1>9, <1>10, AlikeSeen, SeenSameStep

(* Several calls may go on unseen.                                         *)
LEMMA ManyUnseen ==
  ASSUME RInv, UNCHANGED <<level, contract>>,
         \A d \in Slots : Seen(call'[d]) = Seen(call[d]) /\ WorksOnRequest(call'[d])
  PROVE  RInv' /\ [Store!Next]_(Store!vars)
<1>1. \A d \in Slots : WorksOnRequest(call[d])'
  BY DEF WorksOnRequest
<1> QED
  BY <1>1, SameCalls DEF RInv

LEMMA SaltedMaps ==
  ASSUME IInv, RInv, NEW c \in Slots, Salted(c)
  PROVE  RInv' /\ [Store!Next]_(Store!vars)
<1>1. UNCHANGED <<level, contract>>
  BY SaltIsTold
<1>2. ASSUME NEW d \in Slots
      PROVE  Seen(call'[d]) = Seen(call[d]) /\ WorksOnRequest(call'[d])
  <2>1. PICK y : y = call[d]
    OBVIOUS
  <2>2. y \in Running /\ WorksOnRequest(y)
    BY <2>1, CallWorks
  <2>3. CASE call'[d] = y
    BY <2>1, <2>2, <2>3
  <2>4. ASSUME NEW s, call'[d] = s, NEW n, NEW b, Joined(s, y, n, b)
        PROVE  Seen(s) = Seen(y) /\ WorksOnRequest(s)
    <3>1. WorksOnRequest(s) /\ Alike(s, y)
      BY <2>2, <2>4 DEF Joined, WorksOnRequest, Alike, Salters, Resumed, Held
    <3> QED
      BY <3>1, AlikeSeen
  <2> QED
    BY <2>1, <2>3, <2>4, SaltIsTold
<1> QED
  BY <1>1, <1>2, ManyUnseen

LEMMA TakeKeyMaps ==
  ASSUME IInv, RInv, NEW c \in Slots, TakeKey(c)
  PROVE  RInv' /\ [Store!Next]_(Store!vars)
<1>1. PICK x : x = call[c]
  OBVIOUS
<1>2. x \in Running /\ CallFits(c, x) /\ WorksOnRequest(x) /\ x.at = "key"
  BY <1>1, CallWorks DEF TakeKey
<1>3. PICK s \in Running :
        /\ call' = [call EXCEPT ![c] = s]
        /\ Keeps(s, x) /\ s.seen = x.seen /\ s.key = x.key
        /\ IF s.op = "rotate" THEN s.at = "scan" ELSE s.at = (IF s.op = "set" THEN "write" ELSE "read")
  BY <1>1, KeyTaken
<1>4. WorksOnRequest(s) /\ Alike(s, x)
  BY <1>2, <1>3 DEF CallFits, RotatesAlone, Running, WorksOnRequest, Alike, Keeps, Salters, Resumed, Held
<1>5. UNCHANGED <<level, contract>>
  BY DEF TakeKey
<1> QED
  BY <1>1, <1>3, <1>4, <1>5, AlikeSeen, SeenSameStep

LEMMA CloseMaps ==
  ASSUME IInv, RInv, NEW c \in Slots, Close(c)
  PROVE  RInv' /\ [Store!Next]_(Store!vars)
<1>1. PICK x : x = call[c]
  OBVIOUS
<1>2. x \in Running /\ WorksOnRequest(x) /\ x.at = "close"
  BY <1>1, CallWorks DEF Close
<1>3. PICK s : s = [x EXCEPT !.at = "returned"]
  OBVIOUS
<1>4. s \in Running /\ Keeps(s, x) /\ s.at = "returned" /\ s.seen = x.seen /\ s.key = x.key
  <2>1. "returned" \in Stages
    BY DEF Stages, Resting
  <2> QED
    BY <1>2, <1>3, <2>1, Gone
<1>5. WorksOnRequest(s) /\ Alike(s, x)
  BY <1>2, <1>4 DEF WorksOnRequest, Alike, Keeps, Salters, Resumed, Held
<1>6. (Set(c, s) \/ Set(c, Idle)) /\ UNCHANGED <<level, contract>>
  BY <1>1, <1>3 DEF Close, Go, Throws
<1>7. CASE Set(c, s)
  BY <1>1, <1>5, <1>6, <1>7, AlikeSeen, SeenSameStep DEF Set
<1>8. CASE Set(c, Idle)
  BY <1>1, <1>2, <1>6, <1>8, EndStep DEF Set
<1> QED
  BY <1>6, <1>7, <1>8

LEMMA ImportGoesOnMaps ==
  ASSUME IInv, RInv, NEW c \in Slots, ImportGoesOn(c)
  PROVE  RInv' /\ [Store!Next]_(Store!vars)
<1>1. PICK x : x = call[c]
  OBVIOUS
<1>2. x \in Running /\ WorksOnRequest(x) /\ x.at = "close"
  BY <1>1, CallWorks DEF ImportGoesOn
<1>3. UNCHANGED <<level, contract>>
  BY DEF ImportGoesOn
<1>4. CASE Set(c, Idle)
  BY <1>1, <1>2, <1>3, <1>4, EndStep DEF Set
<1>5. CASE Set(c, Returned(x))
  <2>1. PICK s : s = Returned(x)
    OBVIOUS
  <2>2. s \in Running /\ s.at = "returned" /\ s.op = x.op /\ s.val = x.val /\ s.seen = x.seen
        /\ s.id = x.id /\ s.under = x.under /\ s.key = x.key
    BY <1>2, <2>1, ReturnedRuns
  <2>3. WorksOnRequest(s) /\ Alike(s, x)
    BY <1>2, <2>2 DEF WorksOnRequest, Alike, Salters, Resumed, Held
  <2> QED
    BY <1>1, <1>3, <1>5, <2>1, <2>3, AlikeSeen, SeenSameStep DEF Set
<1>6. ASSUME NEW r, NEW prim, NEW id, Fitting(r, prim, id), Set(c, Primitive(r, prim, id))
      PROVE  RInv' /\ [Store!Next]_(Store!vars)
  BY <1>1, <1>2, <1>3, <1>6, PrimitiveMaps
<1> QED
  BY <1>1, <1>4, <1>5, <1>6, ImportContinues

LEMMA TakeMaps ==
  ASSUME IInv, RInv, NEW c \in Slots, Take(c)
  PROVE  RInv' /\ [Store!Next]_(Store!vars)
BY EndStep DEF Take, Set

(* What a call reads is what the store holds at that moment.               *)
LEMMA ReadMaps ==
  ASSUME IInv, RInv, NEW c \in Slots, Read(c)
  PROVE  RInv' /\ [Store!Next]_(Store!vars)
<1>1. PICK x : x = call[c]
  OBVIOUS
<1>2. x \in Running /\ CallFits(c, x) /\ WorksOnRequest(x) /\ x.at = "read"
  BY <1>1, CallWorks DEF Read
<1>3. UNCHANGED <<level, contract>>
  BY DEF Read
<1>4. /\ x.op \in {"get", "scan"} /\ x.seen = None
      /\ x.op = "get" => x.key = <<x.under, x.id>> /\ x.key \in Keys
  BY <1>2 DEF WorksOnRequest, CallFits, SetsValues
<1>5. PICK ks \in SUBSET Keys : ks = Asked(x)
  BY <1>4 DEF Asked
<1>6. \A k \in ks : level[k] # None
  BY <1>5 DEF Asked
<1>7. PICK q : q = Request(x)
  OBVIOUS
<1>8. q # None /\ q = IF x.op = "get" THEN [kind |-> "get", key |-> x.key] ELSE [kind |-> "scan"]
  <2>1. q # None
    BY <1>2, <1>7, HasRequest
  <2> QED
    BY <1>2, <1>4, <1>7, <2>1 DEF Request
<1>9. ASSUME NEW js \in SUBSET ks, NEW seen \in {None, IF x.op = "get" THEN Plain[x.key] ELSE Plain},
             Set(c, WithSeen(x, seen, Legacy(js)))
      PROVE  RInv' /\ [Store!Next]_(Store!vars)
  <2>1. PICK T \in Content : T = Legacy(js)
    BY <1>6, LegacyIsHeld
  <2>2. PICK s : s = WithSeen(x, seen, T)
    OBVIOUS
  <2>3. seen \in Values \cup Content \cup {None}
    <3>1. Plain \in Content
      BY WhatIsHeld
    <3> QED
      BY <1>4, <3>1 DEF Content
  <2>4. s \in Running /\ Keeps(s, x) /\ s.at = "reput" /\ s.seen = seen /\ s.todo = T /\ s.key = x.key
    <3>1. HasSeen(s, x, seen, T)
      BY <1>2, <2>2, <2>3, SeenTold
    <3> QED
      BY <3>1 DEF HasSeen
  <2>5. call'[c] = s /\ Others(c) /\ \A d \in Slots \ {c} : call'[d] = call[d]
    <3>1. call' = [call EXCEPT ![c] = s]
      BY <1>9, <2>1, <2>2 DEF Set
    <3> QED
      BY <3>1, LoneOthers
  <2>6. WorksOnRequest(s)
    BY <1>2, <1>4, <2>4 DEF Keeps, WorksOnRequest, Salters, Resumed
  <2>7. RInv'
    BY <2>5, <2>6, WorkMoves
  <2>8. Request(s) = q
    BY <1>2, <1>4, <1>7, <2>4 DEF Keeps, Request
  <2>9. Answer(s) = seen /\ Answer(x) = None
    BY <1>2, <1>4, <2>4 DEF Keeps, Answer
  <2>10. PICK old \in SUBSET js : old = {k \in js : level[k].fmt # "v2"}
    OBVIOUS
  <2>11. Held(s) = Kept(old)
    <3>1. Held(s) = Legacy(js)
      BY <2>1, <2>4 DEF Held
    <3>2. ASSUME NEW k \in Keys PROVE Legacy(js)[k] = IF k \in old THEN Plain[k] ELSE Absent
      BY <1>6, <2>10 DEF Legacy, Plain
    <3>3. Legacy(js) = [k \in Keys |-> Legacy(js)[k]]
      BY DEF Legacy
    <3> QED
      BY <3>1, <3>2, <3>3 DEF Kept
  <2>12. old \in SUBSET (Outdated \cap Reach(q))
    <3>1. old \in SUBSET Outdated
      BY <1>6, <2>10 DEF Outdated
    <3>2. x.op = "get" => old \in SUBSET {x.key}
      BY <1>5, <2>10 DEF Asked
    <3> QED
      BY <1>4, <1>8, <3>1, <3>2 DEF Reach
  <2>13. seen \in {None, Reply(q)} /\ q.kind \in {"get", "scan"}
    BY <1>4, <1>8, <1>9 DEF Reply
  <2> QED
    BY <1>1, <1>3, <1>7, <1>8, <2>5, <2>7, <2>8, <2>9, <2>11, <2>12, <2>13, CallReads
<1>10. CASE \A k \in ks : Readable(x, level[k])
  <2>1. PICK seen : seen = IF x.op = "get" THEN Plain[x.key] ELSE Plain
    OBVIOUS
  <2>2. Set(c, WithSeen(x, seen, Legacy(ks)))
    BY <1>1, <1>5, <1>10, <2>1 DEF Read, WithSeen
  <2> QED
    BY <1>9, <2>1, <2>2
<1>11. CASE ~\A k \in ks : Readable(x, level[k])
  <2>1. PICK js \in SUBSET {k \in ks : Readable(x, level[k])} :
          Set(c, [x EXCEPT !.todo = Legacy(js), !.at = "reput"])
    BY <1>1, <1>5, <1>11 DEF Read
  <2>2. PICK T \in Content : T = Legacy(js)
    BY <1>6, <2>1, LegacyIsHeld
  <2>3. [x EXCEPT !.todo = T, !.at = "reput"] = WithSeen(x, None, T)
    BY <1>2, <1>4 DEF Running, WithSeen
  <2>4. Set(c, WithSeen(x, None, Legacy(js))) /\ js \in SUBSET ks
    BY <2>1, <2>2, <2>3
  <2> QED
    BY <1>9, <2>4
<1> QED
  BY <1>10, <1>11

(* Re-encryption puts back what was read, of an entry that is then in the  *)
(* current format.                                                         *)
LEMMA ReencryptMaps ==
  ASSUME IInv, RInv, NEW c \in Slots, Reencrypt(c)
  PROVE  RInv' /\ [Store!Next]_(Store!vars)
<1>1. PICK x : x = call[c]
  OBVIOUS
<1>2. x \in Running /\ CallFits(c, x) /\ WorksOnRequest(x) /\ x.at = "reput"
  BY <1>1, CallWorks DEF Reencrypt
<1>3. x.op \in {"get", "scan"} /\ UNCHANGED contract /\ level \in [Keys -> Stored \cup {None}]
  BY <1>2 DEF WorksOnRequest, Reencrypt, IInv, TypeOK
<1>4. CASE x.todo = Unread /\ x.seen = None
  BY <1>1, <1>2, <1>3, <1>4, EndStep DEF Reencrypt, Set
<1>5. CASE x.todo = Unread /\ x.seen # None
  <2>1. PICK r : r = Closing(x)
    OBVIOUS
  <2>2. r \in Running /\ Keeps(r, x) /\ r.at = "close" /\ r.seen = x.seen /\ r.key = x.key
    BY <1>2, <2>1, Closed
  <2>3. call' = [call EXCEPT ![c] = r] /\ UNCHANGED level
    BY <1>1, <1>5, <2>1 DEF Reencrypt, Set
  <2>4. WorksOnRequest(r)
    BY <1>2, <1>3, <1>5, <2>2 DEF WorksOnRequest, Keeps, Salters, Resumed
  <2>5. Request(r) = Request(x)
    BY <1>2, <2>2 DEF Request, Keeps
  <2>6. Answer(r) = Answer(x)
    BY <1>2, <1>3, <2>2 DEF Answer, Keeps
  <2>7. Held(r) = Held(x)
    BY <1>2, <1>5, <2>2 DEF Held
  <2>8. Seen(r) = Seen(x)
    BY <2>5, <2>6, <2>7 DEF Seen
  <2> QED
    BY <1>1, <1>3, <2>3, <2>4, <2>8, SeenSameStep
<1>6. CASE x.todo # Unread
  <2>1. PICK k \in {j \in Keys : x.todo[j] # Absent} :
          /\ level' = [level EXCEPT ![k] = Entry(x.salt, x.password, x.todo[k])]
          /\ Set(c, [x EXCEPT !.todo[k] = Absent])
    BY <1>1, <1>6 DEF Reencrypt
  <2>2. PICK old \in Content : old = x.todo
    BY <1>2 DEF Running
  <2>3. PICK T \in Content : T = [old EXCEPT ![k] = Absent]
    BY DEF Content, Values
  <2>4. old[k] \in Vals
    BY <2>1, <2>2 DEF Content, Values
  <2>5. PICK r : r = [x EXCEPT !.todo = T]
    OBVIOUS
  <2>6. Keeps(r, x) /\ r.at = "reput" /\ r.seen = x.seen /\ r.key = x.key /\ r.todo = T
    <3>1. Unmoved(r, x) /\ r.todo = T
      BY <1>2, <2>5, ToDo DEF Running
    <3> QED
      BY <1>2, <3>1 DEF Unmoved
  <2>7. call'[c] = r /\ Others(c) /\ \A d \in Slots \ {c} : call'[d] = call[d]
    <3>1. call' = [call EXCEPT ![c] = r]
      BY <1>1, <2>1, <2>2, <2>3, <2>5 DEF Set
    <3> QED
      BY <3>1, LoneOthers
  <2>8. WorksOnRequest(r)
    BY <1>2, <1>3, <2>6 DEF WorksOnRequest, Keeps, Salters, Resumed
  <2>9. RInv'
    BY <2>7, <2>8, WorkMoves
  <2>10. PICK q : q = Request(x)
    OBVIOUS
  <2>11. q # None /\ Request(r) = q /\ q.kind # "rotate" /\ Answer(r) = Answer(x)
    <3>1. q # None
      BY <1>2, <2>10, HasRequest
    <3>2. Request(r) = q /\ q.kind # "rotate"
      BY <1>2, <1>3, <2>6, <2>10 DEF Request, Keeps
    <3>3. Answer(r) = Answer(x)
      BY <1>2, <1>3, <2>6 DEF Answer, Keeps
    <3> QED
      BY <3>1, <3>2, <3>3
  <2>12. Held(x) = old /\ Held(r) = T
    BY <1>2, <2>2, <2>6 DEF Held
  <2>13. PICK n : n = Entry(x.salt, x.password, old[k])
    OBVIOUS
  <2>14. n.fmt = "v2" /\ n.val = old[k] /\ n # None
    <3>1. n \in Stored
      BY <1>2, <2>4, <2>13 DEF Entry, Stored, Running
    <3> QED
      BY <2>13, <3>1, NamesAssumption DEF Entry
  <2>15. \A j \in Keys : level'[j] = IF j = k THEN n ELSE level[j]
    BY <1>3, <2>1, <2>2, <2>13
  <2>16. Plain' = Back(old, {k})
    BY <2>14, <2>15 DEF Plain, Back
  <2>17. Outdated' = Outdated \ {k}
    BY <2>14, <2>15 DEF Outdated
  <2>18. T = Rest(old, {k})
    BY <2>3 DEF Content, Rest
  <2>19. {k} \in SUBSET Given(old)
    BY <2>1, <2>2 DEF Given
  <2> QED
    BY <1>1, <1>3, <2>7, <2>9, <2>10, <2>11, <2>12, <2>16, <2>17, <2>18, <2>19, CallPutsBack
<1> QED
  BY <1>4, <1>5, <1>6

(* A write takes place when its entry is put or deleted.                   *)
LEMMA WriteMaps ==
  ASSUME IInv, RInv, NEW c \in Slots, Write(c)
  PROVE  RInv' /\ [Store!Next]_(Store!vars)
<1>1. PICK x : x = call[c]
  OBVIOUS
<1>2. x \in Running /\ CallFits(c, x) /\ WorksOnRequest(x) /\ x.at = "write"
  BY <1>1, CallWorks DEF Write
<1>3. level \in [Keys -> Stored \cup {None}] /\ UNCHANGED contract
  BY DEF Write, IInv, TypeOK
<1>4. x.op \in {"set", "remove"} /\ x.key \in Keys /\ (x.op = "set" => x.val \in Vals)
  BY <1>2 DEF CallFits, SetsValues, WorksOnRequest
<1>5. PICK r : r = Closing(x)
  OBVIOUS
<1>6. r \in Running /\ Keeps(r, x) /\ r.at = "close" /\ r.seen = x.seen /\ r.key = x.key
  BY <1>2, <1>5, Closed
<1>7. PICK e : e = IF x.op = "set" THEN Entry(x.salt, x.password, x.val) ELSE None
  OBVIOUS
<1>8. /\ call'[c] = r /\ Others(c) /\ \A d \in Slots \ {c} : call'[d] = call[d]
      /\ \A k \in Keys : level'[k] = IF k = x.key THEN e ELSE level[k]
  <2>1. call' = [call EXCEPT ![c] = r]
    BY <1>1, <1>5 DEF Write, Set
  <2> QED
    BY <1>1, <1>3, <1>7, <2>1, LoneOthers DEF Write
<1>9. IF x.op = "set" THEN e # None /\ e.fmt = "v2" /\ e.val = x.val ELSE e = None
  <2>1. x.op = "set" => e \in Stored
    BY <1>2, <1>4, <1>7 DEF Entry, Stored, Running
  <2> QED
    BY <1>7, <2>1, NamesAssumption DEF Entry
<1>10. PICK v : v = IF x.op = "set" THEN x.val ELSE Absent
  OBVIOUS
<1>11. WorksOnRequest(r)
  BY <1>2, <1>4, <1>6 DEF WorksOnRequest, Keeps, Salters, Resumed
<1>12. RInv'
  BY <1>8, <1>11, WorkMoves
<1>13. Request(x) = [kind |-> "set", id |-> x.id, key |-> x.key, val |-> v] /\ Request(r) = Request(x)
  BY <1>2, <1>4, <1>6, <1>10 DEF Request, Keeps
<1>14. Request(r) # None /\ Request(r).key # None
  BY <1>2, <1>4, <1>13, HasRequest, NamesAssumption
<1>15. Answer(x) = None /\ Answer(r) = Done /\ Held(r) = Held(x)
  BY <1>2, <1>4, <1>6 DEF Answer, Keeps, Held
<1>16. Plain' = [Plain EXCEPT ![x.key] = v]
  BY <1>4, <1>8, <1>9, <1>10 DEF Plain
<1>17. Outdated' = Outdated \ {x.key}
  BY <1>8, <1>9 DEF Outdated
<1>18. Request(r).kind = "set" /\ Request(r).key = x.key /\ Request(r).val = v
  BY <1>13
<1> QED
  BY <1>1, <1>3, <1>8, <1>12, <1>13, <1>14, <1>15, <1>16, <1>17, <1>18, CallWrites

(* Rotation.  Who waits for the lock, or joined a promise that fails, goes *)
(* on unseen.                                                              *)
LEMMA WokenSeen ==
  ASSUME NEW y \in Running, WorksOnRequest(y), NEW at, NEW s, s = [y EXCEPT !.at = at],
         (y.at = "wait" /\ at = "check") \/ (y.at = "join" /\ at = "doomed")
  PROVE  Seen(s) = Seen(y) /\ WorksOnRequest(s)
<1>1. at \in Stages
  BY DEF Stages, InFlight, Resumed
<1>2. /\ s \in Running /\ Keeps(s, y) /\ s.at = at /\ s.seen = y.seen /\ s.key = y.key
  BY <1>1, Gone
<1>3. WorksOnRequest(s) /\ Alike(s, y)
  BY <1>2 DEF WorksOnRequest, Alike, Keeps, Salters, Resumed, Held
<1> QED
  BY <1>3, AlikeSeen

\* A call is over, and the others that go on with it do so unseen.
LEMMA OverStep ==
  ASSUME IInv, RInv, NEW c \in Slots, call[c].at # "idle", call'[c] = Idle, UNCHANGED <<level, contract>>,
         \A d \in Slots \ {c} : Seen(call'[d]) = Seen(call[d]) /\ WorksOnRequest(call'[d])
  PROVE  RInv' /\ [Store!Next]_(Store!vars)
<1>1. RInv'
  BY IdleWorks, WorkMoves
<1>2. PICK x : x = call[c]
  OBVIOUS
<1>3. Request(x) # None
  BY <1>2, CallWorks, HasRequest
<1> QED
  BY <1>1, <1>2, <1>3, CallEnds DEF Others

LEMMA ReleasedMaps ==
  ASSUME IInv, RInv, NEW c \in Slots, call[c].at # "idle", Released(c), UNCHANGED <<level, contract>>
  PROVE  RInv' /\ [Store!Next]_(Store!vars)
<1>1. ASSUME NEW d \in Slots \ {c}
      PROVE  Seen(call'[d]) = Seen(call[d]) /\ WorksOnRequest(call'[d])
  <2>1. PICK y : y = call[d]
    OBVIOUS
  <2>2. y \in Running /\ WorksOnRequest(y)
    BY <2>1, CallWorks
  <2>3. CASE y.at = "wait"
    <3>1. PICK s : s = [y EXCEPT !.at = "check"]
      OBVIOUS
    <3>2. call'[d] = s
      BY <2>1, <2>3, <3>1 DEF Released
    <3> QED
      BY <2>1, <2>2, <2>3, <3>1, <3>2, WokenSeen
  <2>4. CASE y.at # "wait"
    BY <2>1, <2>2, <2>4 DEF Released
  <2> QED
    BY <2>3, <2>4
<1>2. call'[c] = Idle
  BY DEF Released
<1> QED
  BY <1>1, <1>2, OverStep

LEMMA RotationScanMaps ==
  ASSUME IInv, RInv, NEW c \in Slots, RotationScan(c)
  PROVE  RInv' /\ [Store!Next]_(Store!vars)
<1>1. PICK x : x = call[c]
  OBVIOUS
<1>2. x \in Running /\ CallFits(c, x) /\ WorksOnRequest(x) /\ x.at = "scan"
  BY <1>1, CallWorks DEF RotationScan
<1>3. x.op = "rotate" /\ x.seen = None
  BY <1>2 DEF CallFits, RotatesAlone
<1>4. UNCHANGED <<level, contract>>
  BY DEF RotationScan
<1>5. PICK y : y = [x EXCEPT !.at = "rotated"]
  OBVIOUS
<1>6. y \in Running /\ Keeps(y, x) /\ y.at = "rotated" /\ y.seen = None
  <2>1. "rotated" \in Stages
    BY DEF Stages, InFlight
  <2> QED
    BY <1>2, <1>3, <1>5, <2>1, Gone
<1>7. PICK z : z = [x EXCEPT !.seen = Plain]
  OBVIOUS
<1>8. PICK w : w = [z EXCEPT !.at = "batch"]
  OBVIOUS
<1>9. w \in Running /\ Keeps(w, x) /\ w.at = "batch" /\ w.seen = Plain
  <2>1. PICK held \in Content : held = Plain
    BY WhatIsHeld
  <2>2. z \in Running /\ Keeps(z, x) /\ z.seen = Plain
    BY <1>2, <1>7, <2>1, Answered
  <2>3. "batch" \in Stages
    BY DEF Stages, InFlight
  <2>4. w \in Running /\ Keeps(w, z) /\ w.at = "batch" /\ w.seen = z.seen
    BY <1>8, <2>2, <2>3, Gone
  <2> QED
    BY <2>2, <2>4 DEF Keeps
<1>10. call' = [call EXCEPT ![c] = y] \/ call' = [call EXCEPT ![c] = w] \/ Released(c)
  BY <1>1, <1>5, <1>7, <1>8 DEF RotationScan, Set
<1>11. CASE call' = [call EXCEPT ![c] = y]
  <2>1. WorksOnRequest(y)
    BY <1>3, <1>6 DEF WorksOnRequest, Keeps
  <2>2. Alike(y, x)
    BY <1>2, <1>3, <1>6 DEF Alike, Keeps, Held
  <2> QED
    BY <1>1, <1>4, <1>11, <2>1, <2>2, AlikeSeen, SeenSameStep
<1>12. CASE call' = [call EXCEPT ![c] = w]
  <2>1. WorksOnRequest(w)
    BY <1>3, <1>9 DEF WorksOnRequest, Keeps
  <2>2. call'[c] = w /\ Others(c) /\ \A d \in Slots \ {c} : call'[d] = call[d]
    BY <1>12, LoneOthers
  <2>3. RInv'
    BY <2>1, <2>2, WorkMoves
  <2>4. Request(x) = [kind |-> "rotate"] /\ Answer(x) = None
    BY <1>2, <1>3, RotationSeen
  <2>5. Request(w) = [kind |-> "rotate"] /\ Answer(w) = None /\ Held(w) = Plain
    BY <1>3, <1>9 DEF Request, Answer, Held, Keeps
  <2>6. Request(x) # None
    BY <1>2, HasRequest
  <2>7. Request(w) # None /\ Request(w).kind = "rotate"
    BY <2>4, <2>5, <2>6
  <2> QED
    BY <1>1, <1>4, <2>2, <2>3, <2>4, <2>5, <2>7, RotationReads
<1>13. CASE Released(c)
  BY <1>1, <1>2, <1>4, <1>13, ReleasedMaps
<1> QED
  BY <1>10, <1>11, <1>12, <1>13

LEMMA RotationReturnsMaps ==
  ASSUME IInv, RInv, NEW c \in Slots, RotationReturns(c)
  PROVE  RInv' /\ [Store!Next]_(Store!vars)
BY ReleasedMaps DEF RotationReturns

LEMMA RotationBatchMaps ==
  ASSUME IInv, RInv, NEW c \in Slots, RotationBatch(c)
  PROVE  RInv' /\ [Store!Next]_(Store!vars)
<1>1. PICK x : x = call[c]
  OBVIOUS
<1>2. x \in Running /\ CallFits(c, x) /\ WorksOnRequest(x) /\ x.at = "batch"
  BY <1>1, CallWorks DEF RotationBatch
<1>3. x.op = "rotate" /\ x.seen \in Content
  BY <1>2 DEF CallFits, RotatesAlone
<1>4. PICK held \in Content : held = x.seen
  BY <1>3
<1>5. PICK n \in Nat : n = nextSalt
  BY DEF IInv, TypeOK
<1>6. PICK p \in Passwords \cup {None} : p = x.password
  BY <1>2 DEF Running
<1>7. PICK r : r = [x EXCEPT !.at = "rotated"]
  OBVIOUS
<1>8. Keeps(r, x) /\ r.at = "rotated" /\ r.seen = x.seen
  <2>1. "rotated" \in Stages
    BY DEF Stages, InFlight
  <2> QED
    BY <1>2, <1>7, <2>1, Gone
<1>9. /\ level' = [k \in Keys |-> IF held[k] = Absent THEN level[k] ELSE Entry(n, p, held[k])]
      /\ call' = [call EXCEPT ![c] = r] /\ UNCHANGED contract
  BY <1>1, <1>4, <1>5, <1>6, <1>7 DEF RotationBatch, Go, Set
<1>10. PICK ks : ks = Given(held)
  OBVIOUS
<1>11. \A k \in ks : level'[k].fmt = "v2" /\ level'[k].val = held[k] /\ level'[k] # None
  <2>1. ASSUME NEW k \in ks PROVE level'[k].fmt = "v2" /\ level'[k].val = held[k] /\ level'[k] # None
    <3>1. k \in Keys /\ held[k] \in Vals
      BY <1>10 DEF Given, Content, Values
    <3>2. PICK e : e = Entry(n, p, held[k])
      OBVIOUS
    <3>3. e \in Stored /\ e.fmt = "v2" /\ e.val = held[k]
      BY <3>1, <3>2 DEF Entry, Stored
    <3>4. level'[k] = e
      BY <1>9, <1>10, <3>2 DEF Given
    <3> QED
      BY <3>3, <3>4, NamesAssumption
  <2> QED
    BY <2>1
<1>12. ks \subseteq Keys /\ \A k \in Keys \ ks : level'[k] = level[k]
  BY <1>9, <1>10 DEF Given
<1>13. Plain' = Back(held, ks)
  BY <1>11, <1>12 DEF Plain, Back
<1>14. Outdated' = Outdated \ ks
  BY <1>11, <1>12 DEF Outdated
<1>15. Unread = Rest(held, ks)
  BY <1>10 DEF Unread, Rest, Given
<1>16. WorksOnRequest(r)
  BY <1>3, <1>8 DEF WorksOnRequest, Keeps
<1>17. call'[c] = r /\ Others(c) /\ \A d \in Slots \ {c} : call'[d] = call[d]
  BY <1>9, LoneOthers
<1>18. RInv'
  BY <1>16, <1>17, WorkMoves
<1>19. PICK q : q = Request(x)
  OBVIOUS
<1>20. q # None /\ Request(r) = q
  BY <1>2, <1>3, <1>8, <1>19, HasRequest DEF Request, Keeps
<1>21. Answer(x) = None /\ Answer(r) = None
  BY <1>3, <1>8 DEF Answer, Keeps
<1>22. Held(x) = held /\ Held(r) = Unread
  BY <1>2, <1>4, <1>8 DEF Held
<1>23. ks \in SUBSET Given(held)
  BY <1>10
<1> QED
  BY <1>1, <1>9, <1>10, <1>13, <1>14, <1>15, <1>17, <1>18, <1>19, <1>20, <1>21, <1>22, <1>23, CallPutsBack

(* Failures and the application.                                           *)
LEMMA ThrowMaps ==
  ASSUME IInv, RInv, NEW c \in Slots, Throw(c)
  PROVE  RInv' /\ [Store!Next]_(Store!vars)
<1>1. PICK b \in BOOLEAN : b = (call[c].op = "rotate")
  OBVIOUS
<1>2. call' = [d \in Slots |->
                 IF d = c THEN Idle
                 ELSE IF salting = c /\ call[d].at = "join" THEN [call[d] EXCEPT !.at = "doomed"]
                 ELSE IF b /\ call[d].at = "wait" THEN [call[d] EXCEPT !.at = "check"]
                 ELSE call[d]]
  BY <1>1 DEF Throw
<1>3. ASSUME NEW d \in Slots \ {c}
      PROVE  Seen(call'[d]) = Seen(call[d]) /\ WorksOnRequest(call'[d])
  <2>1. PICK y : y = call[d]
    OBVIOUS
  <2>2. y \in Running /\ WorksOnRequest(y)
    BY <2>1, CallWorks
  <2>3. CASE salting = c /\ y.at = "join"
    <3>1. PICK s : s = [y EXCEPT !.at = "doomed"]
      OBVIOUS
    <3>2. call'[d] = s
      BY <1>2, <2>1, <2>3, <3>1
    <3> QED
      BY <2>1, <2>2, <2>3, <3>1, <3>2, WokenSeen
  <2>4. CASE ~(salting = c /\ y.at = "join") /\ b /\ y.at = "wait"
    <3>1. PICK s : s = [y EXCEPT !.at = "check"]
      OBVIOUS
    <3>2. call'[d] = s
      BY <1>2, <2>1, <2>4, <3>1
    <3> QED
      BY <2>1, <2>2, <2>4, <3>1, <3>2, WokenSeen
  <2>5. CASE ~(salting = c /\ y.at = "join") /\ ~(b /\ y.at = "wait")
    BY <1>2, <2>1, <2>2, <2>5
  <2> QED
    BY <2>3, <2>4, <2>5
<1>4. call'[c] = Idle /\ call[c].at # "idle" /\ UNCHANGED <<level, contract>>
  BY <1>2 DEF Throw, InFlight
<1> QED
  BY <1>3, <1>4, OverStep

LEMMA SameSeen ==
  ASSUME \A d \in Slots : Seen(call'[d]) = Seen(call[d])
  PROVE  /\ [c \in Slots |-> Request(call[c])]' = [c \in Slots |-> Request(call[c])]
         /\ [c \in Slots |-> Answer(call[c])]' = [c \in Slots |-> Answer(call[c])]
         /\ [c \in Slots |-> Held(call[c])]' = [c \in Slots |-> Held(call[c])]
<1>1. \A d \in Slots : /\ Request(call'[d]) = Request(call[d])
                       /\ Answer(call'[d]) = Answer(call[d])
                       /\ Held(call'[d]) = Held(call[d])
  BY DEF Seen
<1> QED
  BY <1>1

LEMMA CrossedMaps ==
  ASSUME IInv, RInv, call' = Crossed
  PROVE  RInv' /\ \A d \in Slots : Seen(call'[d]) = Seen(call[d])
<1>1. ASSUME NEW d \in Slots PROVE Seen(call'[d]) = Seen(call[d]) /\ WorksOnRequest(call'[d])
  <2>1. PICK x : x = call[d]
    OBVIOUS
  <2>2. PICK y : y = Cross(x)
    OBVIOUS
  <2>3. Seen(y) = Seen(x) /\ WorksOnRequest(y)
    BY <2>1, <2>2, CallWorks, CrossSeen
  <2> QED
    BY <2>1, <2>2, <2>3, AllCrossed
<1>2. \A d \in Slots : WorksOnRequest(call[d])'
  BY <1>1 DEF WorksOnRequest
<1> QED
  BY <1>1, <1>2 DEF RInv

LEMMA ClearMaps ==
  ASSUME IInv, RInv, Clear
  PROVE  RInv' /\ [Store!Next]_(Store!vars)
<1>1. RInv' /\ \A d \in Slots : Seen(call'[d]) = Seen(call[d])
  BY CrossedMaps DEF Clear
<1>2. Keys = Store!Keys
  BY DEF Keys, Store!Keys
<1>3. Plain' = Store!Empty /\ Outdated' = {} /\ UNCHANGED contract
  BY <1>2 DEF Clear, Plain, Outdated, Store!Empty
<1>4. Store!Clear
  BY <1>1, <1>3, SameSeen DEF Store!Clear
<1> QED
  BY <1>1, <1>4 DEF Store!Next

LEMMA MigrateMaps ==
  ASSUME IInv, RInv, Migrate
  PROVE  RInv' /\ [Store!Next]_(Store!vars)
<1>1. RInv' /\ \A d \in Slots : Seen(call'[d]) = Seen(call[d])
  BY CrossedMaps DEF Migrate
<1>2. Keys = Store!Keys
  BY DEF Keys, Store!Keys
<1>3. PICK O : O = OldLevel.entries
  OBVIOUS
<1>4. PICK old : old = [k \in Keys |-> IF O[k] = None THEN Absent ELSE O[k].val]
  OBVIOUS
<1>5. O \in [Keys -> Stored \cup {None}]
  BY <1>3, LevelsAssumption
<1>6. \A k \in Keys : level'[k] = IF O[k] # None THEN O[k] ELSE level[k]
  BY <1>3 DEF Migrate
<1>7. \A k \in Keys : old[k] = Absent <=> O[k] = None
  BY <1>4, <1>5, NamesAssumption DEF Stored
<1>8. Plain' = [k \in Store!Keys |-> IF old[k] = Absent THEN Plain[k] ELSE old[k]]
  <2>1. \A k \in Keys : Plain'[k] = IF old[k] = Absent THEN Plain[k] ELSE old[k]
    BY <1>4, <1>6, <1>7 DEF Plain
  <2> QED
    BY <1>2, <2>1 DEF Plain
<1>9. \A k \in Store!Keys : old[k] = Absent => (k \in Outdated' <=> k \in Outdated)
  BY <1>2, <1>6, <1>7 DEF Outdated
<1>10. UNCHANGED contract
  BY DEF Migrate
<1>11. Store!Adopt
  BY <1>1, <1>3, <1>4, <1>8, <1>9, <1>10, SameSeen DEF Store!Adopt
<1> QED
  BY <1>1, <1>11 DEF Store!Next

LEMMA SetContractAddressMaps ==
  ASSUME IInv, RInv, SetContractAddress
  PROVE  RInv' /\ [Store!Next]_(Store!vars)
<1>1. RInv' /\ \A d \in Slots : Seen(call'[d]) = Seen(call[d])
  BY DEF SetContractAddress, RInv
<1>2. Store!SelectContract
  BY <1>1, SameSeen, SameStore DEF SetContractAddress, Store!SelectContract
<1> QED
  BY <1>1, <1>2 DEF Store!Next

LEMMA InvalidateMaps ==
  ASSUME IInv, RInv, InvalidateEncryptionCache \/ UNCHANGED vars
  PROVE  RInv' /\ [Store!Next]_(Store!vars)
<1>1. UNCHANGED <<level, contract, call>>
  BY DEF InvalidateEncryptionCache, vars
<1> QED
  BY <1>1, ManyUnseen DEF RInv

LEMMA CrashMaps ==
  ASSUME IInv, RInv, Crash
  PROVE  RInv' /\ [Store!Next]_(Store!vars)
<1>1. \A d \in Slots : call'[d] = Idle
  BY DEF Crash
<1>2. RInv'
  <2>1. \A d \in Slots : WorksOnRequest(call[d])'
    BY <1>1, IdleWorks DEF WorksOnRequest
  <2> QED
    BY <2>1 DEF RInv
<1>3. Unread = Store!Empty
  BY DEF Unread, Store!Empty, Keys, Store!Keys
<1>4. /\ [d \in Slots |-> Request(call[d])]' = [d \in Slots |-> None]
      /\ [d \in Slots |-> Answer(call[d])]' = [d \in Slots |-> None]
      /\ [d \in Slots |-> Held(call[d])]' = [d \in Slots |-> Unread]
  BY <1>1, IdleSeen
<1>5. UNCHANGED <<level, contract>>
  BY DEF Crash
<1>6. Store!Crash
  BY <1>3, <1>4, <1>5, SameStore DEF Store!Crash
<1> QED
  BY <1>2, <1>6 DEF Store!Next

LEMMA InitMaps ==
  ASSUME Init
  PROVE  RInv /\ Store!Init
<1>1. \A d \in Slots : call[d] = Idle
  BY DEF Init
<1>2. Unread = Store!Empty
  BY DEF Unread, Store!Empty, Keys, Store!Keys
<1>3. Store!Init
  BY <1>1, <1>2, IdleSeen DEF Store!Init
<1> QED
  BY <1>1, <1>3, IdleWorks DEF RInv

LEMMA StepMaps ==
  ASSUME IInv, RInv, [Next]_vars
  PROVE  RInv' /\ [Store!Next]_(Store!vars)
<1>1. ASSUME NEW c \in Slots, Starts(c) PROVE RInv' /\ [Store!Next]_(Store!vars)
  BY <1>1, AsksMaps, ChangePasswordMaps DEF Starts, Asks
<1>2. ASSUME NEW c \in Slots, Expire(c) PROVE RInv' /\ [Store!Next]_(Store!vars)
  BY <1>2, ExpireMaps
<1>3. ASSUME NEW c \in Slots, Proceeds(c) PROVE RInv' /\ [Store!Next]_(Store!vars)
  BY <1>3, RecheckMaps, PastMaps, ReadSaltMaps, SaltedMaps, TakeKeyMaps, ReadMaps, ReencryptMaps,
     WriteMaps, CloseMaps, ImportGoesOnMaps DEF Proceeds
<1>4. ASSUME NEW c \in Slots, Rotates(c) PROVE RInv' /\ [Store!Next]_(Store!vars)
  BY <1>4, RotationScanMaps, RotationBatchMaps, RotationReturnsMaps DEF Rotates
<1>5. ASSUME NEW c \in Slots, Throw(c) PROVE RInv' /\ [Store!Next]_(Store!vars)
  BY <1>5, ThrowMaps
<1>6. ASSUME NEW c \in Slots, Take(c) PROVE RInv' /\ [Store!Next]_(Store!vars)
  BY <1>6, TakeMaps
<1>7. CASE Clear
  BY <1>7, ClearMaps
<1>8. CASE SetContractAddress
  BY <1>8, SetContractAddressMaps
<1>9. CASE InvalidateEncryptionCache \/ UNCHANGED vars
  BY <1>9, InvalidateMaps
<1>10. CASE Migrate
  BY <1>10, MigrateMaps
<1>11. CASE Crash
  BY <1>11, CrashMaps
<1> QED
  BY <1>1, <1>2, <1>3, <1>4, <1>5, <1>6, <1>7, <1>8, <1>9, <1>10, <1>11 DEF Next

(* The provider implements the store PrivateStore describes: through       *)
(* rotations, new salts, re-encryption, joined promises, failures and      *)
(* crashes, with clear(), a migration or a change of contract at any       *)
(* moment, a get or an export answers what the store held at one moment of *)
(* the call, a set or a remove writes its value once, and nothing else     *)
(* changes a value but what a reader or a rotation puts back.              *)
THEOREM ProviderImplementsStore == Spec => StoreSpec
<1>1. Init => IInv /\ RInv /\ Store!Init
  BY InitFits, InitMaps
<1>2. IInv /\ RInv /\ [Next]_vars => IInv' /\ RInv' /\ [Store!Next]_(Store!vars)
  BY StepFits, StepMaps
<1> QED
  BY <1>1, <1>2, PTL DEF Spec, StoreSpec, Store!Spec

=============================================================================
