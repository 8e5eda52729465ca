---------------------------- MODULE VaultProofs ----------------------------
(***************************************************************************)
(* Proofs about Vault: for any root records, codecs and packages, and      *)
(* calls inside calls to any depth.                                        *)
(***************************************************************************)
EXTENDS Vault, SequenceTheorems, NaturalsInduction, WellFoundedInduction, TLAPS

-----------------------------------------------------------------------------
(* Lists of checks: "accepted" means that none fails.                      *)
Codes     == {"LOCKED", "UNSUPPORTED", "CODEC_UNKNOWN", "CODEC", "ROOT", "EPOCH", "AUTH",
              "BINDING", "SCHEMA", "ROLE", "REFERENCE"}
ACheck    == [fails : BOOLEAN, code : Codes]
CheckList == Seq(ACheck)

LEMMA LeastOf ==
  ASSUME NEW S \in SUBSET Nat, S # {}
  PROVE  \E n \in S : \A m \in S : n <= m
<1>1. PICK n \in S : \A m \in S : <<m, n>> \notin OpToRel(<, Nat)
  BY NatLessThanWellFounded, WFMin, Zenon
<1>2. \A m \in S : ~(m < n)
  BY <1>1, Zenon DEF OpToRel
<1> QED
  BY <1>2

LEMMA Accepted ==
  ASSUME NEW s \in CheckList
  PROVE  FirstFailing(s) # "OK" /\ (FirstFailing(s) = "accepted" <=> Failing(s) = {})
<1>1. ASSUME Failing(s) # {} PROVE FirstFailing(s) \in Codes
  <2> DEFINE first == CHOOSE i \in Failing(s) : \A j \in Failing(s) : i <= j
  <2>1. Failing(s) \in SUBSET Nat
    BY DEF Failing, CheckList
  <2>2. first \in Failing(s)
    BY <1>1, <2>1, LeastOf
  <2>3. FirstFailing(s) = s[first].code
    BY <1>1, Zenon DEF FirstFailing
  <2> HIDE DEF first
  <2>4. s[first] \in ACheck
    BY <2>2 DEF Failing, CheckList
  <2> QED
    BY <2>3, <2>4 DEF ACheck
<1> QED
  BY <1>1 DEF FirstFailing, Codes

LEMMA Checked ==
  ASSUME NEW fails \in BOOLEAN, NEW code \in Codes
  PROVE  Check(fails, code) \in ACheck /\ Check(fails, code).fails = fails
BY DEF Check, ACheck

LEMMA OneAfterTheOther ==
  ASSUME NEW s \in CheckList, NEW t \in CheckList
  PROVE  /\ s \o t \in CheckList
         /\ Failing(s \o t) = {} <=> Failing(s) = {} /\ Failing(t) = {}
<1>1. s \o t \in CheckList
  BY DEF CheckList
<1>2. /\ DOMAIN s = 1..Len(s) /\ DOMAIN t = 1..Len(t) /\ DOMAIN (s \o t) = 1..(Len(s) + Len(t))
      /\ Len(s) \in Nat /\ Len(t) \in Nat
  BY DEF CheckList
<1>3. \A i \in 1..Len(s) : (s \o t)[i] = s[i]
  BY <1>2 DEF CheckList
<1>4. \A i \in 1..Len(t) : (s \o t)[Len(s) + i] = t[i]
  BY <1>2 DEF CheckList
<1>5. ASSUME Failing(s \o t) = {} PROVE Failing(s) = {} /\ Failing(t) = {}
  <2>1. \A i \in 1..(Len(s) + Len(t)) : ~(s \o t)[i].fails
    BY <1>2, <1>5 DEF Failing
  <2>2. \A i \in 1..Len(s) : i \in 1..(Len(s) + Len(t))
    BY <1>2
  <2>3. \A i \in 1..Len(t) : Len(s) + i \in 1..(Len(s) + Len(t))
    BY <1>2
  <2>4. (\A i \in 1..Len(s) : ~s[i].fails) /\ (\A i \in 1..Len(t) : ~t[i].fails)
    BY <1>3, <1>4, <2>1, <2>2, <2>3, Zenon
  <2> QED
    BY <1>2, <2>4 DEF Failing
<1>6. ASSUME Failing(s) = {}, Failing(t) = {} PROVE Failing(s \o t) = {}
  <2>1. ASSUME NEW i \in 1..(Len(s) + Len(t)) PROVE ~(s \o t)[i].fails
    <3>1. CASE i \in 1..Len(s)
      BY <1>2, <1>3, <1>6, <3>1 DEF Failing
    <3>2. CASE i - Len(s) \in 1..Len(t)
      <4>1. i = Len(s) + (i - Len(s))
        BY <1>2
      <4> QED
        BY <1>2, <1>4, <1>6, <3>2, <4>1 DEF Failing
    <3> QED
      BY <1>2, <3>1, <3>2
  <2> QED
    BY <1>2, <2>1 DEF Failing
<1> QED
  BY <1>1, <1>5, <1>6

LEMMA Singly ==
  ASSUME NEW c \in ACheck
  PROVE  <<c>> \in CheckList /\ (Failing(<<c>>) = {} <=> ~c.fails)
BY DEF CheckList, Failing

LEMMA Pairwise ==
  ASSUME NEW c \in ACheck, NEW d \in ACheck
  PROVE  <<c, d>> \in CheckList /\ (Failing(<<c, d>>) = {} <=> ~c.fails /\ ~d.fails)
BY DEF CheckList, Failing

LEMMA ThreeOfThem ==
  ASSUME NEW c \in ACheck, NEW d \in ACheck, NEW e \in ACheck
  PROVE  /\ <<c, d, e>> \in CheckList
         /\ Failing(<<c, d, e>>) = {} <=> ~c.fails /\ ~d.fails /\ ~e.fails
BY DEF CheckList, Failing

LEMMA FourOfThem ==
  ASSUME NEW c \in ACheck, NEW d \in ACheck, NEW e \in ACheck, NEW f \in ACheck
  PROVE  /\ <<c, d, e, f>> \in CheckList
         /\ Failing(<<c, d, e, f>>) = {} <=> ~c.fails /\ ~d.fails /\ ~e.fails /\ ~f.fails
BY DEF CheckList, Failing

LEMMA SixOfThem ==
  ASSUME NEW c \in ACheck, NEW d \in ACheck, NEW e \in ACheck, NEW f \in ACheck,
         NEW g \in ACheck, NEW k \in ACheck
  PROVE  /\ <<c, d, e, f, g, k>> \in CheckList
         /\ Failing(<<c, d, e, f, g, k>>) = {} <=>
              ~c.fails /\ ~d.fails /\ ~e.fails /\ ~f.fails /\ ~g.fails /\ ~k.fails
BY DEF CheckList, Failing

-----------------------------------------------------------------------------
(* What it means that a call is accepted.                                  *)
LEMMA CodecAccepted ==
  ASSUME NEW h \in Handles, NEW c
  PROVE  /\ CodecCode(h, c) = "accepted" <=> Open(h) /\ c # Native /\ c \in Registered
         /\ CodecCode(h, c) # "OK"
<1> DEFINE a == Check(~Open(h), "LOCKED")
           b == Check(c = Native, "UNSUPPORTED")
           d == Check(c \notin Registered, "CODEC_UNKNOWN")
<1>1. /\ a \in ACheck /\ a.fails = ~Open(h)
      /\ b \in ACheck /\ b.fails = (c = Native)
      /\ d \in ACheck /\ d.fails = (c \notin Registered)
  BY DEF Check, ACheck, Codes, Open
<1>2. CodecCode(h, c) = FirstFailing(<<a, b, d>>)
  BY DEF CodecCode
<1> HIDE DEF a, b, d
<1> QED
  BY <1>1, <1>2, ThreeOfThem, Accepted

LEMMA AfterCodecChecks ==
  ASSUME NEW h \in Handles, NEW verdict
  PROVE  /\ AfterCodec(h, verdict) \in CheckList
         /\ Failing(AfterCodec(h, verdict)) = {} <=> verdict # "bad" /\ Open(h)
<1> DEFINE a == Check(verdict = "bad", "CODEC")
           b == Check(~Open(h), "LOCKED")
<1>1. /\ a \in ACheck /\ a.fails = (verdict = "bad")
      /\ b \in ACheck /\ b.fails = ~Open(h)
  BY DEF Check, ACheck, Codes, Open
<1>2. AfterCodec(h, verdict) = <<a, b>>
  BY DEF AfterCodec
<1> HIDE DEF a, b
<1> QED
  BY <1>1, <1>2, Pairwise

LEMMA SealAccepted ==
  ASSUME NEW h \in Handles, NEW verdict
  PROVE  /\ SealCode(h, verdict) = "accepted" <=> verdict # "bad" /\ Open(h)
         /\ SealCode(h, verdict) # "OK"
<1> DEFINE b == Check(~Open(h), "LOCKED")
<1>1. b \in ACheck /\ b.fails = ~Open(h)
  BY DEF Check, ACheck, Codes, Open
<1>2. SealCode(h, verdict) = FirstFailing(AfterCodec(h, verdict) \o <<b>>)
  BY DEF SealCode
<1> HIDE DEF b
<1> DEFINE s == AfterCodec(h, verdict)
<1>3. s \in CheckList /\ (Failing(s) = {} <=> verdict # "bad" /\ Open(h))
  BY AfterCodecChecks
<1>4. <<b>> \in CheckList /\ (Failing(<<b>>) = {} <=> ~b.fails)
  BY <1>1, Singly
<1> HIDE DEF s
<1>5. /\ SealCode(h, verdict) = "accepted" <=> Failing(s) = {} /\ Failing(<<b>>) = {}
      /\ SealCode(h, verdict) # "OK"
  BY <1>2, <1>3, <1>4, OneAfterTheOther, Accepted DEF s
<1> QED
  BY <1>1, <1>3, <1>4, <1>5

(* The wire is of this vault, of an epoch it lists, and authentic.         *)
Decrypts(h, w) ==
  /\ Open(h) /\ w.header.vault = VaultOf[root[h]] /\ w.header.epoch \in EpochsOf[root[h]]
  /\ w = Wire(w.box)

LEMMA DecryptingChecks ==
  ASSUME NEW h \in Handles, NEW w
  PROVE  /\ Decrypting(h, w) \in CheckList
         /\ Failing(Decrypting(h, w)) = {} <=> Decrypts(h, w)
<1> DEFINE a == Check(~Open(h), "LOCKED")
           b == Check(Open(h) /\ w.header.vault # VaultOf[root[h]], "ROOT")
           c == Check(Open(h) /\ w.header.epoch \notin EpochsOf[root[h]], "EPOCH")
           d == Check(w # Wire(w.box), "AUTH")
<1>1. /\ a \in ACheck /\ a.fails = ~Open(h)
      /\ b \in ACheck /\ b.fails = (Open(h) /\ w.header.vault # VaultOf[root[h]])
      /\ c \in ACheck /\ c.fails = (Open(h) /\ w.header.epoch \notin EpochsOf[root[h]])
      /\ d \in ACheck /\ d.fails = (w # Wire(w.box))
  BY DEF Check, ACheck, Codes, Open
<1>2. Decrypting(h, w) = <<a, b, c, d>>
  BY DEF Decrypting
<1> HIDE DEF a, b, c, d
<1>3. /\ Decrypting(h, w) \in CheckList
      /\ Failing(Decrypting(h, w)) = {} <=> ~a.fails /\ ~b.fails /\ ~c.fails /\ ~d.fails
  BY <1>1, <1>2, FourOfThem
<1>4. ~a.fails /\ ~b.fails /\ ~c.fails /\ ~d.fails <=> Decrypts(h, w)
  BY <1>1 DEF Decrypts
<1> QED
  BY <1>3, <1>4

LEMMA OpenSnapshotAccepted ==
  ASSUME NEW h \in Handles, NEW w, NEW expected
  PROVE  /\ OpenSnapshotCode(h, w, expected) = "accepted" <=>
              w.header.kind = "snapshot" /\ Decrypts(h, w) /\ ExpectedBinding(w, expected)
         /\ OpenSnapshotCode(h, w, expected) # "OK"
<1> DEFINE a == Check(w.header.kind # "snapshot", "UNSUPPORTED")
           b == Check(~ExpectedBinding(w, expected), "BINDING")
<1>1. /\ a \in ACheck /\ a.fails = (w.header.kind # "snapshot")
      /\ b \in ACheck /\ b.fails = ~ExpectedBinding(w, expected)
  BY DEF Check, ACheck, Codes, ExpectedBinding
<1>2. OpenSnapshotCode(h, w, expected) = FirstFailing(<<a>> \o Decrypting(h, w) \o <<b>>)
  BY DEF OpenSnapshotCode
<1> HIDE DEF a, b
<1>3. /\ <<a>> \o Decrypting(h, w) \in CheckList
      /\ Failing(<<a>> \o Decrypting(h, w)) = {} <=> ~a.fails /\ Decrypts(h, w)
  BY <1>1, Singly, DecryptingChecks, OneAfterTheOther
<1> QED
  BY <1>1, <1>2, <1>3, Singly, OneAfterTheOther, Accepted

LEMMA OpenCatalogAccepted ==
  ASSUME NEW h \in Handles, NEW w
  PROVE  OpenCatalogCode(h, w) = "accepted" <=>
           /\ Decrypts(h, w) /\ w.header.kind = "catalog"
           /\ w.header.slot = CatalogSlot[VaultOf[root[h]]] /\ Payload(w).role = "catalog"
<1> DEFINE a == Check(~Open(h), "LOCKED")
           b == Check(w.header.kind # "catalog", "UNSUPPORTED")
           c == Check(Open(h) /\ w.header.slot # CatalogSlot[VaultOf[root[h]]], "BINDING")
           d == Check(Payload(w).role # "catalog", "SCHEMA")
<1>1. /\ a \in ACheck /\ a.fails = ~Open(h)
      /\ b \in ACheck /\ b.fails = (w.header.kind # "catalog")
      /\ c \in ACheck /\ c.fails = (Open(h) /\ w.header.slot # CatalogSlot[VaultOf[root[h]]])
      /\ d \in ACheck /\ d.fails = (Payload(w).role # "catalog")
  BY DEF Check, ACheck, Codes, Open
<1>2. OpenCatalogCode(h, w) = FirstFailing(<<a, b, c>> \o Decrypting(h, w) \o <<d>>)
  BY DEF OpenCatalogCode
<1> HIDE DEF a, b, c, d
<1>3. /\ <<a, b, c>> \o Decrypting(h, w) \in CheckList
      /\ Failing(<<a, b, c>> \o Decrypting(h, w)) = {} <=>
           ~a.fails /\ ~b.fails /\ ~c.fails /\ Decrypts(h, w)
  BY <1>1, ThreeOfThem, DecryptingChecks, OneAfterTheOther
<1>4. OpenCatalogCode(h, w) = "accepted" <=>
        ~a.fails /\ ~b.fails /\ ~c.fails /\ Decrypts(h, w) /\ ~d.fails
  BY <1>1, <1>2, <1>3, Singly, OneAfterTheOther, Accepted
<1> QED
  BY <1>1, <1>4 DEF Decrypts

LEMMA OpenNodeAccepted ==
  ASSUME NEW h \in Handles, NEW w, NEW expected
  PROVE  OpenNodeCode(h, w, expected) = "accepted" <=>
           /\ CopyExpected(expected) /\ SelectedWire(w, expected) /\ w.header.kind = "catalog"
           /\ Decrypts(h, w) /\ NodeBound(h, w, expected)
           /\ Payload(w).role = expected.role /\ NodeMatches(w, expected)
<1> DEFINE a == Check(~Open(h), "LOCKED")
           b == Check(~CopyExpected(expected), "SCHEMA")
           c == Check(~SelectedWire(w, expected), "BINDING")
           d == Check(w.header.kind # "catalog", "UNSUPPORTED")
           e == Check(Open(h) /\ w.header.vault # VaultOf[root[h]], "ROOT")
           f == Check(Open(h) /\ ~NodeBound(h, w, expected), "BINDING")
           g == Check(Payload(w).role # expected.role, "ROLE")
           k == Check(~NodeMatches(w, expected), "REFERENCE")
<1>1. /\ CopyExpected(expected) \in BOOLEAN /\ SelectedWire(w, expected) \in BOOLEAN
      /\ NodeBound(h, w, expected) \in BOOLEAN /\ NodeMatches(w, expected) \in BOOLEAN
  BY Zenon DEF CopyExpected, SelectedWire, NodeBound, NodeMatches
<1>2. /\ a \in ACheck /\ a.fails = ~Open(h)
      /\ b \in ACheck /\ b.fails = ~CopyExpected(expected)
      /\ c \in ACheck /\ c.fails = ~SelectedWire(w, expected)
      /\ d \in ACheck /\ d.fails = (w.header.kind # "catalog")
  BY <1>1 DEF Check, ACheck, Codes, Open
<1>3. /\ e \in ACheck /\ e.fails = (Open(h) /\ w.header.vault # VaultOf[root[h]])
      /\ f \in ACheck /\ f.fails = (Open(h) /\ ~NodeBound(h, w, expected))
      /\ g \in ACheck /\ g.fails = (Payload(w).role # expected.role)
      /\ k \in ACheck /\ k.fails = ~NodeMatches(w, expected)
  BY <1>1 DEF Check, ACheck, Codes, Open
<1>4. OpenNodeCode(h, w, expected) =
        FirstFailing(<<a, b, c, d, e, f>> \o Decrypting(h, w) \o <<g, k>>)
  BY DEF OpenNodeCode
<1> HIDE DEF a, b, c, d, e, f, g, k
<1> DEFINE s == <<a, b, c, d, e, f>>
           t == Decrypting(h, w)
           u == <<g, k>>
<1>5. /\ s \in CheckList
      /\ Failing(s) = {} <=> ~a.fails /\ ~b.fails /\ ~c.fails /\ ~d.fails /\ ~e.fails /\ ~f.fails
  <2>1. a \in ACheck /\ b \in ACheck /\ c \in ACheck /\ d \in ACheck /\ e \in ACheck /\ f \in ACheck
    BY <1>2, <1>3
  <2> QED
    BY <2>1, SixOfThem
<1>6. t \in CheckList /\ (Failing(t) = {} <=> Decrypts(h, w))
  BY DecryptingChecks
<1>7. u \in CheckList /\ (Failing(u) = {} <=> ~g.fails /\ ~k.fails)
  BY <1>3, Pairwise
<1>8. OpenNodeCode(h, w, expected) = FirstFailing((s \o t) \o u)
  BY <1>4
<1> HIDE DEF s, t, u
<1>9. s \o t \in CheckList /\ (Failing(s \o t) = {} <=> Failing(s) = {} /\ Failing(t) = {})
  BY <1>5, <1>6, OneAfterTheOther
<1>10. OpenNodeCode(h, w, expected) = "accepted" <=>
         Failing(s) = {} /\ Failing(t) = {} /\ Failing(u) = {}
  BY <1>7, <1>8, <1>9, OneAfterTheOther, Accepted
<1>11. OpenNodeCode(h, w, expected) = "accepted" <=>
         /\ Open(h) /\ CopyExpected(expected) /\ SelectedWire(w, expected)
         /\ w.header.kind = "catalog" /\ ~(Open(h) /\ w.header.vault # VaultOf[root[h]])
         /\ ~(Open(h) /\ ~NodeBound(h, w, expected)) /\ Decrypts(h, w)
         /\ Payload(w).role = expected.role /\ NodeMatches(w, expected)
  BY <1>1, <1>2, <1>3, <1>5, <1>6, <1>7, <1>10
<1> QED
  BY <1>11, Zenon DEF Decrypts

-----------------------------------------------------------------------------
(* Type correctness.                                                       *)
LEMMA TypeInit == Init => TypeOK
BY BoundsAssumption DEF Init, TypeOK

LEMMA Innermost ==
  ASSUME TypeOK, stack # <<>>
  PROVE  Top \in InProgress /\ Len(stack) \in 1..Len(stack) /\ Top = stack[Len(stack)]
BY DEF TypeOK, Top

(* A call has begun, has gone on, or has ended: all others are as before.  *)
LEMMA Appended ==
  ASSUME NEW S, NEW s \in Seq(S), NEW c \in S
  PROVE  LET t == Append(s, c)
         IN  t \in Seq(S) /\ \A i \in 1..Len(t) : t[i] = c \/ (i \in 1..Len(s) /\ t[i] = s[i])
<1> DEFINE t == Append(s, c)
<1>1. /\ t \in Seq(S) /\ Len(t) = Len(s) + 1 /\ Len(s) \in Nat
      /\ (\A i \in 1..Len(s) : t[i] = s[i]) /\ t[Len(s) + 1] = c
  BY AppendProperties
<1> HIDE DEF t
<1>2. \A i \in 1..Len(t) : i \in 1..Len(s) \/ i = Len(s) + 1
  BY <1>1
<1> QED
  BY <1>1, <1>2 DEF t

LEMMA Replaced ==
  ASSUME NEW S, NEW s \in Seq(S), s # <<>>, NEW c \in S
  PROVE  LET t == [s EXCEPT ![Len(s)] = c]
         IN  t \in Seq(S) /\ \A i \in 1..Len(t) : t[i] = c \/ (i \in 1..Len(s) /\ t[i] = s[i])
<1> DEFINE t == [s EXCEPT ![Len(s)] = c]
<1>1. Len(s) \in 1..Len(s)
  OBVIOUS
<1>2. t \in Seq(S) /\ Len(t) = Len(s) /\ \A j \in 1..Len(s) : t[j] = IF j = Len(s) THEN c ELSE s[j]
  BY <1>1, ExceptSeq
<1> HIDE DEF t
<1>3. \A i \in 1..Len(t) : t[i] = c \/ (i \in 1..Len(s) /\ t[i] = s[i])
  BY <1>2
<1> QED
  BY <1>2, <1>3 DEF t

LEMMA Dropped ==
  ASSUME NEW S, NEW s \in Seq(S), s # <<>>
  PROVE  LET t == SubSeq(s, 1, Len(s) - 1)
         IN  t \in Seq(S) /\ \A i \in 1..Len(t) : i \in 1..Len(s) /\ t[i] = s[i]
<1> DEFINE n == Len(s) - 1
<1>1. n \in Nat /\ n < Len(s) /\ \A i \in 1..n : s[i] \in S
  OBVIOUS
<1> HIDE DEF n
<1> DEFINE t == SubSeq(s, 1, n)
<1>2. t \in Seq(S) /\ Len(t) = n /\ \A j \in 1..n : t[j] = s[j]
  BY <1>1, SubSeqProperties
<1> HIDE DEF t
<1>3. \A i \in 1..Len(t) : i \in 1..Len(s) /\ t[i] = s[i]
  BY <1>1, <1>2
<1> QED
  BY <1>2, <1>3 DEF t, n

-----------------------------------------------------------------------------
(* Packages are only added: what is known of one stays true of it.         *)
PackagesGrow ==
  /\ Len(packages) \in Nat /\ Len(packages)' \in Nat /\ Len(packages) <= Len(packages)'
  /\ \A n \in 1..Len(packages) : packages'[n] = packages[n]

LEMMA WiresStay ==
  ASSUME PackagesGrow, NEW n \in 1..Len(packages)
  PROVE  n \in 1..Len(packages)' /\ Wire(n)' = Wire(n) /\ packages'[n] = packages[n]
BY DEF PackagesGrow, Wire

LEMMA PackagesStay ==
  ASSUME TypeOK, UNCHANGED packages
  PROVE  PackagesGrow
BY DEF TypeOK, PackagesGrow

LEMMA SealAdds ==
  ASSUME TypeOK, PackagesFit, NEW h \in Handles, Open(h), NEW payload \in Payloads,
         NEW slot \in Slots \cup {ShardSlot(Len(packages) + 1)}, NEW kind \in {"snapshot", "catalog"},
         Seal(h, payload, slot, kind),
         kind = "snapshot" <=> payload \in Snapshots,
         payload.role \in {"catalog", "root"} => slot = CatalogSlot[VaultOf[root[h]]],
         payload.role = "root" => ActiveOf[root[h]] \in payload.requiredEpochs
  PROVE  /\ PackagesGrow /\ PackagesFit'
         /\ packages' \in Seq(Package) /\ Len(packages') <= MaxPackages
         /\ Len(packages') > 0 /\ packages'[Len(packages')].payload = payload
         /\ packages'[Len(packages')].header.slot = slot
<1> DEFINE n == Len(packages) + 1
           p == [header |-> [vault |-> VaultOf[root[h]], epoch |-> ActiveOf[root[h]], slot |-> slot,
                             gen |-> n, kind |-> kind],
                 payload |-> payload]
<1>1. packages' = Append(packages, p) /\ Len(packages) < MaxPackages
  BY DEF Seal
<1>2. root[h] \in Roots /\ Len(packages) \in Nat /\ packages \in Seq(Package)
  BY DEF TypeOK, Open
<1>3. VaultOf[root[h]] \in Vaults /\ ActiveOf[root[h]] \in Epochs
  BY <1>2, RootsAssumption DEF Vaults, Epochs
<1>4. n \in 1..MaxPackages
  BY <1>1, <1>2, BoundsAssumption
<1>5. p \in Package
  BY <1>3, <1>4 DEF Header, Package
<1>6. /\ p.payload = payload /\ p.header.slot = slot /\ p.header.kind = kind
      /\ p.header.vault = VaultOf[root[h]] /\ p.header.epoch = ActiveOf[root[h]]
  OBVIOUS
<1> HIDE DEF p
<1>7. /\ packages' \in Seq(Package) /\ Len(packages') = n
      /\ packages'[n] = p /\ \A m \in 1..Len(packages) : packages'[m] = packages[m]
  BY <1>1, <1>2, <1>5, AppendProperties
<1>8. PackagesGrow
  BY <1>2, <1>7 DEF PackagesGrow
<1>9. \A m \in 1..Len(packages') : m = n \/ m \in 1..Len(packages)
  BY <1>2, <1>7
<1>10. PackagesFit'
  BY <1>6, <1>7, <1>9 DEF PackagesFit
<1> QED
  BY <1>1, <1>2, <1>6, <1>7, <1>8, <1>10, BoundsAssumption

-----------------------------------------------------------------------------
(* What is known of one call in progress.                                  *)
Fits(call) ==
  call.op = "openSnapshot" =>
    /\ call.wire.box \in 1..Len(packages)
    /\ call.stage = "validating" =>
         /\ Open(call.h) => call.wire.header.vault = VaultOf[root[call.h]]
         /\ call.wire = Wire(call.wire.box) /\ call.wire.header.kind = "snapshot"
         /\ call.wire.header.slot = call.expected.slot
         /\ Payload(call.wire) = call.expected.about /\ Payload(call.wire).codec \in Registered

LEMMA CallsFit ==
  /\ CallsKnowTheirPackage /\ CodecsSeeExpected => \A i \in 1..Len(stack) : Fits(stack[i])
  /\ (\A i \in 1..Len(stack) : Fits(stack[i]))' => CallsKnowTheirPackage' /\ CodecsSeeExpected'
BY Zenon DEF CallsKnowTheirPackage, CodecsSeeExpected, Fits

LEMMA FitStays ==
  ASSUME NEW call, Fits(call), PackagesGrow, root'[call.h] \in {root[call.h], Locked}
  PROVE  Fits(call)'
<1> SUFFICES ASSUME call.op = "openSnapshot" PROVE Fits(call)'
  BY DEF Fits
<1>1. call.wire.box \in 1..Len(packages)
  BY DEF Fits
<1>2. /\ call.wire.box \in 1..Len(packages)' /\ Wire(call.wire.box)' = Wire(call.wire.box)
      /\ packages'[call.wire.box] = packages[call.wire.box]
  BY <1>1, WiresStay
<1>3. Open(call.h)' => Open(call.h) /\ root'[call.h] = root[call.h]
  BY DEF Open
<1> QED
  BY <1>2, <1>3 DEF Fits, Payload

LEMMA CallsStay ==
  ASSUME CallsKnowTheirPackage, CodecsSeeExpected, PackagesGrow, NEW c, Fits(c)',
         \A i \in 1..Len(stack') : stack'[i] = c \/ (i \in 1..Len(stack) /\ stack'[i] = stack[i]),
         \A i \in 1..Len(stack) : root'[stack[i].h] \in {root[stack[i].h], Locked}
  PROVE  CallsKnowTheirPackage' /\ CodecsSeeExpected'
<1>1. ASSUME NEW i \in 1..Len(stack') PROVE \E call : call = stack'[i] /\ Fits(call)'
  <2>1. CASE stack'[i] = c
    BY <2>1
  <2>2. CASE i \in 1..Len(stack) /\ stack'[i] = stack[i]
    <3>1. PICK call : call = stack[i]
      OBVIOUS
    <3>2. Fits(call) /\ root'[call.h] \in {root[call.h], Locked}
      BY <2>2, <3>1, CallsFit
    <3>3. Fits(call)'
      BY <3>2, FitStays
    <3> QED
      BY <2>2, <3>1, <3>3
  <2> QED
    BY <2>1, <2>2
<1>2. (\A i \in 1..Len(stack) : Fits(stack[i]))'
  BY <1>1
<1> QED
  BY <1>2, CallsFit

LEMMA CallsKept ==
  ASSUME CallsKnowTheirPackage, CodecsSeeExpected, PackagesGrow,
         \A i \in 1..Len(stack') : i \in 1..Len(stack) /\ stack'[i] = stack[i],
         \A i \in 1..Len(stack) : root'[stack[i].h] \in {root[stack[i].h], Locked}
  PROVE  CallsKnowTheirPackage' /\ CodecsSeeExpected'
<1>1. PICK c : c = [op |-> "none"]
  OBVIOUS
<1>2. Fits(c)'
  BY <1>1 DEF Fits
<1> QED
  BY <1>2, CallsStay

(* A step that returns nothing.                                            *)
LEMMA NothingReturned ==
  ASSUME last'.code # "OK"
  PROVE  LastIsOfPackage' /\ NothingAfterLock' /\ SealedAsShown' /\ OpenedAsExpected'
BY DEF LastIsOfPackage, NothingAfterLock, SealedAsShown, OpenedAsExpected

-----------------------------------------------------------------------------
(* The steps, one action at a time.                                        *)
LEMMA UnlockStep ==
  ASSUME IInv, NEW h \in Handles, NEW r \in Roots, Unlock(h, r)
  PROVE  IInv'
<1> USE DEF IInv
<1>1. UNCHANGED <<stack, packages>> /\ last'.code # "OK"
  BY DEF Unlock, Nothing
<1>2. TypeOK'
  BY <1>1 DEF TypeOK, Unlock
<1>3. \A i \in 1..Len(stack) : stack[i].h # h
  BY DEF Unlock
<1>4. \A i \in 1..Len(stack) : root'[stack[i].h] = root[stack[i].h]
  BY <1>3 DEF Unlock, TypeOK
<1>5. CallsKnowTheirPackage' /\ CodecsSeeExpected'
  BY <1>1, <1>4, PackagesStay, CallsKept
<1>6. PackagesFit'
  BY <1>1 DEF PackagesFit
<1> QED
  BY <1>1, <1>2, <1>5, <1>6, NothingReturned

LEMMA StackMoves ==
  ASSUME TypeOK
  PROVE  /\ \A c \in InProgress :
              stack' = Append(stack, c) \/ (stack # <<>> /\ Becomes(c)) =>
                /\ stack' \in Seq(InProgress)
                /\ \A i \in 1..Len(stack') :
                     stack'[i] = c \/ (i \in 1..Len(stack) /\ stack'[i] = stack[i])
         /\ UNCHANGED stack \/ (stack # <<>> /\ Ends) =>
                /\ stack' \in Seq(InProgress)
                /\ \A i \in 1..Len(stack') : i \in 1..Len(stack) /\ stack'[i] = stack[i]
<1>1. stack \in Seq(InProgress)
  BY DEF TypeOK
<1>2. ASSUME NEW c \in InProgress, stack' = Append(stack, c)
      PROVE  /\ stack' \in Seq(InProgress)
             /\ \A i \in 1..Len(stack') :
                  stack'[i] = c \/ (i \in 1..Len(stack) /\ stack'[i] = stack[i])
  BY <1>1, <1>2, Appended
<1>3. ASSUME NEW c \in InProgress, stack # <<>>, Becomes(c)
      PROVE  /\ stack' \in Seq(InProgress)
             /\ \A i \in 1..Len(stack') :
                  stack'[i] = c \/ (i \in 1..Len(stack) /\ stack'[i] = stack[i])
  BY <1>1, <1>3, Replaced DEF Becomes
<1>4. ASSUME stack # <<>>, Ends
      PROVE  /\ stack' \in Seq(InProgress)
             /\ \A i \in 1..Len(stack') : i \in 1..Len(stack) /\ stack'[i] = stack[i]
  BY <1>1, <1>4, Dropped DEF Ends
<1>5. ASSUME UNCHANGED stack
      PROVE  /\ stack' \in Seq(InProgress)
             /\ \A i \in 1..Len(stack') : i \in 1..Len(stack) /\ stack'[i] = stack[i]
  BY <1>1, <1>5
<1> QED
  BY <1>2, <1>3, <1>4, <1>5

LEMMA LockStep ==
  ASSUME IInv, NEW h \in Handles, Lock(h)
  PROVE  IInv'
<1> USE DEF IInv
<1>1. UNCHANGED <<stack, packages>> /\ last'.code # "OK"
  BY DEF Lock, Nothing
<1>2. TypeOK'
  BY <1>1 DEF TypeOK, Lock
<1>3. \A i \in 1..Len(stack) : stack[i].h \in Handles
  BY DEF TypeOK, InProgress
<1>4. \A i \in 1..Len(stack) : root'[stack[i].h] \in {root[stack[i].h], Locked}
  BY <1>3 DEF Lock, TypeOK
<1>5. CallsKnowTheirPackage' /\ CodecsSeeExpected'
  BY <1>1, <1>4, PackagesStay, CallsKept
<1>6. PackagesFit'
  BY <1>1 DEF PackagesFit
<1> QED
  BY <1>1, <1>2, <1>5, <1>6, NothingReturned

(* A step of the innermost call, or a new one, that returns nothing.       *)
LEMMA CallStep ==
  ASSUME IInv, NEW c \in InProgress, Fits(c), UNCHANGED <<root, packages>>, last'.code # "OK",
         Begin(c.h, c) \/ (stack # <<>> /\ Becomes(c))
  PROVE  IInv'
<1> USE DEF IInv
<1>1. stack' = Append(stack, c) \/ (stack # <<>> /\ stack' = [stack EXCEPT ![Len(stack)] = c])
  BY DEF Begin, Becomes
<1>2. /\ stack' \in Seq(InProgress)
      /\ \A i \in 1..Len(stack') : stack'[i] = c \/ (i \in 1..Len(stack) /\ stack'[i] = stack[i])
  BY <1>1, StackMoves DEF Becomes
<1>3. TypeOK'
  BY <1>2 DEF TypeOK
<1>4. PackagesGrow
  BY PackagesStay
<1>5. Fits(c)'
  BY <1>4, FitStays
<1>6. CallsKnowTheirPackage' /\ CodecsSeeExpected'
  BY <1>2, <1>4, <1>5, CallsStay
<1>7. PackagesFit'
  BY DEF PackagesFit
<1> QED
  BY <1>3, <1>6, <1>7, NothingReturned

(* The innermost call throws.                                              *)
LEMMA ThrowStep ==
  ASSUME IInv, stack # <<>>, Ends, UNCHANGED <<root, packages>>, last'.code # "OK"
  PROVE  IInv'
<1> USE DEF IInv
<1>1. /\ stack' \in Seq(InProgress)
      /\ \A i \in 1..Len(stack') : i \in 1..Len(stack) /\ stack'[i] = stack[i]
  BY StackMoves
<1>2. TypeOK'
  BY <1>1 DEF TypeOK
<1>3. CallsKnowTheirPackage' /\ CodecsSeeExpected'
  BY <1>1, PackagesStay, CallsKept
<1>4. PackagesFit'
  BY DEF PackagesFit
<1> QED
  BY <1>2, <1>3, <1>4, NothingReturned

(* Something is returned, and no package is sealed.                        *)
LEMMA ReturnStep ==
  ASSUME IInv, UNCHANGED <<root, packages>>, UNCHANGED stack \/ (stack # <<>> /\ Ends),
         LastIsOfPackage', NothingAfterLock', SealedAsShown', OpenedAsExpected'
  PROVE  IInv'
<1> USE DEF IInv
<1>1. /\ stack' \in Seq(InProgress)
      /\ \A i \in 1..Len(stack') : i \in 1..Len(stack) /\ stack'[i] = stack[i]
  BY StackMoves
<1>2. TypeOK'
  BY <1>1 DEF TypeOK
<1>3. CallsKnowTheirPackage' /\ CodecsSeeExpected'
  BY <1>1, PackagesStay, CallsKept
<1>4. PackagesFit'
  BY DEF PackagesFit
<1> QED
  BY <1>2, <1>3, <1>4

LEMMA SealSnapshotStep ==
  ASSUME IInv, NEW h \in Handles, SealSnapshot(h)
  PROVE  IInv'
<1> DEFINE c == [op |-> "sealSnapshot", h |-> h, stage |-> "reading"]
<1>1. c \in InProgress /\ Fits(c) /\ c.h = h
  BY DEF InProgress, Fits
<1>2. Begin(h, c)
  BY DEF SealSnapshot
<1> HIDE DEF c
<1>3. UNCHANGED <<root, packages>> /\ last'.code # "OK"
  BY <1>2 DEF Begin, Nothing
<1> QED
  BY <1>1, <1>2, <1>3, CallStep

LEMMA WiresType ==
  ASSUME TypeOK, NEW w \in Wires
  PROVE  w \in AnyWire /\ w.box \in 1..Len(packages)
<1>1. PICK n \in 1..Len(packages), m \in 1..Len(packages) : w = [header |-> packages[n].header, box |-> m]
  BY DEF Wires
<1>2. packages[n] \in Package
  BY DEF TypeOK
<1>3. m \in 1..MaxPackages
  BY BoundsAssumption DEF TypeOK
<1> QED
  BY <1>1, <1>2, <1>3 DEF AnyWire, Package

LEMMA OpenSnapshotStep ==
  ASSUME IInv, NEW h \in Handles, NEW w \in Wires, OpenSnapshot(h, w)
  PROVE  IInv'
<1> DEFINE c == [op |-> "openSnapshot", h |-> h, stage |-> "reading", wire |-> w]
<1>1. c \in InProgress /\ Fits(c) /\ c.h = h
  BY WiresType DEF InProgress, Fits, IInv
<1>2. Begin(h, c)
  BY DEF OpenSnapshot
<1> HIDE DEF c
<1>3. UNCHANGED <<root, packages>> /\ last'.code # "OK"
  BY <1>2 DEF Begin, Nothing
<1> QED
  BY <1>1, <1>2, <1>3, CallStep

LEMMA TopFits ==
  ASSUME IInv, stack # <<>>
  PROVE  Top \in InProgress /\ Fits(Top) /\ Top.h \in Handles
<1>1. Top \in InProgress /\ Fits(Top)
  BY Innermost, CallsFit DEF IInv
<1> QED
  BY <1>1 DEF InProgress

LEMMA SealParsedStep ==
  ASSUME IInv, SealParsed
  PROVE  IInv'
<1>1. PICK slot \in Slots, payload \in Snapshots :
        LET code == CodecCode(Top.h, payload.codec) IN
        IF code = "accepted"
        THEN /\ Becomes([op |-> "sealSnapshot", h |-> Top.h, stage |-> "validating",
                         slot |-> slot, payload |-> payload])
             /\ last' = Nothing /\ UNCHANGED <<root, packages>>
        ELSE Ends /\ Throws(code)
  BY DEF SealParsed
<1>2. stack # <<>>
  BY DEF SealParsed, Running
<1>3. Top.h \in Handles
  BY <1>2, TopFits
<1>4. CASE CodecCode(Top.h, payload.codec) = "accepted"
  <2>1. PICK c : c = [op |-> "sealSnapshot", h |-> Top.h, stage |-> "validating",
                      slot |-> slot, payload |-> payload]
    OBVIOUS
  <2>2. c \in InProgress /\ Fits(c)
    BY <1>3, <2>1 DEF InProgress, Fits
  <2>3. Becomes(c) /\ last'.code # "OK" /\ UNCHANGED <<root, packages>>
    BY <1>1, <1>4, <2>1 DEF Nothing
  <2> QED
    BY <1>2, <2>2, <2>3, CallStep
<1>5. CASE CodecCode(Top.h, payload.codec) # "accepted"
  <2>1. Ends /\ Throws(CodecCode(Top.h, payload.codec))
    BY <1>1, <1>5
  <2> QED
    BY <1>2, <1>3, <2>1, CodecAccepted, ThrowStep DEF Throws
<1> QED
  BY <1>4, <1>5

(* A seal adds the package and returns what it was shown.                  *)
LEMMA SealStep ==
  ASSUME IInv, NEW h \in Handles, Open(h), NEW payload \in Payloads,
         NEW slot \in Slots \cup {ShardSlot(Len(packages) + 1)}, NEW kind \in {"snapshot", "catalog"},
         Seal(h, payload, slot, kind),
         kind = "snapshot" <=> payload \in Snapshots,
         payload.role \in {"catalog", "root"} => slot = CatalogSlot[VaultOf[root[h]]],
         payload.role = "root" => ActiveOf[root[h]] \in payload.requiredEpochs,
         NEW op \in {"sealSnapshot", "sealCatalog"}, Returns(op, h, [slot |-> slot, shown |-> payload]),
         UNCHANGED stack \/ (stack # <<>> /\ Ends)
  PROVE  IInv'
<1>1. /\ PackagesGrow /\ PackagesFit'
      /\ packages' \in Seq(Package) /\ Len(packages') <= MaxPackages
      /\ Len(packages') > 0 /\ packages'[Len(packages')].payload = payload
      /\ packages'[Len(packages')].header.slot = slot
  BY SealAdds DEF IInv
<1>2. UNCHANGED root
  BY DEF Seal
<1>3. /\ stack' \in Seq(InProgress)
      /\ \A i \in 1..Len(stack') : i \in 1..Len(stack) /\ stack'[i] = stack[i]
  BY StackMoves DEF IInv
<1>4. TypeOK'
  BY <1>1, <1>2, <1>3 DEF TypeOK, IInv
<1>5. CallsKnowTheirPackage' /\ CodecsSeeExpected'
  BY <1>1, <1>2, <1>3, CallsKept DEF IInv
<1>6. last' = [code |-> "OK", op |-> op, h |-> h, result |-> [slot |-> slot, shown |-> payload]]
  BY DEF Returns
<1>7. LastIsOfPackage' /\ OpenedAsExpected'
  BY <1>1, <1>6 DEF LastIsOfPackage, OpenedAsExpected
<1>8. NothingAfterLock'
  BY <1>2, <1>6 DEF NothingAfterLock, Open
<1>9. SealedAsShown'
  BY <1>1, <1>6 DEF SealedAsShown
<1> QED
  BY <1>1, <1>4, <1>5, <1>7, <1>8, <1>9 DEF IInv

LEMMA SealValidatedStep ==
  ASSUME IInv, SealValidated
  PROVE  IInv'
<1>1. stack # <<>> /\ Top.op = "sealSnapshot" /\ Top.stage = "validating" /\ Ends
  BY DEF SealValidated, Running
<1>2. PICK call : call = Top
  OBVIOUS
<1>3. call \in InProgress /\ call.h \in Handles
  BY <1>1, <1>2, TopFits
<1>4. call.slot \in Slots /\ call.payload \in Snapshots
  BY <1>1, <1>2, <1>3 DEF InProgress
<1>5. PICK verdict \in Verdicts :
        IF SealCode(call.h, verdict) = "accepted"
        THEN /\ Seal(call.h, call.payload, call.slot, "snapshot")
             /\ Returns("sealSnapshot", call.h, [slot |-> call.slot, shown |-> call.payload])
        ELSE Throws(SealCode(call.h, verdict))
  BY <1>2 DEF SealValidated
<1>6. CASE SealCode(call.h, verdict) = "accepted"
  <2>1. Open(call.h)
    BY <1>3, <1>6, SealAccepted
  <2>2. call.payload \in Payloads /\ call.payload.role = "snapshot"
    BY <1>4 DEF Payloads, Snapshots, Snapshot
  <2> QED
    BY <1>1, <1>3, <1>4, <1>5, <1>6, <2>1, <2>2, SealStep
<1>7. CASE SealCode(call.h, verdict) # "accepted"
  BY <1>1, <1>3, <1>5, <1>7, SealAccepted, ThrowStep DEF Throws
<1> QED
  BY <1>6, <1>7

LEMMA SealCatalogStep ==
  ASSUME IInv, NEW h \in Handles, NEW payload \in Payloads \ Snapshots, SealCatalog(h, payload)
  PROVE  IInv'
<1>1. root[h] \in Roots /\ Open(h)
  BY DEF SealCatalog, Open, IInv, TypeOK
<1>2. CatalogSlot[VaultOf[root[h]]] \in Slots
  BY <1>1, RootsAssumption
<1>3. PICK slot : slot = IF payload.role = "shard" THEN ShardSlot(Len(packages) + 1)
                                                   ELSE CatalogSlot[VaultOf[root[h]]]
  OBVIOUS
<1>4. /\ Seal(h, payload, slot, "catalog") /\ UNCHANGED stack
      /\ Returns("sealCatalog", h, [slot |-> slot, shown |-> payload])
      /\ payload.role = "root" => SealRootCode(h, payload) = "accepted"
  BY <1>3 DEF SealCatalog
<1>5. /\ slot \in Slots \cup {ShardSlot(Len(packages) + 1)}
      /\ payload.role \in {"catalog", "root"} => slot = CatalogSlot[VaultOf[root[h]]]
  BY <1>2, <1>3
<1>6. payload.role = "root" => ActiveOf[root[h]] \in payload.requiredEpochs
  BY <1>4 DEF SealRootCode
<1> QED
  BY <1>1, <1>4, <1>5, <1>6, SealStep

LEMMA CreateRecoveryPackStep ==
  ASSUME IInv, NEW h \in Handles, CreateRecoveryPack(h)
  PROVE  IInv'
<1>1. /\ last' = [code |-> "OK", op |-> "createRecoveryPack", h |-> h, result |-> root[h]]
      /\ Open(h) /\ UNCHANGED <<root, stack, packages>>
  BY DEF CreateRecoveryPack, Returns
<1>2. LastIsOfPackage' /\ NothingAfterLock' /\ SealedAsShown' /\ OpenedAsExpected'
  BY <1>1 DEF LastIsOfPackage, NothingAfterLock, SealedAsShown, OpenedAsExpected, Open
<1> QED
  BY <1>1, <1>2, ReturnStep

LEMMA OpenParsedStep ==
  ASSUME IInv, OpenParsed
  PROVE  IInv'
<1>1. stack # <<>> /\ Top.op = "openSnapshot" /\ Top.stage = "reading"
  BY DEF OpenParsed, Running
<1>2. PICK call : call = Top
  OBVIOUS
<1>3. call \in InProgress /\ Fits(call) /\ call.h \in Handles
  BY <1>1, <1>2, TopFits
<1>4. call.wire \in AnyWire /\ call.wire.box \in 1..Len(packages)
  BY <1>1, <1>2, <1>3 DEF InProgress, Fits
<1>5. PICK slot \in Slots, about \in Snapshots :
        LET expected == [slot |-> slot, about |-> about]
            bound == OpenSnapshotCode(call.h, call.wire, expected)
            code == IF bound # "accepted" THEN bound
                    ELSE CodecCode(call.h, Payload(call.wire).codec) IN
        IF code = "accepted"
        THEN /\ Becomes([op |-> "openSnapshot", h |-> call.h, stage |-> "validating",
                         wire |-> call.wire, expected |-> expected])
             /\ last' = Nothing /\ UNCHANGED <<root, packages>>
        ELSE Ends /\ Throws(code)
  BY <1>2, Zenon DEF OpenParsed
<1>6. PICK expected : expected = [slot |-> slot, about |-> about]
  OBVIOUS
<1>7. PICK code : code = IF OpenSnapshotCode(call.h, call.wire, expected) # "accepted"
                         THEN OpenSnapshotCode(call.h, call.wire, expected)
                         ELSE CodecCode(call.h, Payload(call.wire).codec)
  OBVIOUS
<1>8. code # "OK"
  BY <1>3, <1>7, OpenSnapshotAccepted, CodecAccepted
<1>9. CASE code = "accepted"
  <2>1. PICK c : c = [op |-> "openSnapshot", h |-> call.h, stage |-> "validating",
                      wire |-> call.wire, expected |-> expected]
    OBVIOUS
  <2>2. /\ call.wire.header.kind = "snapshot" /\ Decrypts(call.h, call.wire)
        /\ ExpectedBinding(call.wire, expected) /\ Payload(call.wire).codec \in Registered
    BY <1>3, <1>7, <1>9, OpenSnapshotAccepted, CodecAccepted
  <2>3. Fits(c)
    BY <1>4, <2>1, <2>2 DEF Fits, Decrypts, ExpectedBinding
  <2>4. c \in InProgress
    BY <1>3, <1>4, <1>6, <2>1 DEF InProgress
  <2>5. Becomes(c) /\ last'.code # "OK" /\ UNCHANGED <<root, packages>>
    BY <1>5, <1>6, <1>7, <1>9, <2>1 DEF Nothing
  <2> QED
    BY <1>1, <2>3, <2>4, <2>5, CallStep
<1>10. CASE code # "accepted"
  <2>1. Ends /\ Throws(code)
    BY <1>5, <1>6, <1>7, <1>10
  <2> QED
    BY <1>1, <1>8, <2>1, ThrowStep DEF Throws
<1> QED
  BY <1>9, <1>10

LEMMA OpenValidatedStep ==
  ASSUME IInv, OpenValidated
  PROVE  IInv'
<1>1. stack # <<>> /\ Top.op = "openSnapshot" /\ Top.stage = "validating" /\ Ends
  BY DEF OpenValidated, Running
<1>2. PICK call : call = Top
  OBVIOUS
<1>3. Fits(call) /\ call.h \in Handles
  BY <1>1, <1>2, TopFits
<1>4. PICK verdict \in Verdicts :
        LET code == FirstFailing(AfterCodec(call.h, verdict)) IN
        IF code = "accepted"
        THEN /\ Returns("openSnapshot", call.h, [wire |-> call.wire, expected |-> call.expected])
             /\ UNCHANGED <<root, packages>>
        ELSE Throws(code)
  BY <1>2, Zenon DEF OpenValidated
<1>5. PICK code : code = FirstFailing(AfterCodec(call.h, verdict))
  OBVIOUS
<1>6. code # "OK" /\ (code = "accepted" => Open(call.h))
  BY <1>3, <1>5, AfterCodecChecks, Accepted
<1>7. CASE code = "accepted"
  <2>1. PICK w : w = call.wire
    OBVIOUS
  <2>2. PICK expected : expected = call.expected
    OBVIOUS
  <2>3. /\ last' = [code |-> "OK", op |-> "openSnapshot", h |-> call.h,
                    result |-> [wire |-> w, expected |-> expected]]
        /\ UNCHANGED <<root, packages>>
    BY <1>4, <1>5, <1>7, <2>1, <2>2 DEF Returns
  <2>4. /\ w.box \in 1..Len(packages) /\ w = Wire(w.box) /\ w.header.kind = "snapshot"
        /\ w.header.vault = VaultOf[root[call.h]]
        /\ expected.slot = w.header.slot /\ expected.about = Payload(w)
    BY <1>1, <1>2, <1>3, <1>6, <1>7, <2>1, <2>2 DEF Fits
  <2>5. Payload(w) \in Snapshots
    BY <2>4 DEF IInv, PackagesFit, Payload, Wire
  <2>6. OpenedAsExpected'
    BY <2>3, <2>4, <2>5 DEF OpenedAsExpected, Payload, Wire
  <2>7. LastIsOfPackage' /\ NothingAfterLock' /\ SealedAsShown'
    BY <1>3, <1>6, <1>7, <2>3, <2>4 DEF LastIsOfPackage, NothingAfterLock, SealedAsShown, Open
  <2> QED
    BY <1>1, <2>3, <2>6, <2>7, ReturnStep
<1>8. CASE code # "accepted"
  <2>1. Throws(code)
    BY <1>4, <1>5, <1>8
  <2> QED
    BY <1>1, <1>6, <2>1, ThrowStep DEF Throws
<1> QED
  BY <1>7, <1>8

LEMMA OpenCatalogStep ==
  ASSUME IInv, NEW h \in Handles, NEW w \in Wires, OpenCatalog(h, w)
  PROVE  IInv'
<1>1. /\ last' = [code |-> "OK", op |-> "openCatalog", h |-> h, result |-> [wire |-> w]]
      /\ Open(h) /\ UNCHANGED <<root, stack, packages>> /\ OpenCatalogCode(h, w) = "accepted"
  BY DEF OpenCatalog, Returns
<1>2. Decrypts(h, w) /\ Payload(w).role = "catalog"
  BY <1>1, OpenCatalogAccepted
<1>3. w.box \in 1..Len(packages)
  BY WiresType DEF IInv
<1>4. packages[w.box] \in Package
  BY <1>3 DEF IInv, TypeOK
<1>5. Payload(w) \in Payloads
  BY <1>4 DEF Payload, Package
<1>6. Payload(w) = Catalog
  BY <1>2, <1>5 DEF Payloads, Snapshots, Snapshot, RootNode, Shard
<1>7. OpenedAsExpected'
  BY <1>1, <1>2, <1>6 DEF OpenedAsExpected, Payload, Wire, Decrypts
<1>8. LastIsOfPackage' /\ NothingAfterLock' /\ SealedAsShown'
  BY <1>1, <1>3 DEF LastIsOfPackage, NothingAfterLock, SealedAsShown, Open
<1> QED
  BY <1>1, <1>7, <1>8, ReturnStep

LEMMA OpenCatalogNodeStep ==
  ASSUME IInv, NEW h \in Handles, NEW w \in Wires, OpenCatalogNode(h, w)
  PROVE  IInv'
<1>1. PICK expected \in Expectations(w) :
        OpenNodeCode(h, w, expected) = "accepted"
        /\ Returns("openCatalogNode", h, [wire |-> w, expected |-> expected])
  BY Zenon DEF OpenCatalogNode
<1>2. /\ last' = [code |-> "OK", op |-> "openCatalogNode", h |-> h,
                  result |-> [wire |-> w, expected |-> expected]]
      /\ Open(h) /\ UNCHANGED <<root, stack, packages>>
  BY <1>1 DEF OpenCatalogNode, Returns
<1>3. /\ CopyExpected(expected) /\ SelectedWire(w, expected) /\ Decrypts(h, w)
      /\ NodeBound(h, w, expected) /\ Payload(w).role = expected.role /\ NodeMatches(w, expected)
  BY <1>1, OpenNodeAccepted
<1>4. w.box \in 1..Len(packages)
  BY WiresType DEF IInv
<1>5. expected.form \in Forms
  <2>1. \A n : Expecting(n).form \in Forms
    BY DEF Expecting, Forms
  <2>2. CASE expected \in MistakenExpectations(w)
    <3>1. CASE \E n, m \in 1..Len(packages) : expected = [Expecting(n) EXCEPT !.wire = Wire(m)]
      BY <3>1 DEF Expecting, Forms
    <3>2. CASE \E m \in 1..Len(packages) :
                 expected = [Expecting(w.box) EXCEPT !.payload = packages[m].payload]
      BY <3>2 DEF Expecting, Forms
    <3> QED
      BY <2>2, <3>1, <3>2 DEF MistakenExpectations
  <2>3. CASE expected \in MalformedExpectations(w.box)
    <3>1. CASE \E f \in Forms : expected = [Expecting(w.box) EXCEPT !.form = f]
      BY <3>1 DEF Expecting
    <3>2. CASE \E ls : expected = [Expecting(w.box) EXCEPT !.locators = ls]
      BY <3>2 DEF Expecting, Forms
    <3> QED
      BY <2>3, <3>1, <3>2, Zenon DEF MalformedExpectations
  <2> QED
    BY <2>2, <2>3 DEF Expectations
<1>6. expected.form = "data"
  BY <1>3, <1>5 DEF CopyExpected, OwnEnumerableData, InRange, Forms
<1>7. expected.role = "shard" =>
        /\ Payload(w) = expected.payload /\ w.header.slot = expected.slot
        /\ expected.locators # <<>>
  BY <1>3 DEF CopyExpected, CopyLocators, NodeBound, NodeMatches
<1>8. OpenedAsExpected'
  BY <1>2, <1>3, <1>6, <1>7 DEF OpenedAsExpected, Payload, Wire, Decrypts, SelectedWire
<1>9. LastIsOfPackage' /\ NothingAfterLock' /\ SealedAsShown'
  BY <1>2, <1>4 DEF LastIsOfPackage, NothingAfterLock, SealedAsShown, Open
<1> QED
  BY <1>2, <1>8, <1>9, ReturnStep

LEMMA ClaimTold ==
  ASSUME NEW claim \in Claims
  PROVE  /\ DOMAIN claim = {"wire", "epoch", "slot", "gen", "metadata"}
         /\ claim = [wire |-> claim.wire, epoch |-> claim.epoch, slot |-> claim.slot,
                     gen |-> claim.gen, metadata |-> claim.metadata]
<1>1. CASE \E n, m \in 1..Len(packages) : claim = [Claim(n) EXCEPT !.wire = Wire(m)]
  BY <1>1 DEF Claim
<1>2. CASE \E n \in 1..Len(packages), s \in Slots : claim = [Claim(n) EXCEPT !.slot = s]
  BY <1>2 DEF Claim
<1>3. CASE \E n, m \in 1..Len(packages) :
             claim = [Claim(n) EXCEPT !.metadata = packages[m].payload]
  BY <1>3 DEF Claim
<1> QED
  BY <1>1, <1>2, <1>3 DEF Claims

LEMMA VerifySnapshotClaimStep ==
  ASSUME IInv, VerifySnapshotClaim
  PROVE  IInv'
<1>1. PICK claim \in Claims, vault \in Vaults :
        /\ ~Mismatch(claim, vault)
        /\ Returns("verifySnapshotClaim", last.h,
                   [wire |-> last.result.wire, claim |-> claim, vault |-> vault])
  BY Zenon DEF VerifySnapshotClaim
<1>2. last.code = "OK" /\ last.op = "openSnapshot" /\ UNCHANGED <<root, stack, packages>>
  BY DEF VerifySnapshotClaim
<1>3. PICK w : w = last.result.wire
  OBVIOUS
<1>4. PICK h : h = last.h
  OBVIOUS
<1>5. last' = [code |-> "OK", op |-> "verifySnapshotClaim", h |-> h,
               result |-> [wire |-> w, claim |-> claim, vault |-> vault]]
  BY <1>1, <1>3, <1>4 DEF Returns
<1>6. /\ w.box \in 1..Len(packages) /\ w = Wire(w.box) /\ w.header.vault = VaultOf[root[h]]
      /\ h \in Handles /\ Open(h)
  BY <1>2, <1>3, <1>4 DEF IInv, LastIsOfPackage, OpenedAsExpected, NothingAfterLock
<1>7. /\ w = claim.wire /\ w.header.vault = vault /\ w.header.epoch = claim.epoch
      /\ w.header.slot = claim.slot /\ w.header.gen = claim.gen /\ Payload(w) = claim.metadata
  BY <1>1, <1>3 DEF Mismatch, Opened
<1>8. w.header = packages[w.box].header /\ Payload(w) = packages[w.box].payload
  BY <1>6 DEF Wire, Payload
<1>9. claim = Claim(w.box)
  <2>1. claim = [wire |-> claim.wire, epoch |-> claim.epoch, slot |-> claim.slot,
                 gen |-> claim.gen, metadata |-> claim.metadata]
    BY ClaimTold, Zenon
  <2>2. /\ claim.wire = Wire(w.box) /\ claim.epoch = packages[w.box].header.epoch
        /\ claim.slot = packages[w.box].header.slot /\ claim.gen = packages[w.box].header.gen
        /\ claim.metadata = packages[w.box].payload
    BY <1>6, <1>7, <1>8, Zenon
  <2> QED
    BY <2>1, <2>2, Zenon DEF Claim
<1>10. OpenedAsExpected'
  <2>1. /\ UNCHANGED <<root, packages>> /\ Wire(w.box)' = Wire(w.box) /\ Claim(w.box)' = Claim(w.box)
        /\ w.header.vault = packages[w.box].header.vault
    BY <1>2, <1>8 DEF Wire, Claim
  <2> QED
    BY <1>5, <1>6, <1>7, <1>9, <2>1 DEF OpenedAsExpected
<1>11. LastIsOfPackage' /\ NothingAfterLock' /\ SealedAsShown'
  BY <1>2, <1>5, <1>6 DEF LastIsOfPackage, NothingAfterLock, SealedAsShown, Open
<1> QED
  BY <1>2, <1>10, <1>11, ReturnStep

LEMMA StutterStep ==
  ASSUME IInv, UNCHANGED vars
  PROVE  IInv'
BY DEF vars, IInv, TypeOK, PackagesFit, CallsKnowTheirPackage, LastIsOfPackage, NothingAfterLock,
       SealedAsShown, CodecsSeeExpected, OpenedAsExpected, Open, Wire, Payload, Claim

-----------------------------------------------------------------------------
LEMMA InitIInv == Init => IInv
<1> SUFFICES ASSUME Init PROVE IInv
  OBVIOUS
<1>1. stack = <<>> /\ packages = <<>> /\ last.code # "OK"
  BY DEF Init, Nothing
<1> QED
  BY <1>1, TypeInit DEF IInv, PackagesFit, CallsKnowTheirPackage, LastIsOfPackage,
     NothingAfterLock, SealedAsShown, CodecsSeeExpected, OpenedAsExpected

LEMMA StepKeepsIInv == IInv /\ [Next]_vars => IInv'
<1> SUFFICES ASSUME IInv, [Next]_vars PROVE IInv'
  OBVIOUS
<1>1. ASSUME NEW h \in Handles, Call(h) PROVE IInv'
  <2>1. CASE \E r \in Roots : Unlock(h, r)
    BY <2>1, UnlockStep
  <2>2. CASE Lock(h)
    BY <2>2, LockStep
  <2>3. CASE SealSnapshot(h)
    BY <2>3, SealSnapshotStep
  <2>4. CASE CreateRecoveryPack(h)
    BY <2>4, CreateRecoveryPackStep
  <2>5. CASE \E payload \in Payloads \ Snapshots : SealCatalog(h, payload)
    BY <2>5, SealCatalogStep
  <2>6. CASE \E w \in Wires : OpenSnapshot(h, w)
    BY <2>6, OpenSnapshotStep
  <2>7. CASE \E w \in Wires : OpenCatalog(h, w)
    BY <2>7, OpenCatalogStep
  <2>8. CASE \E w \in Wires : OpenCatalogNode(h, w)
    BY <2>8, OpenCatalogNodeStep
  <2> QED
    BY <1>1, <2>1, <2>2, <2>3, <2>4, <2>5, <2>6, <2>7, <2>8 DEF Call
<1>2. CASE GoOn
  BY <1>2, SealParsedStep, SealValidatedStep, OpenParsedStep, OpenValidatedStep DEF GoOn
<1>3. CASE VerifySnapshotClaim
  BY <1>3, VerifySnapshotClaimStep
<1>4. CASE UNCHANGED vars
  BY <1>4, StutterStep
<1> QED
  BY <1>1, <1>2, <1>3, <1>4 DEF Next

LEMMA Inductive == Spec => []IInv
BY InitIInv, StepKeepsIInv, PTL DEF Spec

(* What has been sealed can be opened: the checks of sealing cover those   *)
(* of opening.                                                             *)
LEMMA FitPackagesOpen == IInv => SealedOpens
<1> SUFFICES ASSUME IInv, NEW h \in Handles, NEW n \in 1..Len(packages), Open(h),
                    VaultOf[root[h]] = packages[n].header.vault,
                    packages[n].header.epoch \in EpochsOf[root[h]]
             PROVE  OpenCode(h, n) = "accepted"
  BY DEF SealedOpens
<1> DEFINE w == Wire(n)
           p == packages[n]
<1>1. p.payload \in Payloads /\ p.header.kind \in {"snapshot", "catalog"}
  <2>1. p \in Package
    BY DEF IInv, TypeOK
  <2>2. p.payload \in Payloads /\ p.header \in Header
    BY <2>1 DEF Package
  <2> QED
    BY <2>2 DEF Header
<1>2. /\ w.header = p.header /\ w.box = n /\ Payload(w) = p.payload /\ w = Wire(w.box)
  BY DEF Wire, Payload
<1>3. Decrypts(h, w)
  BY <1>2 DEF Decrypts
<1>4. /\ p.header.kind = "snapshot" <=> p.payload \in Snapshots
      /\ p.payload.role \in {"catalog", "root"} => p.header.slot = CatalogSlot[p.header.vault]
      /\ p.payload.role = "root" => p.header.epoch \in p.payload.requiredEpochs
  BY DEF IInv, PackagesFit
<1>5. /\ p.payload.role \in {"snapshot", "catalog", "root", "shard"}
      /\ p.payload.role = "snapshot" <=> p.payload \in Snapshots
  BY <1>1 DEF Payloads, Snapshots, Snapshot, Catalog, RootNode, Shard
<1>6. CASE p.payload.role = "snapshot"
  <2> DEFINE expected == [slot |-> p.header.slot, about |-> p.payload]
  <2>1. ExpectedBinding(w, expected)
    BY <1>2 DEF ExpectedBinding
  <2>2. OpenSnapshotCode(h, w, expected) = "accepted"
    BY <1>2, <1>3, <1>4, <1>5, <1>6, <2>1, OpenSnapshotAccepted
  <2> QED
    BY <1>6, <2>2 DEF OpenCode
<1>7. CASE p.payload.role = "catalog"
  <2>1. OpenCatalogCode(h, w) = "accepted"
    BY <1>1, <1>2, <1>3, <1>4, <1>5, <1>7, OpenCatalogAccepted
  <2> QED
    BY <1>7, <2>1 DEF OpenCode
<1>8. CASE p.payload.role \in {"root", "shard"}
  <2> DEFINE expected == Expecting(n)
             place == CHOOSE l \in Locators : TRUE
  <2>1. /\ expected.role = p.payload.role /\ expected.form = "data" /\ expected.wire = w
        /\ expected.slot = p.header.slot /\ expected.gen = p.header.gen
        /\ expected.epoch = p.header.epoch /\ expected.payload = p.payload
        /\ expected.locators = <<place>>
    BY DEF Expecting
  <2>2. CopyLocators(<<place>>)
    BY BoundsAssumption DEF CopyLocators, IsInjective
  <2> HIDE DEF expected, place
  <2>3. CopyExpected(expected)
    BY <1>8, <2>1, <2>2 DEF CopyExpected, OwnEnumerableData, InRange
  <2>4. NodeBound(h, w, expected)
    BY <1>2, <1>4, <1>8, <2>1 DEF NodeBound
  <2>5. NodeMatches(w, expected)
    BY <1>2, <1>4, <2>1 DEF NodeMatches
  <2>6. OpenNodeCode(h, w, expected) = "accepted"
    BY <1>1, <1>2, <1>3, <1>4, <1>5, <1>8, <2>1, <2>3, <2>4, <2>5, OpenNodeAccepted DEF SelectedWire
  <2> QED
    BY <1>8, <2>6 DEF OpenCode, expected
<1> QED
  BY <1>5, <1>6, <1>7, <1>8

-----------------------------------------------------------------------------
(***************************************************************************)
(* The theorems.                                                           *)
(***************************************************************************)
(* Every handle is locked or holds a root record, and every package and    *)
(* every call in progress is of one of the shapes the code makes.          *)
THEOREM VaultTypeCorrect == Spec => []TypeOK
BY Inductive, PTL DEF IInv

(* No call of a handle returns anything once the handle is locked, however *)
(* deep in calls of the caller's code the lock came.                       *)
THEOREM NothingAfterLockHolds == Spec => []NothingAfterLock
BY Inductive, PTL DEF IInv

(* sealSnapshot seals the bytes its validator was shown, and sealCatalog   *)
(* and sealCatalogNode what they have checked, in the record named.        *)
THEOREM SealedIsWhatWasShown == Spec => []SealedAsShown
BY Inductive, PTL DEF IInv

(* openSnapshot shows a validator only what is authentic and expected.     *)
THEOREM CodecsAreShownTheExpected == Spec => []CodecsSeeExpected
BY Inductive, PTL DEF IInv

(* What the open calls return, and the claims verified of it, are true of  *)
(* a package this vault has sealed, whatever the wire and the expectation. *)
THEOREM OpenedIsExpected == Spec => []OpenedAsExpected
BY Inductive, PTL DEF IInv

(* Every handle of the vault whose root record lists the epoch opens every *)
(* package that was sealed, under whichever root record.                   *)
THEOREM WhatIsSealedOpens == Spec => []SealedOpens
BY Inductive, FitPackagesOpen, PTL
=============================================================================
