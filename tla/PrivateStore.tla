---------------------------- MODULE PrivateStore ----------------------------
(***************************************************************************)
(* What a private-state store promises its callers, without encryption: a  *)
(* value per <<contract, id>>, and calls that read or write it.  A call is *)
(* answered from what the store holds at one moment between its start and  *)
(* its end, or fails.  Besides writes, clearing and migration, what is     *)
(* held changes when a call puts back what it read: a reader, an outdated  *)
(* entry, which then is outdated no longer; a rotation, everything.        *)
(***************************************************************************)
CONSTANTS Slots, Contracts, Ids, Vals, Absent, Nothing, Unanswered, Done, Old
VARIABLES content, outdated, asked, answer, held, contract

vars == <<content, outdated, asked, answer, held, contract>>

Keys == Contracts \X Ids
Empty == [k \in Keys |-> Absent]

Requests ==
  [kind : {"get"}, key : Keys] \cup [kind : {"scan", "rotate"}]
    \cup [kind : {"set"}, id : Ids, key : Keys \cup {Nothing}, val : Vals \cup {Absent}]

Init ==
  /\ asked = [c \in Slots |-> Nothing]
  /\ answer = [c \in Slots |-> Unanswered]
  /\ held = [c \in Slots |-> Empty]

Is(c, kind) == asked[c] # Nothing /\ asked[c].kind = kind

(* A call begins; an import begins its next request once one is answered.  *)
(* A get is for the contract selected now, a set for one selected later.   *)
Begin(c) ==
  /\ asked[c] = Nothing \/ answer[c] # Unanswered
  /\ answer' = [answer EXCEPT ![c] = Unanswered]
  /\ held' = [held EXCEPT ![c] = Empty]
  /\ UNCHANGED <<content, outdated, contract>>
  /\ \E request \in Requests :
       /\ request.kind = "get" => request.key[1] = contract
       /\ request.kind = "set" => request.key = Nothing
       /\ asked' = [asked EXCEPT ![c] = request]

Resolve(c) ==
  /\ Is(c, "set") /\ asked[c].key = Nothing /\ answer[c] = Unanswered
  /\ asked' = [asked EXCEPT ![c].key = <<contract, asked[c].id>>]
  /\ UNCHANGED <<content, outdated, answer, held, contract>>

(* What a call reads it may put back, if it is outdated; or the read fails. *)
Read(c) ==
  /\ Is(c, "get") \/ Is(c, "scan")
  /\ answer[c] = Unanswered
  /\ \E ks \in SUBSET (outdated \cap (IF asked[c].kind = "get" THEN {asked[c].key} ELSE Keys)) :
       held' = [held EXCEPT ![c] = [k \in Keys |-> IF k \in ks THEN content[k] ELSE Absent]]
  /\ answer' \in
       {answer,
        [answer EXCEPT ![c] = IF asked[c].kind = "get" THEN content[asked[c].key] ELSE content]}
  /\ UNCHANGED <<content, outdated, asked, contract>>

ReadForRotation(c) ==
  /\ Is(c, "rotate")
  /\ held' = [held EXCEPT ![c] = content]
  /\ UNCHANGED <<content, outdated, asked, answer, contract>>

Write(c) ==
  /\ Is(c, "set") /\ asked[c].key # Nothing /\ answer[c] = Unanswered
  /\ content' = [content EXCEPT ![asked[c].key] = asked[c].val]
  /\ outdated' = outdated \ {asked[c].key}
  /\ answer' = [answer EXCEPT ![c] = Done]
  /\ UNCHANGED <<asked, held, contract>>

PutBack(c) ==
  /\ \E ks \in SUBSET {k \in Keys : held[c][k] # Absent} :
       /\ Is(c, "rotate") => ks = {k \in Keys : held[c][k] # Absent}
       /\ content' = [k \in Keys |-> IF k \in ks THEN held[c][k] ELSE content[k]]
       /\ outdated' = outdated \ ks
       /\ held' = [held EXCEPT ![c] = [k \in Keys |-> IF k \in ks THEN Absent ELSE @[k]]]
  /\ UNCHANGED <<asked, answer, contract>>

(* A call returns its answer, or fails, even once its write has taken place. *)
End(c) ==
  /\ asked[c] # Nothing
  /\ asked' = [asked EXCEPT ![c] = Nothing]
  /\ answer' = [answer EXCEPT ![c] = Unanswered]
  /\ held' = [held EXCEPT ![c] = Empty]
  /\ UNCHANGED <<content, outdated, contract>>

SelectContract == contract' \in Contracts /\ UNCHANGED <<content, outdated, asked, answer, held>>

Clear == content' = Empty /\ outdated' = {} /\ UNCHANGED <<asked, answer, held, contract>>

Adopt ==
  /\ content' = [k \in Keys |-> IF Old[k] = Absent THEN content[k] ELSE Old[k]]
  /\ \A k \in Keys : Old[k] = Absent => (k \in outdated' <=> k \in outdated)
  /\ UNCHANGED <<asked, answer, held, contract>>

Crash ==
  /\ asked' = [c \in Slots |-> Nothing]
  /\ answer' = [c \in Slots |-> Unanswered]
  /\ held' = [c \in Slots |-> Empty]
  /\ UNCHANGED <<content, outdated, contract>>

Next ==
  \/ \E c \in Slots :
       Resolve(c) \/ Read(c) \/ ReadForRotation(c) \/ Write(c) \/ PutBack(c) \/ End(c)
  \/ \E c \in Slots : Begin(c)
  \/ SelectContract
  \/ Clear
  \/ Adopt
  \/ Crash

Spec == Init /\ [][Next]_vars
=============================================================================
