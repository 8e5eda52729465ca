---------------------------- MODULE GoogleProofs ----------------------------
(***************************************************************************)
(* Proofs about the two protocols with Google: OAuthFlow, which makes the  *)
(* credentials, and DrivePut, which uses them.                             *)
(***************************************************************************)
EXTENDS OAuthFlow, DrivePut, TLAPS

-----------------------------------------------------------------------------
(* Proofs about OAuthFlow, for any set of callbacks.                       *)

LEMMA InitIInv == Init => IInv
BY CallbackAssumption
   DEF Init, IInv, TypeOK, OneTaker, Takers, SessionOfExchanged, WaitsWithDeadline, Requests, Errors

(* The first finish settles the flow, and later ones change nothing.       *)
LEMMA FinishSettles ==
  ASSUME NEW what \in Errors \cup Callbacks, TypeOK, SessionOfExchanged, Finish(what)
  PROVE  /\ open' \subseteq Callbacks /\ listener' \in {"opening", "open", "closing", "closed"}
         /\ {settled', aborted', pending', timer'} \subseteq BOOLEAN
         /\ settled' /\ outcome' \in {outcome, what} /\ outcome' \in Errors \cup Callbacks \cup {"none"}
         /\ result # "none" => outcome' = outcome
BY DEF Finish, Settle, flow, TypeOK, SessionOfExchanged

(* What a step of the flow leaves alone, and what of the flow stays true   *)
(* in a step that does not touch it.                                       *)
Kept == /\ UNCHANGED <<settled, outcome, result>> /\ (timer => timer')
Ended == settled' /\ (result' = result) /\ outcome' \in {outcome} \cup Errors
           /\ (result # "none" => outcome' = outcome)

(* The steps of the listener, the timer and the browser.                   *)
LEMMA SetupStep ==
  ASSUME IInv, Setup \/ Browser \/ TimerFires \/ ListenerFails
  PROVE  /\ TypeOK' /\ WaitsWithDeadline'
         /\ UNCHANGED <<request, handler, exchanging, exchanged>>
         /\ Kept \/ Ended
<1> USE DEF IInv, TypeOK, WaitsWithDeadline, SetupGoesTo, Kept, Ended
<1>1. CASE Listening
  BY <1>1 DEF Listening
<1>2. CASE ListenFails
  BY <1>2, FinishSettles DEF ListenFails, Errors
<1>3. CASE PkceDone
  BY <1>3 DEF PkceDone
<1>4. CASE PkceFails
  BY <1>4, FinishSettles DEF PkceFails, Errors
<1>5. CASE Launched
  BY <1>5 DEF Launched, flow
<1>6. CASE LaunchFails
  BY <1>6, FinishSettles DEF LaunchFails, Errors
<1>7. CASE TimerFires
  BY <1>7 DEF TimerFires, Settle, SessionOfExchanged, Errors
<1>8. CASE ListenerFails
  BY <1>8, FinishSettles DEF ListenerFails, Errors
<1> QED
  BY <1>1, <1>2, <1>3, <1>4, <1>5, <1>6, <1>7, <1>8 DEF Setup, Browser

(* Such a step takes no callback and makes no session.                     *)
LEMMA SetupKeepsIInv == IInv /\ (Setup \/ Browser \/ TimerFires \/ ListenerFails) => IInv'
<1> SUFFICES ASSUME IInv, Setup \/ Browser \/ TimerFires \/ ListenerFails PROVE IInv'
  OBVIOUS
<1>1. OneTaker'
  BY SetupStep DEF IInv, OneTaker, Takers
<1>2. SessionOfExchanged'
  BY SetupStep, CallbackAssumption DEF IInv, SessionOfExchanged, Kept, Ended
<1> QED
  BY <1>1, <1>2, SetupStep DEF IInv

LEMMA ConnectionKeepsIInv ==
  ASSUME IInv, Closed \/ \E c \in Callbacks : Connect(c) \/ Disconnect(c)
  PROVE  IInv'
BY DEF IInv, TypeOK, OneTaker, Takers, SessionOfExchanged, WaitsWithDeadline,
       Closed, Connect, Disconnect, OnlyOpen

-----------------------------------------------------------------------------
(* Callbacks.                                                              *)
LEMMA HandleKeepsIInv ==
  ASSUME IInv, NEW c \in Callbacks, Handle(c)
  PROVE  IInv'
<1> USE DEF IInv, TypeOK, WaitsWithDeadline, HandlerGoesTo
<1>1. CASE Refuse(c) \/ AcceptDenial(c)
  BY <1>1 DEF Refuse, AcceptDenial, flow, OneTaker, Takers, SessionOfExchanged
<1>2. CASE AcceptCode(c)
  <2>1. Takers = {}
    BY <1>2 DEF AcceptCode, ForThisAttempt, OneTaker
  <2>2. Takers' = {c}
    BY <1>2, <2>1 DEF AcceptCode, Takers
  <2>3. SessionOfExchanged' /\ TypeOK' /\ WaitsWithDeadline'
    BY <1>2 DEF AcceptCode, flow, SessionOfExchanged
  <2> QED
    BY <1>2, <2>2, <2>3 DEF AcceptCode, OneTaker
<1>3. CASE Denied(c)
  <2>1. TypeOK' /\ WaitsWithDeadline' /\ OneTaker'
    BY <1>3, FinishSettles DEF Denied, OneTaker, Takers, Errors
  <2>2. SessionOfExchanged'
    BY <1>3, FinishSettles, CallbackAssumption DEF Denied, SessionOfExchanged, Errors
  <2> QED
    BY <2>1, <2>2
<1>4. CASE Answered(c)
  BY <1>4 DEF Answered, flow, OneTaker, Takers, SessionOfExchanged
<1>5. CASE TokenUsable(c)
  BY <1>5 DEF TokenUsable, flow, OneTaker, Takers, SessionOfExchanged
<1>6. CASE TokenFails(c) \/ Aborted(c) \/ Bound(c)
  <2>1. PICK what \in {c} \cup Errors :
          /\ handler[c] \in {"exchanging", "binding"} /\ Finish(what)
          /\ HandlerGoesTo(c, "ended") /\ UNCHANGED <<exchanging, exchanged>>
    BY <1>6 DEF TokenFails, Aborted, Bound, Errors
  <2>2. TypeOK' /\ WaitsWithDeadline' /\ OneTaker'
    BY <2>1, FinishSettles DEF OneTaker, Takers
  <2>3. SessionOfExchanged'
    BY <2>1, FinishSettles, CallbackAssumption DEF SessionOfExchanged
  <2> QED
    BY <2>2, <2>3
<1> QED
  BY <1>1, <1>2, <1>3, <1>4, <1>5, <1>6 DEF Handle

LEMMA StepIInv == IInv /\ [Next]_vars => IInv'
<1> SUFFICES ASSUME IInv, [Next]_vars PROVE IInv'
  OBVIOUS
<1>1. CASE UNCHANGED vars
  BY <1>1 DEF vars, flow, IInv, TypeOK, OneTaker, Takers, SessionOfExchanged, WaitsWithDeadline
<1> QED
  BY <1>1, SetupKeepsIInv, ConnectionKeepsIInv, HandleKeepsIInv DEF Next

LEMMA Invariance == Spec => []IInv
BY InitIInv, StepIInv, PTL DEF Spec

(* The handlers, the flags and the promise keep their types.               *)
THEOREM FlowTypeCorrect == Spec => []TypeOK
<1>1. IInv => TypeOK
  BY DEF IInv
<1> QED
  BY <1>1, Invariance, PTL

(* However callbacks, timer and errors interleave, one code at most goes   *)
(* to the provider (handleCallback), and a session is of that code.        *)
THEOREM OneCodeIsExchanged == Spec => []OneExchange
<1>1. IInv => OneExchange
  BY CallbackAssumption DEF IInv, OneTaker, Takers, SessionOfExchanged, OneExchange
<1> QED
  BY <1>1, Invariance, PTL

(* There is no moment after setup in which the flow waits without a timer. *)
THEOREM WaitingHasDeadline == Spec => []WaitsWithDeadline
<1>1. IInv => WaitsWithDeadline
  BY DEF IInv
<1> QED
  BY <1>1, Invariance, PTL

-----------------------------------------------------------------------------
(* Proofs about DrivePut, for any calls and accounts.                      *)

(* An error never reads as a receipt or as an answer to another phase.     *)
LEMMA ClassifyCodes ==
  \A status \in Statuses :
         /\ Classify(status, "create") \in {"AUTH", "QUOTA", "REDIRECT", "INCOMPLETE", "CREATE"}
         /\ Classify(status, "read") \in {"AUTH", "QUOTA", "REDIRECT", "READBACK"}
BY DEF Classify, Statuses

LEMMA OnlyClientsCreate ==
  \A status \in Statuses : Classify(status, "create") = "CREATE" => status = "client"
BY DEF Classify, Statuses

LEMMA InitPutInv == PutInit => PutInv
BY DEF PutInit, PutInv, PutTypeOK, CallsAreBound, ReturnedIsLast, PostAnswered, ReadIsCurrent,
       ReceiptsAreRead, CodesTellWhatIsStored

-----------------------------------------------------------------------------
(* A call ends: its code must fit what became of its POST and its GET.     *)
LEMMA EndKeepsPutInv ==
  ASSUME PutInv, NEW c \in Puts, NEW code \in {"receipt"} \cup Codes,
         session = "bound", pc[c] # "done", End(c, code), OnlyCalls,
         code = "receipt" => body[c] = "same",
         code \in {"INPUT", "CREATE"} => file[c] = "none" /\ post[c] # "sent",
         code = "READBACK" => post[c] = "created"
  PROVE  PutInv'
<1> USE DEF PutInv, PutTypeOK, End, OnlyCalls, provider
<1>1. PutTypeOK'
  OBVIOUS
<1>2. CallsAreBound' /\ ReturnedIsLast'
  BY DEF CallsAreBound, ReturnedIsLast, Codes
<1>3. PostAnswered' /\ ReadIsCurrent'
  BY DEF PostAnswered, ReadIsCurrent
<1>4. ReceiptsAreRead' /\ CodesTellWhatIsStored'
  BY DEF ReceiptsAreRead, CodesTellWhatIsStored
<1> QED
  BY <1>1, <1>2, <1>3, <1>4

LEMMA CallKeepsPutInv ==
  ASSUME PutInv, NEW c \in Puts, PutRefused(c) \/ PutPosts(c) \/ Create(c) \/ Read(c)
  PROVE  PutInv'
<1> USE DEF PutInv, PutTypeOK
<1>1. CASE PutRefused(c)
  BY <1>1, EndKeepsPutInv DEF PutRefused, PostAnswered, Codes
<1>2. CASE PutPosts(c)
  <2>1. PutTypeOK' /\ CallsAreBound' /\ ReturnedIsLast'
    BY <1>2 DEF PutPosts, CallsAreBound, ReturnedIsLast
  <2>2. ReadIsCurrent' /\ ReceiptsAreRead'
    BY <1>2 DEF PutPosts, ReadIsCurrent, ReceiptsAreRead
  <2>5. PostAnswered'
    BY <1>2 DEF PutPosts, PostAnswered
  <2>3. returned[c] = "none"
    BY <1>2 DEF PutPosts, ReturnedIsLast
  <2>4. CodesTellWhatIsStored'
    BY <1>2, <2>3 DEF PutPosts, CodesTellWhatIsStored
  <2> QED
    BY <2>1, <2>2, <2>4, <2>5
<1>3. CASE CreateAnswered(c) /\ post[c] \in Statuses
  <2> DEFINE code == Classify(post[c], "create")
  <2>1. End(c, code) /\ OnlyCalls /\ pc[c] = "creating"
    BY <1>3 DEF CreateAnswered, Statuses
  <2>2. code \in {"AUTH", "QUOTA", "REDIRECT", "INCOMPLETE", "CREATE"}
    BY <1>3, ClassifyCodes
  <2>4. code = "CREATE" => post[c] = "client"
    BY <1>3, OnlyClientsCreate
  <2> HIDE DEF code
  <2>3. session = "bound" /\ (code = "CREATE" => file[c] = "none" /\ post[c] # "sent")
    BY <2>1, <2>4 DEF CallsAreBound, PostAnswered
  <2> QED
    BY <2>1, <2>2, <2>3, EndKeepsPutInv DEF Codes
<1>4. CASE CreateAnswered(c) /\ post[c] = "created"
  <2>1. PutTypeOK' /\ CallsAreBound' /\ ReturnedIsLast'
    BY <1>4 DEF CreateAnswered, Statuses, End, OnlyCalls, provider, CallsAreBound, ReturnedIsLast
  <2>2. UNCHANGED <<returned, provider>> /\ pc' = [pc EXCEPT ![c] = "reading"]
    BY <1>4 DEF CreateAnswered, Statuses, OnlyCalls
  <2>3. PostAnswered' /\ ReadIsCurrent'
    BY <1>4, <2>2 DEF provider, PostAnswered, ReadIsCurrent
  <2>4. ReceiptsAreRead' /\ CodesTellWhatIsStored'
    BY <2>2 DEF provider, ReceiptsAreRead, CodesTellWhatIsStored
  <2> QED
    BY <2>1, <2>3, <2>4
<1>5. CASE CreateFails(c) \/ (CreateAnswered(c) /\ post[c] = "created short")
  BY <1>5, EndKeepsPutInv DEF CreateFails, CreateAnswered, Statuses, CallsAreBound, Codes
<1>6. CASE ReadAnswered(c) /\ body[c] \in Statuses
  <2> DEFINE code == Classify(body[c], "read")
  <2>1. End(c, code) /\ OnlyCalls /\ pc[c] = "reading"
    BY <1>6 DEF ReadAnswered
  <2>2. code \in {"AUTH", "QUOTA", "REDIRECT", "READBACK"}
    BY <1>6, ClassifyCodes
  <2> HIDE DEF code
  <2>3. session = "bound" /\ post[c] = "created"
    BY <2>1 DEF CallsAreBound, PostAnswered
  <2> QED
    BY <2>1, <2>2, <2>3, EndKeepsPutInv DEF Codes
<1>7. CASE ReadFails(c) \/ (ReadAnswered(c) /\ body[c] \notin Statuses)
  BY <1>7, EndKeepsPutInv DEF ReadFails, ReadAnswered, CallsAreBound, PostAnswered, Codes
<1> QED
  BY <1>1, <1>2, <1>3, <1>4, <1>5, <1>6, <1>7 DEF Create, Read, CreateAnswered

-----------------------------------------------------------------------------
(* What the provider and others do.                                        *)
LEMMA ProviderKeepsPutInv ==
  ASSUME PutInv, NEW c \in Puts, Provider(c)
  PROVE  PutInv'
<1> USE DEF PutInv, PutTypeOK, OnlyProvider
<1>1. CASE Store(c)
  <2>1. PICK b \in Bytes, a \in {"created", "created short", "server"} :
          /\ post[c] = "sent" /\ UNCHANGED <<body, changed>>
          /\ file' = [file EXCEPT ![c] = b] /\ post' = [post EXCEPT ![c] = a]
    BY <1>1 DEF Store
  <2>2. UNCHANGED <<account, wanted, session, pc, returned>>
    BY <1>1 DEF Store
  <2>3. PutTypeOK'
    BY <2>1, <2>2 DEF Statuses
  <2>7. CallsAreBound' /\ ReturnedIsLast' /\ ReceiptsAreRead'
    BY <2>1, <2>2 DEF CallsAreBound, ReturnedIsLast, ReceiptsAreRead
  <2>4. pc[c] \notin {"idle", "reading"} /\ body[c] = "none"
    BY <2>1 DEF PostAnswered
  <2>5. PostAnswered' /\ ReadIsCurrent'
    BY <2>1, <2>2, <2>4 DEF PostAnswered, ReadIsCurrent
  <2>6. CodesTellWhatIsStored'
    BY <2>1, <2>2 DEF CodesTellWhatIsStored
  <2> QED
    BY <2>3, <2>5, <2>6, <2>7
<1>2. CASE RefusePost(c)
  <2>1. PutTypeOK'
    BY <1>2 DEF RefusePost
  <2>2. CallsAreBound' /\ ReturnedIsLast' /\ ReceiptsAreRead' /\ ReadIsCurrent'
    BY <1>2 DEF RefusePost, CallsAreBound, ReturnedIsLast, ReceiptsAreRead, ReadIsCurrent
  <2>3. PICK s \in Statuses : post' = [post EXCEPT ![c] = s]
    BY <1>2 DEF RefusePost
  <2>4. UNCHANGED <<pc, returned, body, file>> /\ post[c] = "sent" /\ s # "sent" /\ s # "created"
    BY <1>2, <2>3 DEF RefusePost, Statuses
  <2>5. PostAnswered'
    BY <2>3, <2>4 DEF PostAnswered
  <2>6. CodesTellWhatIsStored'
    BY <2>3, <2>4 DEF CodesTellWhatIsStored
  <2> QED
    BY <2>1, <2>2, <2>5, <2>6
<1>3. CASE Serve(c)
  <2>1. PutTypeOK'
    BY <1>3 DEF Serve, Bytes, Statuses
  <2>2. CallsAreBound' /\ ReturnedIsLast' /\ PostAnswered' /\ CodesTellWhatIsStored'
    BY <1>3 DEF Serve, CallsAreBound, ReturnedIsLast, PostAnswered, CodesTellWhatIsStored
  <2>3. ReadIsCurrent'
    BY <1>3 DEF Serve, Statuses, ReadIsCurrent
  <2>4. ReceiptsAreRead'
    BY <1>3 DEF Serve, ReceiptsAreRead, ReturnedIsLast
  <2> QED
    BY <2>1, <2>2, <2>3, <2>4
<1>4. CASE Change(c)
  <2>1. PutTypeOK'
    BY <1>4 DEF Change, Bytes
  <2>2. CallsAreBound' /\ ReturnedIsLast' /\ ReceiptsAreRead' /\ ReadIsCurrent'
    BY <1>4 DEF Change, CallsAreBound, ReturnedIsLast, ReceiptsAreRead, ReadIsCurrent
  <2>3. post[c] \notin {"unsent", "sent", "denied", "quota", "redirect", "client"}
    BY <1>4 DEF Change, PostAnswered
  <2>4. PostAnswered'
    BY <1>4, <2>3 DEF Change, PostAnswered
  <2>5. CodesTellWhatIsStored'
    BY <1>4 DEF Change, CodesTellWhatIsStored
  <2> QED
    BY <2>1, <2>2, <2>4, <2>5
<1> QED
  BY <1>1, <1>2, <1>3, <1>4 DEF Provider

LEMMA StepPutInv == PutInv /\ [PutNext]_putVars => PutInv'
<1> SUFFICES ASSUME PutInv, [PutNext]_putVars PROVE PutInv'
  OBVIOUS
<1>1. CASE Bind \/ BindFails \/ UNCHANGED putVars
  <2>1. UNCHANGED <<account, wanted, pc, returned, post, body, file, changed>>
    BY <1>1 DEF Bind, BindFails, Session, putVars, provider
  <2>2. session' = session \/ (session = "none" /\ session' \in {"bound", "refused"}
                                /\ (session' = "bound" => account = wanted))
    BY <1>1 DEF Bind, BindFails, Session, putVars
  <2>3. PutTypeOK' /\ CallsAreBound'
    BY <2>1, <2>2 DEF PutInv, PutTypeOK, CallsAreBound
  <2>4. ReturnedIsLast' /\ PostAnswered' /\ ReadIsCurrent' /\ ReceiptsAreRead' /\ CodesTellWhatIsStored'
    BY <2>1 DEF PutInv, ReturnedIsLast, PostAnswered, ReadIsCurrent, ReceiptsAreRead, CodesTellWhatIsStored
  <2> QED
    BY <2>3, <2>4 DEF PutInv
<1> QED
  BY <1>1, CallKeepsPutInv, ProviderKeepsPutInv DEF PutNext

LEMMA PutInvariance == PutSpec => []PutInv
BY InitPutInv, StepPutInv, PTL DEF PutSpec

(* Calls, answers and files have their types.                              *)
THEOREM PutTypeCorrect == PutSpec => []PutTypeOK
<1>1. PutInv => PutTypeOK
  BY DEF PutInv
<1> QED
  BY <1>1, PutInvariance, PTL

(* Whatever the provider stores, serves and loses, a receipt of            *)
(* putOwnedCiphertext is of a file that has read back as the package.      *)
THEOREM ReceiptsAreOfThePackage == PutSpec => []ReceiptsHold
<1>1. PutInv => ReceiptsHold
  BY DEF PutInv, CallsAreBound, ReturnedIsLast, ReadIsCurrent, ReceiptsAreRead, ReceiptsHold
<1> QED
  BY <1>1, PutInvariance, PTL

(* The error codes of classifyDriveError and sessionRequest say of the     *)
(* file what callers read from them, also when POSTs arrive late.          *)
THEOREM CodesAreReliable == PutSpec => []CodesTellWhatIsStored
<1>1. PutInv => CodesTellWhatIsStored
  BY DEF PutInv
<1> QED
  BY <1>1, PutInvariance, PTL
=============================================================================
