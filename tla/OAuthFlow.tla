----------------------------- MODULE OAuthFlow -----------------------------
(***************************************************************************)
(* authorizeInstalledApp of src/src/google/oauth.ts: one attempt to be     *)
(* authorized, in which the setup of the listener, the callbacks that      *)
(* reach it, a timer, the browser and errors of the listener race to       *)
(* settle one promise.  An action is what runs of the event loop between   *)
(* two awaits.                                                             *)
(*                                                                         *)
(* Answers are written to clients that may not read them, and the provider *)
(* may not reply: neither has to happen.                                   *)
(***************************************************************************)
EXTENDS Naturals, FiniteSets

CONSTANT Callbacks     \* requests, each on a connection of its own

Errors == {"BROWSER", "DENIED", "EXCHANGE", "SCOPE", "IDENTITY", "TIMEOUT"}

ASSUME CallbackAssumption == Callbacks \cap (Errors \cup {"none"}) = {}

VARIABLES
  request,    \* what each of them asks
  open,       \* connections
  listener,
  setup,      \* where the callback of server.listen is
  handler,    \* where handleCallback is for each request
  settled, outcome,   \* the first finish, and what it was called with
  result,     \* what the promise is settled with
  aborted,    \* flowAbort
  pending,    \* pendingState is set
  timer,      \* is armed
  exchanging,
  exchanged   \* the requests whose codes have been sent to the provider

flow == <<settled, outcome, aborted, pending, timer, listener, open>>
vars == <<request, setup, handler, result, exchanging, exchanged, flow>>

(* A request is the answer of the provider to this attempt, with a code or *)
(* an error, the one to another attempt, or no valid callback at all.      *)
Requests == {"code", "error", "other", "invalid"}

TypeOK ==
  /\ request \in [Callbacks -> Requests] /\ open \subseteq Callbacks
  /\ listener \in {"opening", "open", "closing", "closed"}
  /\ setup \in {"listening", "pkce", "launching", "done"}
  /\ handler \in [Callbacks ->
       {"none", "denying", "answering", "exchanging", "binding", "ended"}]
  /\ {settled, aborted, pending, timer, exchanging} \subseteq BOOLEAN
  /\ {outcome, result} \subseteq {"none"} \cup Errors \cup Callbacks
  /\ exchanged \subseteq Callbacks

Init ==
  /\ request \in [Callbacks -> Requests] /\ open = {}
  /\ listener = "opening" /\ setup = "listening"
  /\ handler = [c \in Callbacks |-> "none"]
  /\ settled = FALSE /\ outcome = "none" /\ result = "none" /\ aborted = FALSE
  /\ pending = FALSE /\ timer = FALSE /\ exchanging = FALSE /\ exchanged = {}

-----------------------------------------------------------------------------
(* Bug: connections are left to their clients to close.                    *)
SettlePolitely(what) ==
  /\ settled' = TRUE /\ outcome' = what
  /\ aborted' = TRUE /\ pending' = FALSE /\ timer' = FALSE
  /\ listener' = "closing" /\ UNCHANGED open

(* Bug: whoever waits for the provider is not told.                        *)
SettleQuietly(what) ==
  /\ settled' = TRUE /\ outcome' = what
  /\ pending' = FALSE /\ timer' = FALSE
  /\ listener' = "closing" /\ open' = {}
  /\ UNCHANGED aborted

Settle(what) ==
  /\ settled' = TRUE /\ outcome' = what
  /\ aborted' = TRUE /\ pending' = FALSE /\ timer' = FALSE
  /\ listener' = "closing" /\ open' = {}

(* finish: only the first call does anything.                              *)
Finish(what) == IF settled THEN UNCHANGED flow ELSE Settle(what)

(* The callback of server.close settles the promise.                       *)
Closed ==
  /\ listener = "closing" /\ open = {}
  /\ listener' = "closed" /\ result' = outcome
  /\ UNCHANGED <<request, setup, handler, exchanging, exchanged,
                 settled, outcome, aborted, pending, timer, open>>

-----------------------------------------------------------------------------
(* The callback of server.listen.                                          *)
SetupGoesTo(stage) ==
  setup' = stage /\ UNCHANGED <<request, handler, result, exchanging, exchanged>>

Listening ==
  /\ setup = "listening" /\ SetupGoesTo("pkce")
  /\ listener' = "open"
  /\ UNCHANGED <<settled, outcome, aborted, pending, timer, open>>

ListenFails == setup = "listening" /\ Finish("BROWSER") /\ SetupGoesTo("done")

(* Bug: the time to answer starts when the browser is up.                  *)
PkceDoneUntimed ==
  /\ setup = "pkce" /\ SetupGoesTo("launching")
  /\ pending' = TRUE
  /\ UNCHANGED <<settled, outcome, aborted, timer, listener, open>>

(* State and timer are set whether or not the flow is settled by now.      *)
PkceDone ==
  /\ setup = "pkce" /\ SetupGoesTo("launching")
  /\ pending' = TRUE /\ timer' = TRUE
  /\ UNCHANGED <<settled, outcome, aborted, listener, open>>

PkceFails ==
  /\ setup = "pkce" /\ SetupGoesTo("done")
  /\ \E code \in {"EXCHANGE", "BROWSER"} : Finish(code)

Launched    == setup = "launching" /\ SetupGoesTo("done") /\ UNCHANGED flow
LaunchFails == setup = "launching" /\ SetupGoesTo("done") /\ Finish("BROWSER")

TimerFires ==
  /\ timer
  /\ IF settled THEN timer' = FALSE /\ UNCHANGED <<settled, outcome, aborted, pending, listener, open>>
     ELSE Settle("TIMEOUT")
  /\ UNCHANGED <<request, setup, handler, result, exchanging, exchanged>>

(* An error of a listener that is up, such as one in accepting.            *)
ListenerFails ==
  /\ listener = "open" /\ Finish("BROWSER")
  /\ UNCHANGED <<request, setup, handler, result, exchanging, exchanged>>

-----------------------------------------------------------------------------
(* Connections come and go.                                                *)
OnlyOpen == UNCHANGED <<request, setup, handler, result, exchanging, exchanged, settled,
                        outcome, aborted, pending, timer, listener>>
Connect(c) ==
  /\ listener = "open" /\ handler[c] = "none" /\ c \notin open
  /\ open' = open \cup {c} /\ OnlyOpen
Disconnect(c) ==
  /\ c \in open
  /\ open' = open \ {c} /\ OnlyOpen

(* handleCallback, await by await.                                         *)
HandlerGoesTo(c, stage) ==
  handler' = [handler EXCEPT ![c] = stage] /\ UNCHANGED <<request, setup, result>>
ForThisAttempt(c) ==
  ~settled /\ ~exchanging /\ pending /\ request[c] \in {"code", "error"}

Refuse(c) ==
  /\ c \in open /\ handler[c] = "none" /\ ~ForThisAttempt(c)
  /\ HandlerGoesTo(c, "ended") /\ UNCHANGED <<exchanging, exchanged, flow>>

AcceptDenial(c) ==
  /\ c \in open /\ handler[c] = "none" /\ ForThisAttempt(c) /\ request[c] = "error"
  /\ HandlerGoesTo(c, "denying") /\ UNCHANGED <<exchanging, exchanged, flow>>

(* Bug: the attempt is taken only when the answer has been written.        *)
AcceptCodeLate(c) ==
  /\ c \in open /\ handler[c] = "none" /\ ForThisAttempt(c) /\ request[c] = "code"
  /\ HandlerGoesTo(c, "answering") /\ UNCHANGED <<exchanging, exchanged, flow>>

AcceptCode(c) ==
  /\ c \in open /\ handler[c] = "none" /\ ForThisAttempt(c) /\ request[c] = "code"
  /\ exchanging' = TRUE
  /\ HandlerGoesTo(c, "answering") /\ UNCHANGED <<exchanged, flow>>

Denied(c) ==
  /\ handler[c] = "denying" /\ Finish("DENIED")
  /\ HandlerGoesTo(c, "ended") /\ UNCHANGED <<exchanging, exchanged>>

(* getToken is an argument of withAbort and called before that looks       *)
(* whether the flow is settled.                                            *)
Answered(c) ==
  /\ handler[c] = "answering"
  /\ exchanged' = exchanged \cup {c}
  /\ HandlerGoesTo(c, IF aborted THEN "ended" ELSE "exchanging")
  /\ UNCHANGED <<exchanging, flow>>

TokenUsable(c) ==
  /\ handler[c] = "exchanging" /\ ~aborted
  /\ HandlerGoesTo(c, "binding") /\ UNCHANGED <<exchanging, exchanged, flow>>

TokenFails(c) ==
  /\ handler[c] = "exchanging" /\ ~aborted
  /\ \E code \in {"EXCHANGE", "SCOPE"} : Finish(code)
  /\ HandlerGoesTo(c, "ended") /\ UNCHANGED <<exchanging, exchanged>>

Bound(c) ==
  /\ handler[c] = "binding" /\ ~aborted
  /\ \E what \in {c, "IDENTITY"} : Finish(what)
  /\ HandlerGoesTo(c, "ended") /\ UNCHANGED <<exchanging, exchanged>>

(* withAbort: the promise rejects as soon as the flow is settled.          *)
Aborted(c) ==
  /\ handler[c] \in {"exchanging", "binding"} /\ aborted
  /\ Finish("TIMEOUT")
  /\ HandlerGoesTo(c, "ended") /\ UNCHANGED <<exchanging, exchanged>>

-----------------------------------------------------------------------------
Setup   == Listening \/ ListenFails \/ PkceDone \/ PkceFails
Browser == Launched \/ LaunchFails
Handle(c) ==
  \/ Refuse(c) \/ AcceptDenial(c) \/ AcceptCode(c) \/ Denied(c) \/ Answered(c)
  \/ TokenUsable(c) \/ TokenFails(c) \/ Bound(c) \/ Aborted(c)

Next ==
  \/ Setup \/ Browser \/ TimerFires \/ ListenerFails \/ Closed
  \/ \E c \in Callbacks : Connect(c) \/ Disconnect(c) \/ Handle(c)

Spec == Init /\ [][Next]_vars

(* The event loop settles what depends on this process alone: listen, the  *)
(* code verifier, an armed timer, the close of a listener without          *)
(* connections, an abort.                                                  *)
FairSpec ==
  /\ Spec /\ WF_vars(Setup) /\ WF_vars(TimerFires) /\ WF_vars(Closed)
  /\ \A c \in Callbacks : WF_vars(Aborted(c))

-----------------------------------------------------------------------------
(***************************************************************************)
(* Properties.                                                             *)
(***************************************************************************)

(* However many callbacks arrive while answers are being written: one code *)
(* at most goes to the provider, the one for this attempt, and a session   *)
(* is of that code.                                                        *)
OneExchange ==
  /\ \A c, d \in exchanged : c = d
  /\ \A c \in exchanged : request[c] = "code"
  /\ result \in Callbacks => exchanged = {result}

(* Once it may wait for the user, a flow that is not settled has a timer   *)
(* running, also while the browser starts and while a code is exchanged.   *)
WaitsWithDeadline == setup \in {"launching", "done"} => settled \/ timer

(* The promise is settled, whether or not the browser starts, a callback   *)
(* comes, its answer can be written or the provider replies, and whoever   *)
(* keeps a connection open.                                                *)
FlowSettles == <>(result # "none")

(* In the end the flow leaves nothing that would keep the process up: no   *)
(* listener, no connection, no timer and nobody waiting for the provider.  *)
NothingLeftBehind ==
  <>[](/\ listener = "closed" /\ open = {} /\ ~timer
       /\ \A c \in Callbacks : handler[c] \notin {"exchanging", "binding"})

-----------------------------------------------------------------------------
(***************************************************************************)
(* The inductive invariant GoogleProofs uses.                           *)
(***************************************************************************)
Takers ==
  {c \in Callbacks : handler[c] \in {"answering", "exchanging", "binding"}} \cup exchanged

(* exchanging marks that a callback took the attempt, for good.            *)
OneTaker ==
  /\ \A c, d \in Takers : c = d
  /\ \A c \in Takers : exchanging /\ request[c] = "code"

SessionOfExchanged ==
  /\ \A c \in Callbacks : handler[c] \in {"exchanging", "binding"} => c \in exchanged
  /\ outcome \in Callbacks => outcome \in exchanged
  /\ ~settled => outcome = "none"
  /\ result \in {"none", outcome}

IInv == TypeOK /\ OneTaker /\ SessionOfExchanged /\ WaitsWithDeadline
=============================================================================
